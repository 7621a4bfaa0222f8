--------------------------- MODULE StoreEmbedders ---------------------------
(***************************************************************************)
(* Clients, whose memory stores make their embedders: what must hold of    *)
(* those whenever there is a store, and whenever a request went out.       *)
(***************************************************************************)
EXTENDS Clients, Embedders

\* From the moment a memory store has its embedder, every name Bedrock has for
\* a supported model is recognised as a model of its family, and no name of
\* another model, nor an ARN that names none, is taken for one.
RecognisedAsNamed == \A m \in Stores : store[m] # None => NamesRecognised

\* Whatever request went out to Bedrock, made by an embedder with any settings
\* the constructor accepts, for either purpose, the reply is a vector of the
\* configured length: no accepted embedder throws at every text.
AcceptedConfigsWork ==
  \A r \in sent : r.service = "bedrock" => ConfigsWork
=============================================================================
