----------------------------- MODULE Embedders -----------------------------
(***************************************************************************)
(* BedrockEmbedder: which request format a model ID asks for, which        *)
(* settings the constructor accepts, and whether the requests it then      *)
(* sends are answered with a vector of the length it promised.             *)
(*                                                                         *)
(* A model ID is a sequence of words and of the characters the code looks  *)
(* for: "/", "." and ":".                                                  *)
(***************************************************************************)
EXTENDS Naturals, SequencesExt

CONSTANTS Words,  \* words of other model names, accounts, Regions, versions
          Unset   \* a setting left undefined

\* Bedrock's vendors and models have names of their own.
ASSUME WordAssumption ==
  Words \cap {".", ":", "/", "amazon", "cohere", "titan-embed-text-v2",
             "embed-english-v3", "embed-multilingual-v3", "embed-v4"} = {}

Titan == "amazon.titan-embed-text-v2"
CohereV3 == "cohere.embed-v3"
CohereV4 == "cohere.embed-v4"

\* The request formats, with the vector lengths each supports.
SupportedDimensions(family) ==
  CASE family = Titan    -> {256, 512, 1024}
    [] family = CohereV3 -> {1024}
    [] family = CohereV4 -> {256, 512, 1024, 1536}

Families == {Titan, CohereV3, CohereV4}

\* The names of the models of each family.
ModelNames(family) ==
  CASE family = Titan    -> {<<"amazon", ".", "titan-embed-text-v2">>}
    [] family = CohereV3 -> {<<"cohere", ".", "embed-english-v3">>,
                             <<"cohere", ".", "embed-multilingual-v3">>}
    [] family = CohereV4 -> {<<"cohere", ".", "embed-v4">>}

-----------------------------------------------------------------------------
(* Recognising a model ID.                                                 *)

IsArn(id) == IsPrefix(<<"arn", ":">>, id)

\* The part of an ARN after its last "/"; any other ID as it is.
Resource(id) ==
  IF IsArn(id)
  THEN SubSeq(id, SelectLastInSeq(id, LAMBDA t : t = "/") + 1, Len(id))
  ELSE id

\* Without the geography of a cross-Region inference profile, as in
\* "us.cohere.embed-v4:0".
WithoutGeography(id) ==
  LET dot == SelectInSeq(id, LAMBDA t : t = ".")
  IN  IF dot > 1 /\ SubSeq(id, 1, dot - 1) \notin {<<"amazon">>, <<"cohere">>}
      THEN SubSeq(id, dot + 1, Len(id))
      ELSE id

\* MUTANT: a name may go on after the model's.
NamesModelPrefix(base, name) == IsPrefix(name, base)

\* The model name ends at the end of the ID or at a ":" before the version.
NamesModel(base, name) == base = name \/ IsPrefix(Append(name, ":"), base)

\* The request format an ID names, Unset when it names none.
ModelFamily(id) ==
  LET base == WithoutGeography(Resource(id))
      named == {f \in Families : \E name \in ModelNames(f) : NamesModel(base, name)}
  IN  IF named = {} THEN Unset ELSE CHOOSE f \in named : TRUE

-----------------------------------------------------------------------------
(* The constructor.                                                        *)

\* What the application passes; `region` and `client` tell which it gave.
Settings(ids, families, dimensions) ==
  [modelId : ids, modelFamily : families \cup {Unset},
   dimensions : dimensions \cup {Unset}, region : BOOLEAN, client : BOOLEAN]

Family(cfg) ==
  IF cfg.modelFamily # Unset THEN cfg.modelFamily ELSE ModelFamily(cfg.modelId)

Dimensions(cfg) == IF cfg.dimensions = Unset THEN 1024 ELSE cfg.dimensions

\* The constructor does not throw.
Accepts(cfg) ==
  /\ cfg.modelFamily \in Families \cup {Unset}
  /\ cfg.modelFamily # Unset /\ ModelFamily(cfg.modelId) # Unset
       => cfg.modelFamily = ModelFamily(cfg.modelId)
  /\ Family(cfg) # Unset
  /\ Dimensions(cfg) \in SupportedDimensions(Family(cfg))
  /\ ~(cfg.client /\ cfg.region)

-----------------------------------------------------------------------------
(* A request and its reply.  A text is as good as another; a vector is     *)
(* its length, and whether its elements are finite numbers.                *)

\* Lengths applications ask for, one that no model supports among them.
AskedDimensions == {256, 512, 768, 1024, 1536}

Purposes == {"document", "query"}

InputType(purpose) ==
  IF purpose = "document" THEN "search_document" ELSE "search_query"

\* MUTANT: a Cohere v4 request does not ask for a length.
RequestBodyLengthless(family, dimensions, purpose) ==
  IF family = Titan
  THEN [inputText |-> "text", dimensions |-> dimensions, normalize |-> TRUE]
  ELSE [texts |-> <<"text">>, input_type |-> InputType(purpose), embedding_types |-> {"float"}]

RequestBody(family, dimensions, purpose) ==
  CASE family = Titan    -> [inputText |-> "text", dimensions |-> dimensions, normalize |-> TRUE]
    [] family = CohereV3 -> [texts |-> <<"text">>, input_type |-> InputType(purpose),
                             embedding_types |-> {"float"}]
    [] family = CohereV4 -> [texts |-> <<"text">>, input_type |-> InputType(purpose),
                             embedding_types |-> {"float"}, output_dimension |-> dimensions]

Vector(n) == [length |-> n, finite |-> TRUE]

\* No setting, vector or reply is the absent one.
ASSUME UnsetAssumption ==
  /\ Unset \notin Families
  /\ \A n \in AskedDimensions :
       Unset \notin {Vector(n), [embedding |-> Vector(n)], [float |-> <<Vector(n)>>]}

\* What a model of a family answers: Titan under `embedding`, Cohere under
\* `embeddings` by type.  A request of the other vendor's format is refused.
Reply(family, body) ==
  IF family = Titan
  THEN IF "inputText" \notin DOMAIN body THEN Unset
       ELSE [embedding |-> Vector(body.dimensions)]
  ELSE IF "input_type" \notin DOMAIN body THEN Unset
       ELSE [float |-> <<Vector(IF family = CohereV3 THEN 1024
                                ELSE IF "output_dimension" \in DOMAIN body
                                     THEN body.output_dimension ELSE 1536)>>]

\* The vector of a reply where the format of the family has it.
Embedding(family, reply) ==
  IF family = Titan
  THEN IF "embedding" \in DOMAIN reply THEN reply.embedding ELSE Unset
  ELSE IF "float" \in DOMAIN reply /\ reply.float # <<>> THEN Head(reply.float) ELSE Unset

\* What embed returns for a reply; Unset when it throws.
Parse(family, dimensions, reply) ==
  LET vector == Embedding(family, reply)
  IN  IF vector # Unset /\ vector.finite /\ vector.length = dimensions
      THEN vector ELSE Unset

\* embed() of an embedder constructed with cfg, against a model of family f.
EmbedText(cfg, f, purpose) ==
  LET reply == Reply(f, RequestBody(Family(cfg), Dimensions(cfg), purpose))
  IN  IF reply = Unset THEN Unset ELSE Parse(Family(cfg), Dimensions(cfg), reply)

-----------------------------------------------------------------------------
(* Bedrock's own names for a model: its ID, a cross-Region profile of it,  *)
(* an ARN that ends in one of these; and ARNs that do not name the model.  *)

Versions == {<<>>, <<":">>} \cup {<<":", w>> : w \in Words} \cup {<<":", w, ":", w>> : w \in Words}
Geographies == {<<>>} \cup {<<w, ".">> : w \in Words}
Arns == {<<>>} \cup {<<"arn", ":", w, ":", ":", v, "/">> : w, v \in Words}

Concat(S, T) == {s \o t : s \in S, t \in T}

IdsOf(family) == Concat(Arns, Concat(Geographies, Concat(ModelNames(family), Versions)))

\* ARNs of application inference profiles and provisioned models.
OpaqueIds == Concat(Arns \ {<<>>}, {<<w>> : w \in Words})

\* Names of other models, and IDs that do not name the model.
OtherIds ==
  LET longer == {Append(name, w) : name \in UNION {ModelNames(f) : f \in Families}, w \in Words}
      other == {<<vendor, ".", w>> : vendor \in {"amazon", "cohere"}, w \in Words}
  IN  Concat(Arns, Concat(Geographies, Concat(longer \cup other, Versions))) \cup OpaqueIds

-----------------------------------------------------------------------------
(* What the properties of a running memory store say of its embedder.      *)

NamesRecognised ==
  /\ \A f \in Families : \A id \in IdsOf(f) : ModelFamily(id) = f
  /\ \A id \in OtherIds : ModelFamily(id) = Unset

\* Settings that the constructor accepts for a model of family f: the ID names
\* it, or modelFamily does.
AcceptedFor(f) ==
  {cfg \in Settings(IdsOf(f), Families, AskedDimensions) : Accepts(cfg)}
    \cup {cfg \in Settings(OpaqueIds, {f}, AskedDimensions) :
            Accepts(cfg) /\ cfg.modelFamily = f}

ConfigsWork ==
  \A f \in Families, purpose \in Purposes : \A cfg \in AcceptedFor(f) :
    EmbedText(cfg, f, purpose) = Vector(Dimensions(cfg))
=============================================================================
