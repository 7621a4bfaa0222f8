----------------------------- MODULE MCListing -----------------------------
(***************************************************************************)
(* Small partitions for TLC.                                               *)
(***************************************************************************)
EXTENDS ListingHistory

CONSTANTS l1, l2

\* Python compares strings by code point, which is the order of their UTF-8.
ByCodePoint == [k \in Keys |-> k]

\* JavaScript compares UTF-16 units: a key with a character beyond U+FFFF (the
\* last one here) comes before a key with one from U+E000 to U+FFFF.
ByUtf16 ==
  [k \in Keys |-> IF k = LastKey THEN k - 1 ELSE IF k = LastKey - 1 THEN LastKey ELSE k]
=============================================================================
