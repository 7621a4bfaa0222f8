---------------------------- MODULE MCKeySpace ----------------------------
(***************************************************************************)
(* Two names, one of which begins with the other, and '..'.                *)
(***************************************************************************)
EXTENDS KeySpace

CONSTANTS a, ab

OneBegins == {<<ab, a>>}

\* '', '/' and 'a//'.
AllRoots == {<<NoName>>, <<NoName, NoName>>, <<a, NoName, NoName>>}
=============================================================================
