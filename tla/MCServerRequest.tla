--------------------------- MODULE MCServerRequest ---------------------------
(* Small instances of ServerRequest.                                         *)
EXTENDS ServerRequest, TLC

Symmetry == Permutations(Clients) \union Permutations(Links)
=============================================================================
