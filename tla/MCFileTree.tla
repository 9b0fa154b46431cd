------------------------------ MODULE MCFileTree ------------------------------
(* /a/b, a second directory beside a, and a file in a.                          *)
EXTENDS FileTree

CONSTANTS root, a, b, d, f

MCParent == a :> root @@ b :> a @@ d :> root @@ f :> a
=============================================================================
