--------------------------- MODULE MCImageUpdate ---------------------------
(* Model-checking instances of ImageUpdate.  LegacyHost knows a legacy     *)
(* version and one image; ImageHost the images of one revision, so that a  *)
(* removal by bare revision can be ambiguous.                              *)
EXTENDS ImageUpdate, TLC

CONSTANT Hash

LegacyHost ==
  {[rev |-> 0, hash |-> NoHash]} \cup {[rev |-> 1, hash |-> h] : h \in Hash}
ImageHost == {[rev |-> 1, hash |-> h] : h \in Hash}

Symmetry == Permutations(Proc) \cup Permutations(Inode) \cup Permutations(Hash)
=============================================================================
