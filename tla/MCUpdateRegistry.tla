-------------------------- MODULE MCUpdateRegistry --------------------------
(* Model-checking instance of UpdateRegistry: two versions of two artifacts *)
(* of which one has the same name in both.                                  *)
EXTENDS UpdateRegistry, TLC

CONSTANTS v1, v2

MCVersion == {v1, v2}
MCArtifact == {"kernel", "root"}
MCName == {"uki.efi", "root-1.raw", "root-2.raw"}
MCFileName ==
  v1 :> ("kernel" :> "uki.efi" @@ "root" :> "root-1.raw")
  @@ v2 :> ("kernel" :> "uki.efi" @@ "root" :> "root-2.raw")

Symmetry == Permutations(Proc) \cup Permutations(Tag)
=============================================================================
