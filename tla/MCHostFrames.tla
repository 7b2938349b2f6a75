---------------------------- MODULE MCHostFrames ----------------------------
(* Instances of HostFrames for TLC. *)
EXTENDS HostFrames, TLC

CONSTANTS f1, f2, f3, f4

Frames3 == {f1, f2, f3}
Frames4 == {f1, f2, f3, f4}

\* The frames are interchangeable (nothing but = is applied to them).
Symmetry3 == Permutations(Frames3)
Symmetry4 == Permutations(Frames4)
=============================================================================
