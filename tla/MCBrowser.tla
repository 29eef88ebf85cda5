----------------------------- MODULE MCBrowser -----------------------------
(* Instances of Browser for TLC. *)
EXTENDS Browser, TLC

CONSTANTS p1, p2, p3, p4, p5

ThreePages == {p1, p2, p3}
FourPages == {p1, p2, p3, p4}
FivePages == {p1, p2, p3, p4, p5}

(* Tabs are interchangeable. *)
PageSymmetry == Permutations(Pages)

=============================================================================
