----------------------------- MODULE MCImageFlow -----------------------------
(* ImageFlow with two slots and three versions: one whose ramdisk has its    *)
(* modules in the directory of its own release, one that has them in another, *)
(* one that has none.                                                        *)
EXTENDS ImageFlow, TLC

CONSTANTS a, b, v1, v2, v3

MCSlots == {a, b}

MCVersions == {v1, v2, v3}

MCSymmetry == Permutations(MCSlots)

MCLayout == v1 :> "own" @@ v2 :> "other" @@ v3 :> "none"
=============================================================================
