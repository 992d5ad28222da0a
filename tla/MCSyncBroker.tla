---------------------------- MODULE MCSyncBroker ----------------------------
(* Three calls about one document and one about another.                    *)
EXTENDS SyncBroker, TLC

CONSTANTS a, b, r1, r2, r3, r4

MCPathOf == r1 :> a @@ r2 :> a @@ r3 :> a @@ r4 :> b
MCPathOfThree == r1 :> a @@ r2 :> a @@ r4 :> b
Symmetry == Permutations({r1, r2, r3})
=============================================================================
