-------------------------- MODULE MCOwnershipFence --------------------------
(* Instances of OwnershipFence for TLC.                                    *)
EXTENDS OwnershipFence, TLC

CONSTANTS p1, p2, p3, here, there

TwoHosts == (p1 :> here) @@ (p2 :> there)
\* A host for each: whoever is a grace old may be taken over while it lives.
ThreeHosts == (p1 :> p1) @@ (p2 :> p2) @@ (p3 :> p3)
\* They differ in nothing but their name.
Interchangeable == Permutations({p1, p2, p3})
=============================================================================
