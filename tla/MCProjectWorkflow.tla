------------------------- MODULE MCProjectWorkflow -------------------------
(* An instance of ProjectWorkflow for TLC.                                   *)
EXTENDS ProjectWorkflow, TLC

Symmetry == Permutations(Engagements) \cup Permutations(Users)

(* After an override, or once an overtaken transition is recorded, nothing is *)
(* claimed.  An overtaken run that is not recorded can only be refused, which *)
(* leads to where the others would be without it; so it is not followed.      *)
Explored == Regular /\ overtaken = {}
=============================================================================
