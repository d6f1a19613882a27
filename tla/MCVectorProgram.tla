--------------------------- MODULE MCVectorProgram ---------------------------
(***************************************************************************)
(* Small instances of VectorProgram for TLC.                               *)
(***************************************************************************)
EXTENDS VectorInvariant

CONSTANTS c1, c2, P, Q, a1, a2, x1

(* One program on one cluster. *)
OneDeployment == {[cluster |-> c1, program |-> P]}

(* The same program id on two clusters, and a second program on the first. *)
ThreeDeployments ==
    {[cluster |-> c1, program |-> P], [cluster |-> c2, program |-> P],
     [cluster |-> c1, program |-> Q]}

(* Two slots to the second; c2's slot counter is two slots ahead of c1's,  *)
(* so c1 reaches every slot number of c2's one second later.               *)
TwoSlotsPerSecond ==
    [c \in Cluster |->
        [t \in 0..MaxTick |->
            [slot |-> t + (IF c = c1 THEN 0 ELSE 2), unix |-> t \div 2]]]

(* A list that leaves the lamports alone, and one that takes one. *)
NoneOrOne == {<<0>>, <<1>>}

(* Lists that take lamports out of the vault in one and in two steps. *)
TwoTransfers == {<<1>>, <<1, 1>>}
=============================================================================
