------------------------------- MODULE Authority -------------------------------
(***************************************************************************)
(* The Vector account as the life of what it controls sees it: it is open  *)
(* or closed, lists are signed on the seed it stores, and each action it   *)
(* accepts voids the others (OneShot, which VectorProgram implements).     *)
(* The ceremony that signs a list is one step (ColdSigning opens it up).   *)
(***************************************************************************)
EXTENDS Commands, FiniteSets

CONSTANTS
    MaxSigned,      \* bound: signed files lying about
    MaxCloses       \* bound

ASSUME AuthorityAssumption == {MaxSigned, MaxCloses} \subseteq Nat

VARIABLES
    vector,         \* the Vector account: open or not, how often it was closed
    signed          \* lists signed on the seed now stored

authority == <<vector, signed>>

AuthorityInit ==
    /\ vector = [open |-> TRUE, closes |-> 0]
    /\ signed = {}

(* A construct command finds the Vector account, and its file is signed. *)
Sign(list) ==
    /\ vector.open
    /\ list \notin signed
    /\ signed' = signed \union {list}
    /\ UNCHANGED vector

SignAny(list) ==
    /\ Cardinality(signed) < MaxSigned
    /\ Sign(list)

(* The program accepts a list and stores the next seed. *)
Accept(list) ==
    /\ vector.open
    /\ list \in signed
    /\ signed' = {}
    /\ UNCHANGED vector

CloseVector ==
    /\ vector.open
    /\ vector.closes < MaxCloses
    /\ vector' = [open |-> FALSE, closes |-> vector.closes + 1]
    /\ signed' = {}

InitializeVector ==
    /\ ~vector.open
    /\ vector' = [vector EXCEPT !.open = TRUE]
    /\ UNCHANGED signed
=============================================================================
