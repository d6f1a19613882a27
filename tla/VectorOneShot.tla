---------------------------- MODULE VectorOneShot ----------------------------
(***************************************************************************)
(* VectorProgram implements OneShot.  The accounts are the state PDAs; the *)
(* epoch of a PDA is what a digest binds besides the action: its seed and  *)
(* its program id; the grants are the signatures.                          *)
(***************************************************************************)
EXTENDS VectorProgram

EpochOf(p, seed) == [seed |-> seed, program |-> p.program]

(* The epoch p is in. *)
Current(p) ==
    IF vector[p] = NoAccount THEN NoAccount ELSE EpochOf(p, vector[p])

(* An epoch ends only when an action is accepted in it, so the epochs ever *)
(* entered are those of the log and the current ones.                      *)
Entered ==
    {<<log[i].pda, EpochOf(log[i].pda, log[i].digest.seed)>> : i \in 1..Len(log)}
    \union
    {<<p, EpochOf(p, vector[p])>> : p \in {q \in Pda : vector[q] # NoAccount}}

GrantOf(f) ==
    [account |-> f.pda,
     epoch   |-> [seed |-> f.digest.seed, program |-> f.digest.program],
     act     |-> [action |-> f.digest.action, body |-> f.digest.body]]

Grants ==
    {GrantOf(f) : f \in {h \in files :
        [key |-> h.pda.authority, digest |-> h.digest] \in signatures}}

Acted == {GrantOf(log[i]) : i \in 1..Len(log)}

Promise == INSTANCE OneShot WITH
    Account <- Pda,
    Epoch   <- [seed : Seed, program : Program],
    Act     <- [action : {ACTION_EXECUTE, ACTION_CLOSE}, body : SubIxData \union Address],
    Closed  <- NoAccount,
    epoch   <- [p \in Pda |-> Current(p)],
    entered <- Entered,
    grants  <- Grants,
    acted   <- Acted

(* Every behaviour of the deployments is one OneShot allows: each          *)
(* re-initialisation and each execute enters an epoch that no deployment   *)
(* was ever in, and every accepted action consumes a signature made for    *)
(* the current epoch of its account.                                       *)
ImplementsOneShot == Promise!Spec
=============================================================================
