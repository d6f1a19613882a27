------------------------------- MODULE OneShot -------------------------------
(***************************************************************************)
(* What replay protection promises, with no hash, clock or file in sight.  *)
(*                                                                         *)
(* An account that is open is in an epoch.  Epochs are never entered       *)
(* twice.  A grant authorises one action in one epoch, and may be made     *)
(* only for an epoch that was entered; acting on a grant takes the epoch   *)
(* it is for, ends that epoch, and either opens a new one or closes the    *)
(* account.  So of all the grants for an epoch at most one is acted on,    *)
(* once, and what a grant authorises happens against the very state of the *)
(* account it was given for.                                               *)
(***************************************************************************)
CONSTANTS Account, Epoch, Act, Closed

VARIABLES
    epoch,      \* the epoch each account is in, or Closed
    entered,    \* the pairs <<account, epoch>> ever entered
    grants,     \* the grants made
    acted       \* the grants acted on

vars == <<epoch, entered, grants, acted>>

Grant == [account : Account, epoch : Epoch, act : Act]

Init ==
    /\ epoch = [a \in Account |-> Closed]
    /\ entered = {}
    /\ grants = {}
    /\ acted = {}

(* e was never entered, by any account. *)
Fresh(e) == \A a \in Account : <<a, e>> \notin entered

(* Account a enters a fresh epoch, whichever it is. *)
Enter(a) ==
    LET e == epoch'[a]
    IN  /\ e \in Epoch
        /\ Fresh(e)
        /\ epoch' = [epoch EXCEPT ![a] = e]
        /\ entered' = entered \union {<<a, e>>}

Open(a) ==
    /\ epoch[a] = Closed
    /\ Enter(a)
    /\ UNCHANGED <<grants, acted>>

MakeGrant ==
    /\ \E g \in grants' \ grants :
          /\ g \in Grant
          /\ <<g.account, g.epoch>> \in entered
          /\ grants' = grants \union {g}
    /\ UNCHANGED <<epoch, entered, acted>>

ActOn(g) ==
    /\ g \in grants \ acted
    /\ epoch[g.account] = g.epoch
    /\ acted' = acted \union {g}
    /\ UNCHANGED grants

Continue(g) == ActOn(g) /\ Enter(g.account)

Finish(g) ==
    /\ ActOn(g)
    /\ epoch' = [epoch EXCEPT ![g.account] = Closed]
    /\ UNCHANGED entered

Next ==
    \/ \E a \in Account : Open(a)
    \/ MakeGrant
    \/ \E g \in grants : Continue(g) \/ Finish(g)

Spec == Init /\ [][Next]_vars
=============================================================================
