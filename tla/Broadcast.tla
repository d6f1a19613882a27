------------------------------ MODULE Broadcast ------------------------------
(***************************************************************************)
(* `broadcast` processes of one authority against the chain: each inspects *)
(* the chain through an RPC node that lags behind it, adds what the action *)
(* needs and the chain does not have yet, simulates, sends, and waits.     *)
(* Transactions land late, or never, and are not taken back when the wait  *)
(* for them times out; the operator runs broadcast again, with the same    *)
(* pair of files or another, on the same machine or a second one.          *)
(*                                                                         *)
(* What an action may need is an account that somebody has to pay rent     *)
(* for: the destination token account of a token transfer, or the voter's  *)
(* TokenOwnerRecord of a governance deposit.  Broadcast creates it in the  *)
(* same transaction if it is not there.                                    *)
(*                                                                         *)
(* Seeds are epochs, numbered as they are entered: VectorProgram           *)
(* implements OneShot.  The files are a well-formed pair: ColdSigning is   *)
(* about those that are not.                                               *)
(***************************************************************************)
EXTENDS Naturals, Sequences

CONSTANTS
    Caster,         \* broadcast processes
    Account,        \* accounts an action may need
    MaxEpoch,       \* bound: seeds the authority's account goes through
    MaxChurn        \* bound: times others create or close an account

ASSUME BoundsAssumption == MaxEpoch \in Nat \ {0} /\ MaxChurn \in Nat

(* A signed pair: the seed it is for, and the account it needs, if any. *)
Pair == [epoch : 0..MaxEpoch - 1, needs : {{}} \union {{a} : a \in Account}]

(* A transaction: the pair it carries and the accounts it creates first. *)
Tx == [pair : Pair, pre : SUBSET Account]

NoTx == [pair |-> [epoch |-> 0, needs |-> {}], pre |-> {}]

VARIABLES
    chain,          \* the current seed, and the accounts that exist
    node,           \* what the RPC node shows of the chain at "confirmed"
    at,             \* how far each broadcast process is
    tx,             \* the transaction each is putting together or waiting for
    status,         \* what became of that transaction, once sent
    orphans,        \* transactions nobody waits for any more
    churn,          \* times others created or closed an account
    executed        \* history: the pairs executed, in order

vars == <<chain, node, at, tx, status, orphans, churn, executed>>

View == [epoch : 0..MaxEpoch, accounts : SUBSET Account]

TypeOK ==
    /\ chain \in View
    /\ node \in View
    /\ at \in [Caster -> {"idle", "inspect", "send", "confirm", "confirmed", "threw"}]
    /\ tx \in [Caster -> Tx]
    /\ status \in [Caster -> {"unsent", "pending", "ok", "err", "dropped"}]
    /\ orphans \subseteq Tx
    /\ churn \in 0..MaxChurn
    /\ executed \in Seq(Pair)

Init ==
    /\ chain = [epoch |-> 0, accounts |-> {}]
    /\ node = chain
    /\ at = [p \in Caster |-> "idle"]
    /\ tx = [p \in Caster |-> NoTx]
    /\ status = [p \in Caster |-> "unsent"]
    /\ orphans = {}
    /\ churn = 0
    /\ executed = <<>>

-----------------------------------------------------------------------------
(* What the chain makes of a transaction.                                  *)

(* Mutant of Runs: the digest is not bound to the seed. *)
RunsOnAnySeed(t, view) ==
    /\ t.pre \intersect view.accounts = {}
    /\ t.pair.needs \subseteq view.accounts \union t.pre

(* Every instruction of t succeeds: no account is created that exists, the *)
(* seed is the one signed for, and the account needed is there.            *)
Runs(t, view) ==
    /\ t.pair.epoch = view.epoch
    /\ t.pre \intersect view.accounts = {}
    /\ t.pair.needs \subseteq view.accounts \union t.pre

(* A transaction is included whole: all of it takes effect or, failing, it *)
(* costs its fee and no more.                                              *)
Include(t) ==
    IF Runs(t, chain)
    THEN /\ chain' = [epoch |-> chain.epoch + 1, accounts |-> chain.accounts \union t.pre]
         /\ executed' = Append(executed, t.pair)
    ELSE UNCHANGED <<chain, executed>>

-----------------------------------------------------------------------------
(* A broadcast process.                                                    *)

(* The operator runs broadcast on a pair signed at this seed or before it; *)
(* its last transaction, if still pending, has nobody waiting for it.      *)
Start(p, f) ==
    /\ at[p] \in {"idle", "confirmed", "threw"}
    /\ f.epoch <= chain.epoch
    /\ at' = [at EXCEPT ![p] = "inspect"]
    /\ tx' = [tx EXCEPT ![p] = [pair |-> f, pre |-> {}]]
    /\ status' = [status EXCEPT ![p] = "unsent"]
    /\ orphans' = orphans \union IF status[p] = "pending" THEN {tx[p]} ELSE {}
    /\ UNCHANGED <<chain, node, churn, executed>>

(* Mutant of Inspect: the account is created without looking for it. *)
InspectBlindly(p) ==
    /\ at[p] = "inspect"
    /\ tx' = [tx EXCEPT ![p].pre = tx[p].pair.needs]
    /\ at' = [at EXCEPT ![p] = "send"]
    /\ UNCHANGED <<chain, node, status, orphans, churn, executed>>

(* getAccountInfo of the account needed: create it if it is not there. *)
Missing(f, view) == f.needs \ view.accounts

Inspect(p) ==
    /\ at[p] = "inspect"
    /\ tx' = [tx EXCEPT ![p].pre = Missing(tx[p].pair, node)]
    /\ at' = [at EXCEPT ![p] = "send"]
    /\ UNCHANGED <<chain, node, status, orphans, churn, executed>>

(* sendTransaction simulates on the node first, and throws if that fails. *)
Send(p) ==
    /\ at[p] = "send"
    /\ IF Runs(tx[p], node)
       THEN /\ at' = [at EXCEPT ![p] = "confirm"]
            /\ status' = [status EXCEPT ![p] = "pending"]
       ELSE /\ at' = [at EXCEPT ![p] = "threw"]
            /\ UNCHANGED status
    /\ UNCHANGED <<chain, node, tx, orphans, churn, executed>>

(* confirmTransaction resolves once the transaction is included, whether   *)
(* it succeeded or not: the error is in the value it resolves to, which    *)
(* broadcast does not look at.                                             *)
Confirm(p) ==
    /\ at[p] = "confirm"
    /\ status[p] \in {"ok", "err"}
    /\ at' = [at EXCEPT ![p] = "confirmed"]
    /\ UNCHANGED <<chain, node, tx, status, orphans, churn, executed>>

(* confirmTransaction gives up, whatever became of the transaction. *)
Timeout(p) ==
    /\ at[p] = "confirm"
    /\ at' = [at EXCEPT ![p] = "threw"]
    /\ UNCHANGED <<chain, node, tx, status, orphans, churn, executed>>

-----------------------------------------------------------------------------
(* The network and everybody else.                                         *)

Land(p) ==
    /\ status[p] = "pending"
    /\ Include(tx[p])
    /\ status' = [status EXCEPT ![p] = IF Runs(tx[p], chain) THEN "ok" ELSE "err"]
    /\ UNCHANGED <<node, at, tx, orphans, churn>>

(* The blockhash expired before any leader included the transaction. *)
Expire(p) ==
    /\ status[p] = "pending"
    /\ status' = [status EXCEPT ![p] = "dropped"]
    /\ UNCHANGED <<chain, node, at, tx, orphans, churn, executed>>

(* Orphans that carry the same are one here; an equal one may be behind.   *)
LandOrphan(t) ==
    /\ Include(t)
    /\ orphans' \in {orphans, orphans \ {t}}
    /\ UNCHANGED <<node, at, tx, status, churn>>

ExpireOrphan(t) ==
    /\ orphans' = orphans \ {t}
    /\ UNCHANGED <<chain, node, at, tx, status, churn, executed>>

CatchUp ==
    /\ node # chain
    /\ node' = chain
    /\ UNCHANGED <<chain, at, tx, status, orphans, churn, executed>>

(* Somebody creates the account, or its owner closes it. *)
Churn(a) ==
    /\ churn < MaxChurn
    /\ churn' = churn + 1
    /\ chain' = [chain EXCEPT !.accounts = IF a \in @ THEN @ \ {a} ELSE @ \union {a}]
    /\ UNCHANGED <<node, at, tx, status, orphans, executed>>

Next ==
    \/ \E p \in Caster, f \in Pair : Start(p, f)
    \/ \E p \in Caster :
          Inspect(p) \/ Send(p) \/ Confirm(p) \/ Timeout(p) \/ Land(p) \/ Expire(p)
    \/ \E t \in orphans : LandOrphan(t) \/ ExpireOrphan(t)
    \/ CatchUp
    \/ \E a \in Account : Churn(a)

(* The processes run on, the node catches up, an operator who sees in the  *)
(* explorer that the seed has not moved runs broadcast on the current pair *)
(* sooner or later, and not all that is sent is dropped.                   *)
Fairness ==
    /\ \A p \in Caster :
          /\ WF_vars(Inspect(p))
          /\ WF_vars(Send(p))
          /\ WF_vars(Confirm(p) \/ Timeout(p))
          /\ SF_vars(\E f \in Pair : f.epoch = chain.epoch /\ Start(p, f))
          /\ SF_vars(Land(p))
    /\ WF_vars(CatchUp)

Spec == Init /\ [][Next]_vars /\ Fairness

-----------------------------------------------------------------------------
(* However often a pair is broadcast, on however many machines, with       *)
(* however many of its transactions still about after their waits timed    *)
(* out, it is executed at most once, and so is any other pair on its seed. *)
(* (broadcast.ts:131-137: a throw says nothing of whether it executed.)    *)
RetriesAreSafe ==
    \A i, j \in 1..Len(executed) :
        executed[i].epoch = executed[j].epoch => i = j

(* Broadcasting works in the end: while the seed has not moved, running it *)
(* again on a pair for that seed executes one, although the node lags and  *)
(* others create and close the account it needs meanwhile.                 *)
(* (broadcast.ts:153-173, 296-297: what is missing is looked up afresh.)   *)
EverySeedIsUsed ==
    \A e \in 0..MaxEpoch - 1 : chain.epoch = e ~> chain.epoch > e

(* What "Confirmed." tells the operator: the action was executed.          *)
(* (broadcast.ts:137-138, README.md:154-155.)                              *)
ConfirmedMeansExecuted ==
    \A p \in Caster :
        at[p] = "confirmed" => \E i \in 1..Len(executed) : executed[i] = tx[p].pair
=============================================================================
