----------------------------- MODULE InitAuthority -----------------------------
(***************************************************************************)
(* init-authority, run by several operators for one cold key: look for the *)
(* account, send initialize if it is not there, wait, write                *)
(* vector-info.json.  What was looked up is old when the transaction       *)
(* lands, waits time out, and the error of a transaction that was included *)
(* and failed is not looked at.                                            *)
(***************************************************************************)
EXTENDS Integers

CONSTANTS
    Operator,       \* who runs the command, each in a directory of their own
    MaxCloses,      \* bound: closes of the account
    MaxSpends       \* bound: other payments that empty the hot wallet

ASSUME InitAuthorityAssumption == {MaxCloses, MaxSpends} \subseteq Nat

VARIABLES
    account,        \* the initialisation the account is of, or 0 if closed
    births,         \* initialisations so far
    node,           \* whether the account is there, as nodes report
    wallet,         \* the hot wallet can pay the rent; payments so far
    stage,          \* where each operator's command is
    tx,             \* its transaction: none, pending, ok, err, dropped
    adrift,         \* a transaction nobody waits for may still land
    info            \* vector-info.json of each operator

authorityVars == <<account, births, node, wallet, stage, tx, adrift, info>>

Exists == account # 0

AuthorityInit ==
    /\ account = 0
    /\ births = 0
    /\ node = FALSE
    /\ wallet = [funded |-> TRUE, spends |-> 0]
    /\ stage = [o \in Operator |-> "idle"]
    /\ tx = [o \in Operator |-> "none"]
    /\ adrift = FALSE
    /\ info = [o \in Operator |-> FALSE]

-----------------------------------------------------------------------------
(* initialize on the chain.                                                *)

(* The account must not exist, and the payer pays for it. *)
Succeeds(exists) == ~exists /\ wallet.funded

Include ==
    IF Succeeds(Exists)
    THEN births' = births + 1 /\ account' = births + 1
    ELSE UNCHANGED <<births, account>>

-----------------------------------------------------------------------------
(* The command.                                                            *)

(* Mutant of Look: an account that is there ends the command. *)
LookNoInfo(o) ==
    /\ stage[o] = "idle"
    /\ stage' = [stage EXCEPT ![o] = IF node THEN "done" ELSE "send"]
    /\ tx' = [tx EXCEPT ![o] = "none"]
    /\ adrift' = (adrift \/ tx[o] = "pending")
    /\ UNCHANGED <<account, births, node, wallet, info>>

(* getAccountInfo: if the account is there, vector-info.json is written    *)
(* and nothing sent.  The last transaction, if pending, is on its own.     *)
Look(o) ==
    /\ stage[o] = "idle"
    /\ stage' = [stage EXCEPT ![o] = IF node THEN "done" ELSE "send"]
    /\ info' = [info EXCEPT ![o] = @ \/ node]
    /\ tx' = [tx EXCEPT ![o] = "none"]
    /\ adrift' = (adrift \/ tx[o] = "pending")
    /\ UNCHANGED <<account, births, node, wallet>>

(* sendTransaction simulates first, on what the node knows by now. *)
Send(o) ==
    /\ stage[o] = "send"
    /\ IF Succeeds(node)
       THEN /\ stage' = [stage EXCEPT ![o] = "confirm"]
            /\ tx' = [tx EXCEPT ![o] = "pending"]
       ELSE /\ stage' = [stage EXCEPT ![o] = "idle"]
            /\ UNCHANGED tx
    /\ UNCHANGED <<account, births, node, wallet, adrift, info>>

(* Mutant of Confirm: the file is written without waiting. *)
ConfirmAtOnce(o) ==
    /\ stage[o] = "confirm"
    /\ stage' = [stage EXCEPT ![o] = "done"]
    /\ info' = [info EXCEPT ![o] = TRUE]
    /\ UNCHANGED <<account, births, node, wallet, tx, adrift>>

(* confirmTransaction resolves with or without an error in its value:      *)
(* "Confirmed." is printed and vector-info.json written.                   *)
Confirm(o) ==
    /\ stage[o] = "confirm"
    /\ tx[o] \in {"ok", "err"}
    /\ stage' = [stage EXCEPT ![o] = "done"]
    /\ info' = [info EXCEPT ![o] = TRUE]
    /\ UNCHANGED <<account, births, node, wallet, tx, adrift>>

(* The wait throws, or the command is killed: nothing is written. *)
Timeout(o) ==
    /\ stage[o] = "confirm"
    /\ stage' = [stage EXCEPT ![o] = "idle"]
    /\ UNCHANGED <<account, births, node, wallet, tx, adrift, info>>

(* An operator who misses the account runs the command again. *)
Again(o) ==
    /\ stage[o] = "done"
    /\ ~Exists
    /\ stage' = [stage EXCEPT ![o] = "idle"]
    /\ UNCHANGED <<account, births, node, wallet, tx, adrift, info>>

-----------------------------------------------------------------------------
(* The network and everybody else.                                         *)

Lands(o) ==
    /\ tx[o] = "pending"
    /\ Include
    /\ tx' = [tx EXCEPT ![o] = IF Succeeds(Exists) THEN "ok" ELSE "err"]
    /\ UNCHANGED <<node, wallet, stage, adrift, info>>

Expire(o) ==
    /\ tx[o] = "pending"
    /\ tx' = [tx EXCEPT ![o] = "dropped"]
    /\ UNCHANGED <<account, births, node, wallet, stage, adrift, info>>

LandAdrift ==
    /\ adrift
    /\ Include
    /\ adrift' \in BOOLEAN
    /\ UNCHANGED <<node, wallet, stage, tx, info>>

ExpireAdrift ==
    /\ adrift
    /\ adrift' = FALSE
    /\ UNCHANGED <<account, births, node, wallet, stage, tx, info>>

CatchUp ==
    /\ node # Exists
    /\ node' = Exists
    /\ UNCHANGED <<account, births, wallet, stage, tx, adrift, info>>

Close ==
    /\ Exists
    /\ births <= MaxCloses
    /\ account' = 0
    /\ UNCHANGED <<births, node, wallet, stage, tx, adrift, info>>

(* The hot wallet pays for something else, and is filled up again. *)
Spend ==
    /\ wallet.funded /\ wallet.spends < MaxSpends
    /\ wallet' = [funded |-> FALSE, spends |-> wallet.spends + 1]
    /\ UNCHANGED <<account, births, node, stage, tx, adrift, info>>

Refill ==
    /\ ~wallet.funded
    /\ wallet' = [wallet EXCEPT !.funded = TRUE]
    /\ UNCHANGED <<account, births, node, stage, tx, adrift, info>>

AuthorityNext ==
    \/ \E o \in Operator :
          \/ Look(o) \/ Send(o) \/ Confirm(o) \/ Timeout(o) \/ Again(o)
          \/ Lands(o) \/ Expire(o)
    \/ LandAdrift \/ ExpireAdrift
    \/ CatchUp
    \/ Close
    \/ Spend \/ Refill

(* Operators run the command until it ends and again if the account is     *)
(* missing, nodes catch up, the wallet is filled up, and not every         *)
(* transaction is dropped.                                                 *)
Fairness ==
    /\ \A o \in Operator :
          /\ WF_authorityVars(Look(o))
          /\ WF_authorityVars(Send(o))
          /\ WF_authorityVars(Confirm(o) \/ Timeout(o))
          /\ WF_authorityVars(Again(o))
          /\ SF_authorityVars(Lands(o))
    /\ WF_authorityVars(CatchUp)
    /\ WF_authorityVars(Refill)

AuthoritySpec == AuthorityInit /\ [][AuthorityNext]_authorityVars

AuthorityFairSpec == AuthoritySpec /\ Fairness

-----------------------------------------------------------------------------
(* vector-info.json is written by an operator who has seen the account, or *)
(* whose initialize lost to another that made it: whoever was first and    *)
(* whatever timed out, the authority has been initialised by then.  There  *)
(* is one way to a file without an authority: the operator's own initialize*)
(* was included and failed, which confirmTransaction resolves with and     *)
(* nobody looks at.  (init_authority.ts:40-66.)                            *)
InfoMeansInitialized ==
    [][\A o \in Operator : info'[o] /\ ~info[o] => births > 0 \/ tx[o] = "err"]_authorityVars

(* Running the command again gets there: the account and every operator's  *)
(* file are there in the end, whatever wait timed out, and whoever was     *)
(* first.  (init_authority.ts:40-50: the branch that only writes the file.)*)
EventuallyRecorded == <>[](Exists /\ \A o \in Operator : info[o])
=============================================================================
