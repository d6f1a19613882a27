----------------------------- MODULE StakeAccounts -----------------------------
(***************************************************************************)
(* Stake accounts under the vault's authority: created, delegated,         *)
(* deactivated and withdrawn by lists that the stake commands build, over  *)
(* epochs, rewards, and a close and re-initialisation of the Vector        *)
(* account in between.  The commands do not look at the stake account:     *)
(* amounts are what the operator types when the file is made.              *)
(* The Vector account and what is signed are those of Authority.           *)
(***************************************************************************)
EXTENDS Authority

CONSTANTS
    Names,          \* strings the operator passes as --seed
    Validator,      \* vote accounts
    Elsewhere,      \* a recipient that is not the vault
    Funds,          \* lamports of the vault at the start
    Reserve,        \* rent-exempt minimum of a stake account
    MinDelegation,  \* least stake the Stake program delegates
    MaxGrowth       \* bound: rewards and gifts

ASSUME StakeAssumption ==
    /\ Vault # Payer /\ Elsewhere # Vault
    /\ IsFiniteSet(Names)
    /\ {Funds, Reserve, MinDelegation, MaxGrowth} \subseteq Nat

VARIABLES
    vault,          \* lamports of the vault
    away,           \* lamports that close drained and that files for
                    \* somebody else withdrew; nothing depends on it
    stake,          \* per address, the stake account
    unwinding,      \* the operators want all stake back
    growth          \* rewards and gifts so far

vars == <<authority, vault, away, stake, unwinding, growth>>

Addresses == {StakeAddress(Vault, name) : name \in Names}

NoAccount ==
    [state |-> "none", lamports |-> 0, staked |-> 0,
     staker |-> Default, withdrawer |-> Default, vote |-> Default]

Init ==
    /\ AuthorityInit
    /\ vault = Funds
    /\ away = 0
    /\ stake = [a \in Addresses |-> NoAccount]
    /\ unwinding = FALSE
    /\ growth = 0

-----------------------------------------------------------------------------
(* The programs that a list calls.  An instruction that is not accepted    *)
(* undoes the list.                                                        *)

(* Mutant of Withdrawable: the stake that is active may be taken.          *)
WithdrawableAll(acc, n) == n <= acc.lamports

(* All of the stake may be taken once none is active, else what is above   *)
(* the stake and the reserve.                                              *)
Withdrawable(acc, n) ==
    LET locked == IF acc.state \in {"activating", "active", "deactivating"} THEN acc.staked ELSE 0
    IN  \/ n = acc.lamports /\ locked = 0
        \/ n + locked + Reserve <= acc.lamports

Accepts(world, ix) ==
    LET key(i) == ix.keys[i].key
        signs(k) == \E i \in DOMAIN ix.keys : ix.keys[i].key = k /\ ix.keys[i].s
        acc == world.stake[key(1)]
    IN  CASE ix.op = "CreateWithSeed" ->
                /\ signs(key(1)) /\ key(1) = Vault
                /\ key(2) = StakeAddress(ix.arg[1], ix.arg[2])
                /\ world.stake[key(2)].state = "none"
                /\ world.vault >= ix.arg[3]
          [] ix.op = "Initialize" -> acc.state = "uninitialized" /\ acc.lamports >= Reserve
          [] ix.op = "Delegate" ->
                /\ signs(acc.staker)
                /\ acc.lamports >= Reserve + MinDelegation
                /\ \/ acc.state \in {"initialized", "activating", "inactive"}
                   \/ acc.state = "deactivating" /\ acc.vote = key(2)
          [] ix.op = "Deactivate" -> signs(acc.staker) /\ acc.state \in {"activating", "active"}
          [] ix.op = "Withdraw" ->
                /\ signs(acc.withdrawer)
                /\ acc.state # "none"
                /\ Withdrawable(acc, ix.arg[1])

After(world, ix) ==
    LET key(i) == ix.keys[i].key
        acc == world.stake[key(1)]
        is(a) == [world EXCEPT !.stake[key(1)] = a]
    IN  CASE ix.op = "CreateWithSeed" ->
                [world EXCEPT
                    !.vault = @ - ix.arg[3],
                    !.stake[key(2)] =
                        [NoAccount EXCEPT !.state = "uninitialized", !.lamports = ix.arg[3]]]
          [] ix.op = "Initialize" ->
                is([acc EXCEPT !.state = "initialized", !.staker = ix.arg[1], !.withdrawer = ix.arg[2]])
          [] ix.op = "Delegate" ->
                IF acc.state = "deactivating" THEN is([acc EXCEPT !.state = "active"])
                ELSE is([acc EXCEPT !.state = "activating", !.staked = acc.lamports - Reserve,
                                    !.vote = key(2)])
          [] ix.op = "Deactivate" ->
                is([acc EXCEPT !.state = IF @ = "active" THEN "deactivating" ELSE "inactive"])
          [] ix.op = "Withdraw" ->
                [vault |-> world.vault + (IF key(2) = Vault THEN ix.arg[1] ELSE 0),
                 away  |-> world.away + (IF key(2) = Elsewhere THEN ix.arg[1] ELSE 0),
                 stake |-> [world.stake EXCEPT ![key(1)] =
                    IF acc.lamports = ix.arg[1] THEN NoAccount
                    ELSE [acc EXCEPT !.lamports = @ - ix.arg[1]]]]

(* The instructions of a list, of which the commands build one or two, one *)
(* after the other; no world once one has failed.                          *)
RunIx(worlds, ix) == {After(w, ix) : w \in {v \in worlds : Accepts(v, ix)}}

Ran(list) ==
    LET first == RunIx({[vault |-> vault, away |-> away, stake |-> stake]}, list[1])
    IN  IF Len(list) = 1 THEN first ELSE RunIx(first, list[2])

-----------------------------------------------------------------------------
(* Operators.                                                              *)

Amounts == 1..Funds + MaxGrowth

Lists ==
    {StakeCreate(name, n) : name \in Names, n \in Amounts}
      \union {StakeDelegate(a, v) : a \in Addresses, v \in Validator}
      \union {StakeDeactivate(a) : a \in Addresses}
      \union {StakeWithdraw(a, to, n) : a \in Addresses, to \in {Vault, Elsewhere}, n \in Amounts}

Authorize(list) ==
    /\ ~unwinding
    /\ SignAny(list)
    /\ UNCHANGED <<vault, away, stake, unwinding, growth>>

(* What brings the stake in an account nearer to the vault, with the       *)
(* balance the operator sees.                                              *)
HomewardList(a) ==
    IF stake[a].state \in {"activating", "active"} THEN StakeDeactivate(a)
    ELSE StakeWithdraw(a, Vault, stake[a].lamports)

AuthorizeHomeward(a) ==
    /\ unwinding
    /\ stake[a].state \notin {"none", "deactivating"}
    /\ Sign(HomewardList(a))
    /\ UNCHANGED <<vault, away, stake, unwinding, growth>>

Unwind ==
    /\ unwinding' = TRUE
    /\ UNCHANGED <<authority, vault, away, stake, growth>>

-----------------------------------------------------------------------------
(* The chain.                                                              *)

Execute(list) ==
    /\ Accept(list)
    /\ \E world \in Ran(list) :
          /\ vault' = world.vault
          /\ away' = world.away
          /\ stake' = world.stake
    /\ UNCHANGED <<unwinding, growth>>

(* close drains the lamports of the vault, and knows nothing of stake. *)
Close ==
    /\ CloseVector
    /\ vault' = 0
    /\ away' = away + vault
    /\ UNCHANGED <<stake, unwinding, growth>>

Initialize ==
    /\ InitializeVector
    /\ UNCHANGED <<vault, away, stake, unwinding, growth>>

(* What was delegated becomes active, what was deactivated inactive, and   *)
(* stake that was active may have earned a reward.                         *)
NextEpoch ==
    \E earned \in SUBSET {a \in Addresses : stake[a].state \in {"active", "deactivating"}} :
        /\ growth' = growth + Cardinality(earned)
        /\ growth' <= MaxGrowth
        /\ stake' = [a \in Addresses |->
              LET r == IF a \in earned THEN 1 ELSE 0
              IN  [stake[a] EXCEPT
                     !.state = IF @ = "activating" THEN "active"
                               ELSE IF @ = "deactivating" THEN "inactive" ELSE @,
                     !.lamports = @ + r,
                     !.staked = @ + r]]
        /\ UNCHANGED <<authority, vault, away, unwinding>>

(* Anybody sends lamports to a stake account. *)
Gift(a) ==
    /\ stake[a].state # "none"
    /\ growth < MaxGrowth
    /\ growth' = growth + 1
    /\ stake' = [stake EXCEPT ![a].lamports = @ + 1]
    /\ UNCHANGED <<authority, vault, away, unwinding>>

Next ==
    \/ \E list \in Lists : Authorize(list)
    \/ \E a \in Addresses : AuthorizeHomeward(a)
    \/ Unwind
    \/ \E list \in signed : Execute(list)
    \/ Close
    \/ Initialize
    \/ NextEpoch
    \/ \E a \in Addresses : Gift(a)

(* Operators who want their stake back make the next file for each account *)
(* and have it signed and broadcast, and initialise the authority again if *)
(* it was closed; epochs end.                                              *)
Fairness ==
    /\ \A a \in Addresses : WF_vars(AuthorizeHomeward(a))
    /\ WF_vars(\E list \in signed : Execute(list))
    /\ WF_vars(Initialize)
    /\ WF_vars(NextEpoch)

Spec == Init /\ [][Next]_vars

FairSpec == Spec /\ Fairness

-----------------------------------------------------------------------------
(* Types; a stake account holds the stake it delegated and its reserve.    *)
TypeOK ==
    /\ vault \in Nat /\ away \in Nat
    /\ \A a \in Addresses :
          /\ stake[a].state \in
                {"none", "uninitialized", "initialized", "activating", "active",
                 "deactivating", "inactive"}
          /\ stake[a].state \in {"activating", "active", "deactivating"}
                => stake[a].lamports >= stake[a].staked + Reserve
    /\ growth \in 0..MaxGrowth

(* Every stake account there is can be staked and withdrawn by the vault   *)
(* and by nobody else: none is left without authorities by a create that   *)
(* was carried out by half, whatever was signed in between, and whatever   *)
(* became of the Vector account.                                           *)
(* (README.md:290, 343-345 "All inherit the Vault PDA as stake & withdraw  *)
(* authority", stake.ts:67-76.)                                            *)
Controlled ==
    \A a \in Addresses :
        stake[a].state # "none" =>
            stake[a].state # "uninitialized" /\ stake[a].staker = Vault /\ stake[a].withdrawer = Vault

(* Stake that the operators want back comes back, and to the vault: in the *)
(* end no account is left, and but for what operators signed away and      *)
(* close drained, the vault has every lamport it started with and every    *)
(* one the accounts have earned.  Rewards and gifts that make the amount   *)
(* of a signed withdrawal wrong, actions that void what is signed, a close *)
(* that leaves the stake behind, only delay it.                            *)
(* (README.md:317-331, close.rs:67-79, stake.ts:242-297.)                  *)
ComesHome ==
    unwinding ~> /\ \A a \in Addresses : stake[a].state = "none"
                 /\ vault + away = Funds + growth
=============================================================================
