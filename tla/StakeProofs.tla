----------------------------- MODULE StakeProofs -----------------------------
(***************************************************************************)
(* Stake accounts stay under the vault: for any names, validators, funds   *)
(* and any number of signed files, closes, epochs and rewards.             *)
(*                                                                         *)
(* What is signed is a list that a stake command builds, or an operator's  *)
(* homeward list, which is of the same form; such a list, carried out or   *)
(* undone as a whole, leaves no account without its authorities.           *)
(***************************************************************************)
EXTENDS StakeAccounts, FiniteSetTheorems, TLAPS

State ==
    {"none", "uninitialized", "initialized", "activating", "active", "deactivating", "inactive"}

Staked == {"activating", "active", "deactivating"}

Account ==
    [state : State, lamports : Nat, staked : Nat,
     staker : {Vault, Default}, withdrawer : {Vault, Default}, vote : Validator \union {Default}]

Sound(acc) ==
    /\ acc.state \in Staked => acc.lamports >= acc.staked + Reserve
    /\ acc.state # "none" =>
          acc.state # "uninitialized" /\ acc.staker = Vault /\ acc.withdrawer = Vault

(* The lists the stake commands build, whatever the amounts. *)
Listed(list) ==
    \/ \E name \in Names, n \in Nat : list = StakeCreate(name, n)
    \/ \E a \in Addresses, v \in Validator : list = StakeDelegate(a, v)
    \/ \E a \in Addresses : list = StakeDeactivate(a)
    \/ \E a \in Addresses, to \in {Vault, Elsewhere}, n \in Nat : list = StakeWithdraw(a, to, n)

WorldOK(world) ==
    /\ world.vault \in Nat /\ world.away \in Nat
    /\ world.stake \in [Addresses -> Account]
    /\ \A a \in Addresses : Sound(world.stake[a])

Inv ==
    /\ \A list \in signed : Listed(list)
    /\ vault \in Nat /\ away \in Nat
    /\ stake \in [Addresses -> Account]
    /\ \A a \in Addresses : Sound(stake[a])
    /\ growth \in 0..MaxGrowth

World == [vault |-> vault, away |-> away, stake |-> stake]

(* No account yet. *)
LEMMA InitInv == Init => Inv
<1> SUFFICES ASSUME Init PROVE Inv
  OBVIOUS
<1>1. NoAccount \in Account /\ Sound(NoAccount)
  BY DEF NoAccount, Account, State, Staked, Sound
<1>2. QED
  BY <1>1, StakeAssumption DEF Init, AuthorityInit, Inv

(* One account is replaced by a sound one. *)
LEMMA Replaced ==
    ASSUME Inv, NEW a \in Addresses, NEW acc \in Account, Sound(acc),
           NEW n \in Nat, NEW m \in Nat
    PROVE  WorldOK([vault |-> n, away |-> m, stake |-> [stake EXCEPT ![a] = acc]])
BY DEF Inv, WorldOK

(* A list of one instruction. *)
LEMMA RanOne ==
    ASSUME NEW ix, NEW world \in Ran(<<ix>>)
    PROVE  Accepts(World, ix) /\ world = After(World, ix)
BY DEF Ran, RunIx, World

(* A list of two. *)
LEMMA RanTwo ==
    ASSUME NEW ix1, NEW ix2, NEW world \in Ran(<<ix1, ix2>>)
    PROVE  /\ Accepts(World, ix1)
           /\ Accepts(After(World, ix1), ix2)
           /\ world = After(After(World, ix1), ix2)
BY DEF Ran, RunIx, World

(* Both instructions of stake-create run or none: no account is left       *)
(* uninitialised.                                                          *)
LEMMA CreateKeepsSound ==
    ASSUME Inv, NEW name \in Names, NEW n \in Nat, NEW world \in Ran(StakeCreate(name, n))
    PROVE  WorldOK(world)
<1> DEFINE a   == StakeAddress(Vault, name)
           ix1 == CreateWithSeed(name, n)
           ix2 == InitializeStake(name, Vault, Vault)
           mid == [NoAccount EXCEPT !.state = "uninitialized", !.lamports = n]
           new == [mid EXCEPT !.state = "initialized", !.staker = Vault, !.withdrawer = Vault]
<1>1. a \in Addresses
  BY DEF Addresses
<1>2. /\ ix1.op = "CreateWithSeed" /\ ix1.arg[3] = n
      /\ ix1.keys[1].key = Vault /\ ix1.keys[2].key = a
  BY DEF CreateWithSeed, Ix, Meta
<1>3. /\ ix2.op = "Initialize" /\ ix2.arg[1] = Vault /\ ix2.arg[2] = Vault
      /\ ix2.keys[1].key = a
  BY DEF InitializeStake, Ix, Meta
<1>4. /\ Accepts(World, ix1)
      /\ world = After(After(World, ix1), ix2)
  BY RanTwo DEF StakeCreate
<1>5. vault >= n
  BY <1>2, <1>4 DEF Accepts, World
<1>6. After(World, ix1) = [vault |-> vault - n, away |-> away, stake |-> [stake EXCEPT ![a] = mid]]
  BY <1>2 DEF After, World
<1>7. world = [vault |-> vault - n, away |-> away, stake |-> [stake EXCEPT ![a] = new]]
  <2>1. [stake EXCEPT ![a] = mid][a] = mid
    BY <1>1 DEF Inv
  <2> DEFINE w == After(World, ix1)
  <2>2. w.stake[a] = mid
    BY <1>6, <2>1
  <2>3. world = [w EXCEPT !.stake[a] =
                    [w.stake[a] EXCEPT !.state = "initialized", !.staker = Vault, !.withdrawer = Vault]]
    <3> HIDE DEF w
    <3>1. world = After(w, ix2)
      BY <1>4 DEF w
    <3>2. QED
      BY <1>3, <3>1 DEF After
  <2>4. world = [w EXCEPT !.stake[a] = new]
    BY <2>2, <2>3
  <2>5. QED
    BY <1>1, <1>6, <2>4 DEF Inv
<1>8. new \in Account /\ Sound(new)
  BY DEF NoAccount, Account, State, Staked, Sound
<1>9. vault - n \in Nat /\ away \in Nat
  BY <1>5 DEF Inv
<1>10. QED
  <2> HIDE DEF new
  <2>1. QED
    BY <1>1, <1>7, <1>8, <1>9, Replaced

(* stake-delegate, of an idle or of a deactivating account. *)
LEMMA DelegateKeepsSound ==
    ASSUME Inv, NEW a \in Addresses, NEW v \in Validator, NEW world \in Ran(StakeDelegate(a, v))
    PROVE  WorldOK(world)
<1> DEFINE ix == StakeDelegate(a, v)[1]
           acc == stake[a]
           new == IF acc.state = "deactivating" THEN [acc EXCEPT !.state = "active"]
                  ELSE [acc EXCEPT !.state = "activating", !.staked = acc.lamports - Reserve,
                                   !.vote = v]
<1>1. /\ ix.op = "Delegate" /\ ix.keys[1].key = a /\ ix.keys[2].key = v
      /\ StakeDelegate(a, v) = <<ix>>
  BY DEF StakeDelegate, Ix, Meta
<1>2. Accepts(World, ix) /\ world = After(World, ix)
  BY <1>1, RanOne
<1>3. acc \in Account /\ Sound(acc) /\ vault \in Nat /\ away \in Nat
  BY DEF Inv
<1>4. /\ acc.lamports >= Reserve + MinDelegation
      /\ acc.state \in {"initialized", "activating", "inactive", "deactivating"}
  BY <1>1, <1>2 DEF Accepts, World
<1>5. new \in Account /\ Sound(new)
  <2>1. CASE acc.state = "deactivating"
    BY <1>3, <2>1 DEF Account, State, Staked, Sound
  <2>2. CASE acc.state # "deactivating"
    <3>1. /\ acc.lamports - Reserve \in Nat
          /\ acc.lamports >= (acc.lamports - Reserve) + Reserve
      BY <1>3, <1>4, StakeAssumption DEF Account
    <3>2. /\ new \in Account /\ new.state = "activating"
          /\ new.lamports = acc.lamports /\ new.staked = acc.lamports - Reserve
          /\ new.staker = acc.staker /\ new.withdrawer = acc.withdrawer
      BY <1>3, <2>2, <3>1 DEF Account, State
    <3>3. QED
      BY <1>3, <1>4, <3>1, <3>2 DEF Sound
  <2>3. QED
    BY <2>1, <2>2
<1>6. world = [vault |-> vault, away |-> away, stake |-> [stake EXCEPT ![a] = new]]
  BY <1>1, <1>2 DEF After, World
<1>7. QED
  <2> HIDE DEF new
  <2>1. QED
    BY <1>3, <1>5, <1>6, Replaced

(* stake-deactivate. *)
LEMMA DeactivateKeepsSound ==
    ASSUME Inv, NEW a \in Addresses, NEW world \in Ran(StakeDeactivate(a))
    PROVE  WorldOK(world)
<1> DEFINE ix == StakeDeactivate(a)[1]
           acc == stake[a]
           new == [acc EXCEPT !.state = IF @ = "active" THEN "deactivating" ELSE "inactive"]
<1>1. ix.op = "Deactivate" /\ ix.keys[1].key = a /\ StakeDeactivate(a) = <<ix>>
  BY DEF StakeDeactivate, Ix, Meta
<1>2. Accepts(World, ix) /\ world = After(World, ix)
  BY <1>1, RanOne
<1>3. acc \in Account /\ Sound(acc) /\ vault \in Nat /\ away \in Nat
  BY DEF Inv
<1>4. acc.state \in {"activating", "active"}
  BY <1>1, <1>2 DEF Accepts, World
<1>5. new \in Account /\ Sound(new)
  BY <1>3, <1>4 DEF Account, State, Staked, Sound
<1>6. world = [vault |-> vault, away |-> away, stake |-> [stake EXCEPT ![a] = new]]
  BY <1>1, <1>2 DEF After, World
<1>7. QED
  <2> HIDE DEF new
  <2>1. QED
    BY <1>3, <1>5, <1>6, Replaced

(* stake-withdraw. *)
LEMMA WithdrawKeepsSound ==
    ASSUME Inv, NEW a \in Addresses, NEW to \in {Vault, Elsewhere}, NEW n \in Nat,
           NEW world \in Ran(StakeWithdraw(a, to, n))
    PROVE  WorldOK(world)
<1> DEFINE ix == StakeWithdraw(a, to, n)[1]
           acc == stake[a]
           new == IF acc.lamports = n THEN NoAccount ELSE [acc EXCEPT !.lamports = @ - n]
<1>1. /\ ix.op = "Withdraw" /\ ix.keys[1].key = a /\ ix.keys[2].key = to /\ ix.arg[1] = n
      /\ StakeWithdraw(a, to, n) = <<ix>>
  BY DEF StakeWithdraw, Ix, Meta
<1>2. Accepts(World, ix) /\ world = After(World, ix)
  BY <1>1, RanOne
<1>3. acc \in Account /\ Sound(acc) /\ vault \in Nat /\ away \in Nat
  BY DEF Inv
<1>4. acc.state # "none" /\ Withdrawable(acc, n)
  BY <1>1, <1>2 DEF Accepts, World
<1>5. new \in Account /\ Sound(new)
  <2>1. CASE acc.lamports = n
    BY <2>1 DEF NoAccount, Account, State, Staked, Sound
  <2>2. CASE acc.lamports # n
    <3> DEFINE locked == IF acc.state \in Staked THEN acc.staked ELSE 0
    <3>1. locked \in Nat /\ n + locked + Reserve <= acc.lamports
      BY <1>3, <1>4, <2>2 DEF Withdrawable, Account, Staked
    <3>2. acc.lamports - n \in Nat /\ acc.lamports - n >= locked + Reserve
      BY <1>3, <3>1, StakeAssumption DEF Account
    <3>3. QED
      BY <1>3, <1>4, <2>2, <3>2 DEF Account, Sound
  <2>3. QED
    BY <2>1, <2>2
<1>6. world = [vault |-> vault + (IF to = Vault THEN n ELSE 0),
               away |-> away + (IF to = Elsewhere THEN n ELSE 0),
               stake |-> [stake EXCEPT ![a] = new]]
  BY <1>1, <1>2 DEF After, World
<1>7. /\ vault + (IF to = Vault THEN n ELSE 0) \in Nat
      /\ away + (IF to = Elsewhere THEN n ELSE 0) \in Nat
  BY <1>3
<1>8. QED
  <2> HIDE DEF new
  <2>1. QED
    BY <1>5, <1>6, <1>7, Replaced

(* So does any list that is signed. *)
LEMMA ExecuteInv ==
    ASSUME Inv, NEW list \in signed, Execute(list)
    PROVE  Inv'
<1>1. PICK world \in Ran(list) : vault' = world.vault /\ away' = world.away /\ stake' = world.stake
  BY DEF Execute
<1>2. WorldOK(world)
  <2>1. Listed(list)
    BY DEF Inv
  <2>2. QED
    BY <2>1, CreateKeepsSound, DelegateKeepsSound, DeactivateKeepsSound, WithdrawKeepsSound
    DEF Listed
<1>3. signed' = {} /\ growth' = growth
  BY DEF Execute, Accept
<1>4. QED
  BY <1>1, <1>2, <1>3 DEF WorldOK, Inv

(* Signing changes no stake. *)
LEMMA SignInv ==
    ASSUME Inv, NEW list, Listed(list), Sign(list), UNCHANGED <<vault, away, stake, growth>>
    PROVE  Inv'
<1>1. signed' = signed \union {list}
  BY DEF Sign
<1>2. QED
  BY <1>1 DEF Inv

(* The lists that bring the lamports home are lists of the commands. *)
LEMMA HomewardListed ==
    ASSUME Inv, NEW a \in Addresses
    PROVE  Listed(HomewardList(a))
<1>1. stake[a].lamports \in Nat
  BY DEF Inv, Account
<1>2. QED
  BY <1>1 DEF HomewardList, Listed

(* An epoch ends: stake warms up, cools down and earns. *)
LEMMA NextEpochInv == Inv /\ NextEpoch => Inv'
<1> SUFFICES ASSUME Inv, NextEpoch PROVE Inv'
  OBVIOUS
<1>1. PICK earned \in SUBSET {a \in Addresses : stake[a].state \in {"active", "deactivating"}} :
        /\ growth' = growth + Cardinality(earned)
        /\ growth' <= MaxGrowth
        /\ stake' = [a \in Addresses |->
              LET r == IF a \in earned THEN 1 ELSE 0
              IN  [stake[a] EXCEPT
                     !.state = IF @ = "activating" THEN "active"
                               ELSE IF @ = "deactivating" THEN "inactive" ELSE @,
                     !.lamports = @ + r,
                     !.staked = @ + r]]
        /\ UNCHANGED <<authority, vault, away, unwinding>>
  BY DEF NextEpoch
<1>2. growth' \in 0..MaxGrowth
  <2>1. IsFiniteSet(earned)
    <3> DEFINE addressOf == [name \in Names |-> StakeAddress(Vault, name)]
    <3>0. addressOf \in Surjection(Names, Addresses)
      BY DEF Surjection, Addresses
    <3> HIDE DEF addressOf
    <3>1. IsFiniteSet(Addresses)
      BY <3>0, StakeAssumption, FS_Surjection
    <3>2. earned \subseteq Addresses
      BY <1>1
    <3>3. QED
      BY <3>1, <3>2, FS_Subset
  <2>2. Cardinality(earned) \in Nat
    BY <2>1, FS_CardinalityType
  <2>3. growth' = growth + Cardinality(earned) /\ growth' <= MaxGrowth
    BY <1>1
  <2>4. growth \in Nat /\ MaxGrowth \in Nat
    BY StakeAssumption DEF Inv
  <2>5. QED
    BY <2>2, <2>3, <2>4
<1>3. ASSUME NEW a \in Addresses
      PROVE  stake'[a] \in Account /\ Sound(stake'[a])
  <2>1. stake[a] \in Account /\ Sound(stake[a])
    BY DEF Inv
  <2> DEFINE r == IF a \in earned THEN 1 ELSE 0
             s == IF stake[a].state = "activating" THEN "active"
                  ELSE IF stake[a].state = "deactivating" THEN "inactive" ELSE stake[a].state
  <2>2. stake'[a] = [stake[a] EXCEPT !.state = s, !.lamports = @ + r, !.staked = @ + r]
    BY <1>1
  <2>3. r \in Nat /\ s \in State /\ (s \in Staked => stake[a].state \in Staked)
        /\ (s = "none" <=> stake[a].state = "none")
        /\ (s = "uninitialized" <=> stake[a].state = "uninitialized")
    BY <2>1 DEF Account, State, Staked
  <2> HIDE DEF r, s
  <2>4. /\ stake[a].lamports \in Nat /\ stake[a].staked \in Nat
        /\ stake[a].lamports + r \in Nat /\ stake[a].staked + r \in Nat
    BY <2>1, <2>3 DEF Account
  <2> DEFINE more  == stake[a].lamports + r
             moreStaked == stake[a].staked + r
  <2>5. stake'[a] = [stake[a] EXCEPT !.state = s, !.lamports = more, !.staked = moreStaked]
    BY <2>1, <2>2 DEF Account
  <2>6. more \in Nat /\ moreStaked \in Nat
    BY <2>4
  <2> HIDE DEF more, moreStaked
  <2>7. /\ stake'[a] \in Account /\ stake'[a].state = s
        /\ stake'[a].lamports = more /\ stake'[a].staked = moreStaked
        /\ stake'[a].staker = stake[a].staker /\ stake'[a].withdrawer = stake[a].withdrawer
    <3>1. stake[a] \in Account /\ s \in State
      BY <2>1, <2>3
    <3>2. /\ stake'[a].state = s
          /\ stake'[a].lamports = more /\ stake'[a].staked = moreStaked
          /\ stake'[a].staker = stake[a].staker /\ stake'[a].withdrawer = stake[a].withdrawer
      BY <2>5, <3>1 DEF Account
    <3>3. stake'[a] \in Account
      BY <2>5, <2>6, <3>1 DEF Account
    <3>4. QED
      BY <3>2, <3>3
  <2>8. more = stake[a].lamports + r /\ moreStaked = stake[a].staked + r
    BY DEF more, moreStaked
  <2>9. QED
    BY <2>1, <2>3, <2>4, <2>7, <2>8, StakeAssumption DEF Sound
<1>4. stake' \in [Addresses -> Account]
  BY <1>1, <1>3
<1>5. signed' = signed /\ vault' = vault /\ away' = away
  BY <1>1 DEF authority
<1>6. QED
  BY <1>2, <1>3, <1>4, <1>5 DEF Inv

(* Lamports from outside. *)
LEMMA GiftInv ==
    ASSUME Inv, NEW a \in Addresses, Gift(a)
    PROVE  Inv'
<1> DEFINE new == [stake[a] EXCEPT !.lamports = @ + 1]
<1>1. stake[a] \in Account /\ Sound(stake[a])
  BY DEF Inv
<1>2. new \in Account /\ Sound(new)
  BY <1>1, StakeAssumption DEF Account, Sound
<1>3. stake' = [stake EXCEPT ![a] = new]
  BY DEF Gift
<1>4. growth' \in 0..MaxGrowth /\ signed' = signed /\ vault' = vault /\ away' = away
  BY StakeAssumption DEF Gift, Inv, authority
<1>5. QED
  <2> HIDE DEF new
  <2>1. QED
    BY <1>2, <1>3, <1>4 DEF Inv

(* Every step. *)
LEMMA NextInv == Inv /\ [Next]_vars => Inv'
<1> SUFFICES ASSUME Inv, [Next]_vars PROVE Inv'
  OBVIOUS
<1>1. ASSUME NEW list \in Lists, Authorize(list) PROVE Inv'
  <2>1. Listed(list)
    BY StakeAssumption DEF Lists, Amounts, Listed
  <2>2. QED
    BY <1>1, <2>1, SignInv DEF Authorize, SignAny
<1>2. ASSUME NEW a \in Addresses, AuthorizeHomeward(a) PROVE Inv'
  BY <1>2, HomewardListed, SignInv DEF AuthorizeHomeward
<1>3. CASE Unwind
  BY <1>3 DEF Unwind, Inv, authority
<1>4. ASSUME NEW list \in signed, Execute(list) PROVE Inv'
  BY <1>4, ExecuteInv
<1>5. CASE Close
  BY <1>5 DEF Close, CloseVector, Inv
<1>6. CASE Initialize
  BY <1>6 DEF Initialize, InitializeVector, Inv
<1>7. CASE NextEpoch
  BY <1>7, NextEpochInv
<1>8. ASSUME NEW a \in Addresses, Gift(a) PROVE Inv'
  BY <1>8, GiftInv
<1>9. CASE UNCHANGED vars
  BY <1>9 DEF vars, authority, Inv
<1>10. QED
  BY <1>1, <1>2, <1>3, <1>4, <1>5, <1>6, <1>7, <1>8, <1>9 DEF Next

(* Hence always. *)
LEMMA InvHolds == Spec => []Inv
<1>1. QED
  BY InitInv, NextInv, PTL DEF Spec

-----------------------------------------------------------------------------
(* Balances are natural numbers, and a stake account that has delegated    *)
(* holds its stake and its reserve, whatever is withdrawn and earned.      *)
THEOREM StakeTypeCorrect == Spec => []TypeOK
<1>1. Inv => TypeOK
  BY DEF Inv, Account, State, Staked, Sound, TypeOK
<1>2. QED
  BY <1>1, InvHolds, PTL

(* Whatever is signed, executed, voided, closed and initialised again,     *)
(* every stake account has the vault for its staker and its withdrawer.    *)
THEOREM StakeStaysControlled == Spec => []Controlled
<1>1. Inv => Controlled
  BY DEF Inv, Sound, Controlled
<1>2. QED
  BY <1>1, InvHolds, PTL
=============================================================================
