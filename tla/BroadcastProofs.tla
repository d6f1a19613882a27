--------------------------- MODULE BroadcastProofs ---------------------------
(***************************************************************************)
(* Broadcasting again is safe, for any number of processes, accounts,      *)
(* seeds and transactions about.                                           *)
(*                                                                         *)
(* RetriesAreSafe speaks of pairs of executions; what is inductive is that *)
(* the n-th execution was on the n-th seed, and the chain is at the next.  *)
(***************************************************************************)
EXTENDS Broadcast, TLAPS

(* Every execution used up the seed that was current. *)
SeedPerExecution ==
    /\ Len(executed) = chain.epoch
    /\ \A i \in 1..Len(executed) : executed[i].epoch = i - 1

Inv == TypeOK /\ SeedPerExecution

(* Including a transaction keeps the chain's part of the invariant.        *)
LEMMA IncludeInv ==
    ASSUME Inv, NEW t \in Tx, Include(t)
    PROVE  /\ chain' \in View
           /\ executed' \in Seq(Pair)
           /\ SeedPerExecution'
<1>1. CASE Runs(t, chain)
  <2>1. /\ chain' = [epoch |-> chain.epoch + 1, accounts |-> chain.accounts \union t.pre]
        /\ executed' = Append(executed, t.pair)
    BY <1>1 DEF Include
  <2>2. /\ t.pair \in Pair /\ t.pre \subseteq Account
        /\ t.pair.epoch \in 0..MaxEpoch - 1 /\ t.pair.epoch = chain.epoch
    BY <1>1 DEF Tx, Pair, Runs
  <2>3. chain.accounts \subseteq Account /\ executed \in Seq(Pair)
    BY DEF Inv, TypeOK, View
  <2>4. chain' \in View
    <3>1. chain.epoch + 1 \in 0..MaxEpoch
      BY <2>2, BoundsAssumption
    <3>2. QED
      BY <2>1, <2>2, <2>3, <3>1 DEF View
  <2>5. executed' \in Seq(Pair)
    BY <2>1, <2>2, <2>3
  <2>6. Len(executed') = chain'.epoch
    BY <2>1, <2>3 DEF Inv, SeedPerExecution
  <2>7. ASSUME NEW i \in 1..Len(executed')
        PROVE  executed'[i].epoch = i - 1
    <3>1. CASE i = Len(executed) + 1
      BY <2>1, <2>2, <2>3, <3>1 DEF Inv, SeedPerExecution
    <3>2. CASE i \in 1..Len(executed)
      BY <2>1, <2>3, <3>2 DEF Inv, SeedPerExecution
    <3>3. QED
      BY <2>1, <2>3, <2>7, <3>1, <3>2
  <2>8. QED
    BY <2>4, <2>5, <2>6, <2>7 DEF SeedPerExecution
<1>2. CASE ~Runs(t, chain)
  BY <1>2 DEF Include, Inv, TypeOK, SeedPerExecution
<1>3. QED
  BY <1>1, <1>2

(* Initially. *)
LEMMA InitInv == Init => Inv
<1> SUFFICES ASSUME Init PROVE Inv
  OBVIOUS
<1>1. chain \in View /\ node \in View
  BY BoundsAssumption DEF Init, View
<1>2. NoTx \in Tx
  BY BoundsAssumption DEF NoTx, Tx, Pair
<1>3. QED
  BY <1>1, <1>2, BoundsAssumption DEF Init, Inv, TypeOK, SeedPerExecution

(* One step, action by action. *)
LEMMA NextInv == Inv /\ [Next]_vars => Inv'
<1> SUFFICES ASSUME Inv, [Next]_vars PROVE Inv'
  OBVIOUS
<1>1. ASSUME NEW p \in Caster, NEW f \in Pair, Start(p, f)
      PROVE  Inv'
  <2>1. [pair |-> f, pre |-> {}] \in Tx
    BY DEF Tx
  <2>2. orphans' \subseteq Tx
    BY <1>1 DEF Start, Inv, TypeOK
  <2>3. QED
    BY <1>1, <2>1, <2>2 DEF Start, Inv, TypeOK, SeedPerExecution
<1>2. ASSUME NEW p \in Caster, Inspect(p)
      PROVE  Inv'
  <2>1. tx[p].pair.needs \subseteq Account
    BY DEF Inv, TypeOK, Tx, Pair
  <2>2. tx' \in [Caster -> Tx]
    BY <1>2, <2>1 DEF Inspect, Missing, Inv, TypeOK, Tx
  <2>3. QED
    BY <1>2, <2>2 DEF Inspect, Inv, TypeOK, SeedPerExecution
<1>3. ASSUME NEW p \in Caster, Send(p)
      PROVE  Inv'
  BY <1>3 DEF Send, Inv, TypeOK, SeedPerExecution
<1>4. ASSUME NEW p \in Caster, Confirm(p) \/ Timeout(p)
      PROVE  Inv'
  BY <1>4 DEF Confirm, Timeout, Inv, TypeOK, SeedPerExecution
<1>5. ASSUME NEW p \in Caster, Land(p)
      PROVE  Inv'
  <2>1. tx[p] \in Tx /\ Include(tx[p])
    BY <1>5 DEF Land, Inv, TypeOK
  <2>2. chain' \in View /\ executed' \in Seq(Pair) /\ SeedPerExecution'
    BY <2>1, IncludeInv
  <2>3. QED
    BY <1>5, <2>2 DEF Land, Inv, TypeOK
<1>6. ASSUME NEW p \in Caster, Expire(p)
      PROVE  Inv'
  BY <1>6 DEF Expire, Inv, TypeOK, SeedPerExecution
<1>7. ASSUME NEW t \in orphans, LandOrphan(t)
      PROVE  Inv'
  <2>1. t \in Tx /\ Include(t)
    BY <1>7 DEF LandOrphan, Inv, TypeOK
  <2>2. chain' \in View /\ executed' \in Seq(Pair) /\ SeedPerExecution'
    BY <2>1, IncludeInv
  <2>3. QED
    BY <1>7, <2>2 DEF LandOrphan, Inv, TypeOK
<1>8. ASSUME NEW t \in orphans, ExpireOrphan(t)
      PROVE  Inv'
  BY <1>8 DEF ExpireOrphan, Inv, TypeOK, SeedPerExecution
<1>9. ASSUME CatchUp
      PROVE  Inv'
  BY <1>9 DEF CatchUp, Inv, TypeOK, SeedPerExecution
<1>10. ASSUME NEW a \in Account, Churn(a)
       PROVE  Inv'
  <2>1. chain' \in View /\ chain'.epoch = chain.epoch
    <3>1. /\ chain \in View
          /\ chain' = [chain EXCEPT !.accounts = IF a \in @ THEN @ \ {a} ELSE @ \union {a}]
      BY <1>10 DEF Churn, Inv, TypeOK
    <3> DEFINE accounts == IF a \in chain.accounts THEN chain.accounts \ {a}
                           ELSE chain.accounts \union {a}
    <3>2. accounts \subseteq Account
      BY <3>1 DEF View
    <3>3. chain' = [chain EXCEPT !.accounts = accounts]
      BY <3>1
    <3> HIDE DEF accounts
    <3>4. QED
      BY <3>1, <3>2, <3>3 DEF View
  <2>2. churn' \in 0..MaxChurn
    BY <1>10, BoundsAssumption DEF Churn, Inv, TypeOK
  <2>3. QED
    BY <1>10, <2>1, <2>2 DEF Churn, Inv, TypeOK, SeedPerExecution
<1>11. ASSUME UNCHANGED vars
       PROVE  Inv'
  BY <1>11 DEF vars, Inv, TypeOK, SeedPerExecution
<1>12. QED
  BY <1>1, <1>2, <1>3, <1>4, <1>5, <1>6, <1>7, <1>8, <1>9, <1>10, <1>11 DEF Next

(* Each execution used up one seed, at every step. *)
THEOREM BroadcastInvariant == Spec => []Inv
BY InitInv, NextInv, PTL DEF Spec

(* Every process, transaction and view is of its type. *)
THEOREM BroadcastTypeCorrect == Spec => []TypeOK
<1>1. Inv => TypeOK
  BY DEF Inv
<1>2. QED
  BY BroadcastInvariant, <1>1, PTL

(* A pair broadcast again after a timeout, or on several machines, is      *)
(* executed at most once, and so is any other on its seed.                 *)
THEOREM RetryingIsSafe == Spec => []RetriesAreSafe
<1>1. Inv => RetriesAreSafe
  <2> SUFFICES ASSUME Inv, NEW i \in 1..Len(executed), NEW j \in 1..Len(executed),
                      executed[i].epoch = executed[j].epoch
               PROVE  i = j
    BY DEF RetriesAreSafe
  <2>1. i - 1 = j - 1
    BY DEF Inv, SeedPerExecution
  <2>2. i \in Nat /\ j \in Nat
    BY DEF Inv, TypeOK
  <2>3. QED
    BY <2>1, <2>2
<1>2. QED
  BY BroadcastInvariant, <1>1, PTL
=============================================================================
