-------------------------- MODULE TransactionProofs --------------------------
(***************************************************************************)
(* Transactions keep their books: for any accounts, lists, signatures and  *)
(* clients, no seed is used twice, nobody but the vault and the co-signer  *)
(* pays, what broadcast sends takes from the hot wallet only through SPL   *)
(* Governance, a list is carried out whole or not at all, and what         *)
(* broadcast lays out the program walks.                                   *)
(*                                                                         *)
(* The inductive invariant says of the list being walked what is to hold   *)
(* of the lists in the log: each sub-instruction carried out so far was    *)
(* let through by the checks in front of its CPI.  As the Vector program   *)
(* is never called, the seed an execute has read is still the stored one   *)
(* when it comes to store the next, and every seed in the log is smaller.  *)
(*                                                                         *)
(* Two more invariants stand on it.  Balances: what is committed is what   *)
(* the lists in the log move, and what is not committed yet is that and    *)
(* the sub-instructions up to the cursor.  Built: the accounts of a        *)
(* transaction of broadcast are those of its list, and the cursor over     *)
(* them stands where the accounts of the next sub-instruction begin.       *)
(***************************************************************************)
EXTENDS Transaction, Induction

Entry == [seed : Nat, list : Lists, coSigner : Key \union {NoKey}, built : BOOLEAN]

Book == [seed : 0..MaxSeed + 1, balance : [Key -> Nat], log : Seq(Entry)]

(* What the checks and the CPI leave of a sub-instruction carried out. *)
Done(sub, coSigner, built) ==
    /\ sub.accounts[1].key \in {Vault, coSigner}
    /\ built /\ sub.accounts[1].key = Payer => sub.program = Governance

EntryOK(e) == \A j \in 1..Len(e.list) : Done(e.list[j], e.coSigner, e.built)

BookOK(b) ==
    /\ b \in Book
    /\ \A i \in 1..Len(b.log) : b.log[i].seed < b.seed /\ EntryOK(b.log[i])
    /\ \A i, j \in 1..Len(b.log) : b.log[i].seed = b.log[j].seed => i = j

(* A transaction as a client submits it. *)
TxOK(t) ==
    /\ t.built \in BOOLEAN
    /\ Len(t.ixs) \in Nat \ {0}
    /\ \A i \in 1..Len(t.ixs) :
          /\ t.ixs[i].list \in Lists
          /\ t.ixs[i].coSigner \in Key \union {NoKey}
          /\ t.built => InScope(t.ixs[i].list)

(* How far the execute running has come. *)
WalkOK ==
    /\ at.ix \in 1..Len(tx.ixs)
    /\ at.sub \in 0..Len(Ix.list) + 1
    /\ at.sub > 0 => at.seed = work.seed /\ work.seed <= MaxSeed
    /\ \A j \in 1..at.sub - 1 : Done(Ix.list[j], Ix.coSigner, tx.built)

Inv ==
    /\ BookOK(ledger)
    /\ BookOK(work)
    /\ at \in [ix : Nat, sub : Nat, cursor : Nat, seed : Nat]
    /\ IF tx = NoTx THEN work = ledger /\ at = Nowhere
                    ELSE TxOK(tx) /\ WalkOK

-----------------------------------------------------------------------------
(* The lists. *)
LEMMA ListType ==
    ASSUME NEW list \in Lists
    PROVE  /\ Len(list) \in Nat
           /\ \A i \in 1..Len(list) :
                 /\ list[i].accounts \in Seq(Account)
                 /\ Len(list[i].accounts) \in Nat
                 /\ Len(list[i].accounts) >= 2
                 /\ list[i].accounts[1].key \in Key /\ list[i].accounts[2].key \in Key
                 /\ list[i].accounts[1].signer \in BOOLEAN
<1>1. list \in Seq(SubIx) /\ \A i \in 1..Len(list) : Len(list[i].accounts) >= 2
  BY KeysAssumption
<1>2. ASSUME NEW i \in 1..Len(list)
      PROVE  list[i].accounts \in Seq(Account)
  <2>1. list[i] \in SubIx
    BY <1>1
  <2>2. QED
    BY <2>1 DEF SubIx
<1>3. ASSUME NEW accounts \in Seq(Account), Len(accounts) >= 2
      PROVE  /\ accounts[1].key \in Key /\ accounts[2].key \in Key
             /\ accounts[1].signer \in BOOLEAN
  <2>1. accounts[1] \in Account /\ accounts[2] \in Account
    BY <1>3
  <2>2. QED
    BY <2>1 DEF Account
<1>4. ASSUME NEW i \in 1..Len(list)
      PROVE  /\ Len(list[i].accounts) \in Nat
             /\ Len(list[i].accounts) >= 2
             /\ list[i].accounts[1].key \in Key /\ list[i].accounts[2].key \in Key
             /\ list[i].accounts[1].signer \in BOOLEAN
  BY <1>1, <1>2, <1>3
<1>5. QED
  BY <1>1, <1>2, <1>4

(* The signers a list asks for are accounts. *)
LEMMA CoSignerType ==
    ASSUME NEW list \in Lists
    PROVE  CoSigner(list) \in Key \union {NoKey}
<1>1. ExtraSigners(list) \subseteq Key
  <2>1. ASSUME NEW i \in 1..Len(list), NEW b \in ToSet(list[i].accounts)
        PROVE  b.key \in Key
    <3>1. list[i].accounts \in Seq(Account)
      BY ListType
    <3>2. PICK k \in DOMAIN list[i].accounts : b = list[i].accounts[k]
      BY DEF ToSet
    <3>3. k \in 1..Len(list[i].accounts)
      BY <3>1
    <3>4. b \in Account
      BY <3>1, <3>2, <3>3
    <3>5. QED
      BY <3>4 DEF Account
  <2>2. QED
    BY <2>1 DEF ExtraSigners
<1>2. QED
  BY <1>1 DEF CoSigner

(* Who is asked to sign, and is not the vault, is an extra signer. *)
LEMMA AskedToSign ==
    ASSUME NEW list, NEW i \in 1..Len(list), NEW a \in ToSet(list[i].accounts),
           a.signer, a.key # Vault
    PROVE  a.key \in ExtraSigners(list)
<1>1. a.key \in {c.key : c \in {b \in ToSet(list[i].accounts) : b.signer}}
  OBVIOUS
<1> DEFINE asked(j) == {c.key : c \in {b \in ToSet(list[j].accounts) : b.signer}}
<1>2. a.key \in asked(i)
  BY <1>1
<1>3. ExtraSigners(list) = (UNION {asked(j) : j \in 1..Len(list)}) \ {Vault}
  BY DEF ExtraSigners
<1>4. asked(i) \in {asked(j) : j \in 1..Len(list)}
  OBVIOUS
<1>5. a.key \in UNION {asked(j) : j \in 1..Len(list)}
  <2> HIDE DEF asked
  <2>1. QED
    BY <1>2, <1>4
<1>6. QED
  <2> HIDE DEF asked
  <2>1. QED
    BY <1>3, <1>5

(* Nothing executed yet. *)
LEMMA InitInv == Init => Inv
<1> SUFFICES ASSUME Init PROVE Inv
  OBVIOUS
<1>1. ledger \in Book /\ ledger.log = <<>>
  BY KeysAssumption DEF Init, Book
<1>2. QED
  BY <1>1 DEF Init, Inv, BookOK, Nowhere

(* A transaction that is let in starts on the committed state. *)
LEMMA RunInv ==
    ASSUME Inv, NEW t, TxOK(t), Run(t)
    PROVE  Inv'
<1>1. t # NoTx
  BY DEF TxOK, NoTx
<1>2. BookOK(ledger') /\ BookOK(work')
  BY DEF Inv, Run
<1>3. at' = [ix |-> 1, sub |-> 0, cursor |-> 0, seed |-> 0] /\ tx' = t
  BY DEF Run, Nowhere
<1>4. TxOK(tx')
  BY <1>3
<1>5. Len((Ix').list) \in Nat
  <2>1. (Ix').list \in Lists
    BY <1>3, <1>4 DEF Ix, TxOK
  <2>2. QED
    BY <2>1, ListType
<1>6. WalkOK'
  BY <1>3, <1>4, <1>5 DEF WalkOK, TxOK, Ix
<1>7. QED
  BY <1>1, <1>2, <1>3, <1>4, <1>6 DEF Inv, BookOK

(* broadcast sends a transaction of its own making. *)
LEMMA BroadcastInv ==
    ASSUME Inv, NEW list \in Lists, Broadcast(list)
    PROVE  Inv'
<1> DEFINE t == [built |-> TRUE, signers |-> {Payer}, ixs |-> <<BuildExecute(list)>>]
<1>1. TxOK(t)
  BY CoSignerType DEF TxOK, BuildExecute, Broadcast
<1>2. QED
  BY <1>1, RunInv DEF Broadcast

(* Anybody else may send any. *)
LEMMA SubmitInv ==
    ASSUME Inv, NEW signers \in SUBSET Wallet, NEW ixs, Len(ixs) \in Nat \ {0},
           \A i \in 1..Len(ixs) : ixs[i].list \in Lists,
           Submit(signers, ixs)
    PROVE  Inv'
<1> DEFINE t == [built |-> FALSE, signers |-> signers, ixs |-> ixs]
<1>1. signers \subseteq Key
  BY KeysAssumption
<1>2. TxOK(t)
  BY <1>1 DEF TxOK, Submit
<1>3. QED
  BY <1>2, RunInv DEF Submit

(* An aborted transaction leaves what is committed. *)
LEMMA AbortInv ==
    ASSUME Inv, NEW why, Abort(why)
    PROVE  Inv'
BY DEF Inv, Abort, Nowhere, BookOK

-----------------------------------------------------------------------------
(* The checks in front of the walk. *)
LEMMA VerifyInv == Inv /\ Verify => Inv'
<1> SUFFICES ASSUME Inv, Verify PROVE Inv'
  OBVIOUS
<1>1. CASE Abort("signature")
  BY <1>1, AbortInv
<1>2. CASE ~Abort("signature")
  <2>1. /\ Ix.list \in SignedOn(work.seed)
        /\ at' = [at EXCEPT !.sub = 1, !.cursor = 0, !.seed = work.seed]
        /\ UNCHANGED <<ledger, work, tx, refused>>
        /\ tx # NoTx /\ at.sub = 0
    BY <1>2 DEF Verify
  <2>2. work.seed \in Nat /\ work.seed <= MaxSeed
    BY <2>1, KeysAssumption DEF SignedOn, Inv, BookOK, Book
  <2>3. TxOK(tx) /\ WalkOK
    BY <2>1 DEF Inv
  <2>4. Ix.list \in Lists
    BY <2>3 DEF TxOK, WalkOK, Ix
  <2>5. Len(Ix.list) \in Nat
    BY <2>4, ListType
  <2>6. at'.ix = at.ix /\ at'.sub = 1 /\ at'.seed = work.seed
        /\ at' \in [ix : Nat, sub : Nat, cursor : Nat, seed : Nat]
    BY <2>1, <2>2 DEF Inv
  <2>7. Ix' = Ix
    BY <2>1, <2>6 DEF Ix
  <2>8. WalkOK'
    BY <2>1, <2>2, <2>3, <2>5, <2>6, <2>7 DEF WalkOK
  <2>9. QED
    BY <2>1, <2>3, <2>6, <2>8 DEF Inv, BookOK, TxOK
<1>3. QED
  BY <1>1, <1>2

(* A CPI moves a lamport from an account that has one. *)
LEMMA MovedType ==
    ASSUME NEW balance \in [Key -> Nat], NEW sub,
           sub.accounts[1].key \in Key, sub.accounts[2].key \in Key,
           balance[sub.accounts[1].key] > 0
    PROVE  Moved(balance, sub) \in [Key -> Nat]
<1> DEFINE from == sub.accounts[1].key
           to   == sub.accounts[2].key
           less == [balance EXCEPT ![from] = @ - 1]
<1>1. less \in [Key -> Nat]
  OBVIOUS
<1>2. [less EXCEPT ![to] = @ + 1] \in [Key -> Nat]
  BY <1>1
<1>3. QED
  BY <1>2 DEF Moved

(* What is carried out was let through. *)
LEMMA CarriedOutIsDone ==
    ASSUME TxOK(tx), WalkOK, at.sub \in 1..Len(Ix.list),
           SignersAllowed(Sub), Succeeds(Sub), Sub.program # Vector
    PROVE  Done(Sub, Ix.coSigner, tx.built)
<1>1. Ix.list \in Lists /\ (tx.built => InScope(Ix.list))
  BY DEF TxOK, WalkOK, Ix
<1>2. /\ Sub.accounts \in Seq(Account)
      /\ Len(Sub.accounts) \in Nat /\ Len(Sub.accounts) >= 2
  BY <1>1, ListType DEF Sub
<1>3. Sub.accounts[1] \in ToSet(Sub.accounts)
  BY <1>2 DEF ToSet
<1>4. Sub.accounts[1].signer
  BY DEF Succeeds
<1>5. Sub.accounts[1].key \in {Vault, Ix.coSigner}
  BY <1>3, <1>4 DEF SignersAllowed
<1>6. ASSUME tx.built, Sub.accounts[1].key = Payer
      PROVE  Sub.program = Governance
  <2>1. Payer \in ExtraSigners(<<Sub>>)
    <3>1. Len(<<Sub>>) = 1 /\ <<Sub>>[1] = Sub
      OBVIOUS
    <3>2. Payer # Vault
      BY KeysAssumption
    <3>3. 1 \in 1..Len(<<Sub>>) /\ Sub.accounts[1] \in ToSet(<<Sub>>[1].accounts)
      BY <1>3, <3>1
    <3>4. Sub.accounts[1].key \in ExtraSigners(<<Sub>>)
      BY <1>4, <1>6, <3>2, <3>3, AskedToSign
    <3>5. QED
      BY <1>6, <3>4
  <2>2. QED
    BY <1>1, <1>6, <2>1 DEF InScope, Sub
<1>7. QED
  BY <1>5, <1>6 DEF Done

(* A CPI moves what its checks let through. *)
LEMMA CpiInv == Inv /\ Cpi => Inv'
<1> SUFFICES ASSUME Inv, Cpi PROVE Inv'
  OBVIOUS
<1>1. CASE \E why \in {"self", "accounts", "cpi"} : Abort(why)
  BY <1>1, AbortInv
<1>2. CASE ~ \E why \in {"self", "accounts", "cpi"} : Abort(why)
  <2>1. /\ tx # NoTx /\ at.sub \in 1..Len(Ix.list)
        /\ Sub.program # Vector /\ SignersAllowed(Sub) /\ Succeeds(Sub)
        /\ work' = Effect(Sub)
        /\ at' = [at EXCEPT !.sub = @ + 1, !.cursor = @ + 1 + Len(Sub.accounts)]
        /\ UNCHANGED <<ledger, tx, refused>>
    BY <1>2 DEF Cpi, SelfCpi
  <2>2. TxOK(tx) /\ WalkOK
    BY <2>1 DEF Inv
  <2>3. Ix.list \in Lists
    BY <2>2 DEF TxOK, WalkOK, Ix
  <2>4. /\ Len(Ix.list) \in Nat
        /\ Len(Sub.accounts) \in Nat
        /\ Sub.accounts[1].key \in Key /\ Sub.accounts[2].key \in Key
    BY <2>1, <2>3, ListType DEF Sub
  <2>5. /\ work' = [work EXCEPT !.balance = Moved(@, Sub)]
        /\ work.balance[Sub.accounts[1].key] > 0
    BY <2>1 DEF Effect, Succeeds
  <2>6. BookOK(work') /\ work'.seed = work.seed
    <3>1. work \in Book
      BY DEF Inv, BookOK
    <3>2. Moved(work.balance, Sub) \in [Key -> Nat]
      BY <2>4, <2>5, <3>1, MovedType DEF Book
    <3>3. work' \in Book /\ work'.seed = work.seed /\ work'.log = work.log
      BY <2>5, <3>1, <3>2 DEF Book
    <3>4. QED
      BY <3>3 DEF Inv, BookOK
  <2>7. /\ at' \in [ix : Nat, sub : Nat, cursor : Nat, seed : Nat]
        /\ at'.ix = at.ix /\ at'.sub = at.sub + 1 /\ at'.seed = at.seed
    <3>1. at \in [ix : Nat, sub : Nat, cursor : Nat, seed : Nat]
      BY DEF Inv
    <3>2. at.sub + 1 \in Nat /\ at.cursor + 1 + Len(Sub.accounts) \in Nat
      BY <2>4, <3>1
    <3>3. QED
      BY <2>1, <3>1, <3>2
  <2>8. Ix' = Ix
    BY <2>1, <2>7 DEF Ix
  <2>9. Done(Sub, Ix.coSigner, tx.built)
    BY <2>1, <2>2, CarriedOutIsDone
  <2>10. \A j \in 1..at'.sub - 1 : Done(Ix.list[j], Ix.coSigner, tx.built)
    <3> SUFFICES ASSUME NEW j \in 1..at'.sub - 1
                 PROVE  Done(Ix.list[j], Ix.coSigner, tx.built)
      OBVIOUS
    <3>1. at.sub \in Nat /\ j \in 1..at.sub
      BY <2>7 DEF Inv
    <3>2. j \in 1..at.sub - 1 \/ j = at.sub
      BY <3>1
    <3>3. CASE j \in 1..at.sub - 1
      BY <2>2, <3>3 DEF WalkOK
    <3>4. CASE j = at.sub
      BY <2>9, <3>4 DEF Sub
    <3>5. QED
      BY <3>2, <3>3, <3>4
  <2>11. WalkOK'
    BY <2>1, <2>2, <2>4, <2>6, <2>7, <2>8, <2>10 DEF WalkOK
  <2>12. QED
    BY <2>1, <2>2, <2>6, <2>7, <2>11 DEF Inv, BookOK, TxOK
<1>3. QED
  BY <1>1, <1>2

(* An entry for the stored seed is the first. *)
LEMMA EntryAppended ==
    ASSUME NEW b, BookOK(b), b.seed <= MaxSeed,
           NEW e \in Entry, e.seed = b.seed, EntryOK(e)
    PROVE  BookOK([b EXCEPT !.seed = b.seed + 1, !.log = Append(@, e)])
<1> DEFINE c == [b EXCEPT !.seed = b.seed + 1, !.log = Append(@, e)]
<1>1. /\ b \in Book /\ b.log \in Seq(Entry) /\ Len(b.log) \in Nat
      /\ b.seed \in Nat /\ MaxSeed \in Nat
  BY KeysAssumption DEF BookOK, Book
<1>2. /\ c.seed = b.seed + 1 /\ c.log = Append(b.log, e) /\ c.balance = b.balance
      /\ c \in Book
  <2>1. b.seed + 1 \in 0..MaxSeed + 1
    BY <1>1
  <2>2. Append(b.log, e) \in Seq(Entry)
    BY <1>1
  <2>3. QED
    BY <1>1, <2>1, <2>2 DEF Book
<1>3. /\ Len(c.log) = Len(b.log) + 1
      /\ c.log[Len(b.log) + 1] = e
      /\ \A i \in 1..Len(b.log) : c.log[i] = b.log[i]
  BY <1>1, <1>2
<1>4. \A i \in 1..Len(b.log) : b.log[i].seed < b.seed /\ EntryOK(b.log[i]) /\ b.log[i].seed \in Nat
  <2> SUFFICES ASSUME NEW i \in 1..Len(b.log)
               PROVE  b.log[i].seed < b.seed /\ EntryOK(b.log[i]) /\ b.log[i].seed \in Nat
    OBVIOUS
  <2>1. b.log[i] \in Entry
    BY <1>1
  <2>2. QED
    BY <2>1 DEF BookOK, Entry
<1>5. \A i \in 1..Len(c.log) : c.log[i].seed < c.seed /\ EntryOK(c.log[i])
  <2> SUFFICES ASSUME NEW i \in 1..Len(c.log)
               PROVE  c.log[i].seed < c.seed /\ EntryOK(c.log[i])
    OBVIOUS
  <2> HIDE DEF c
  <2>1. CASE i = Len(b.log) + 1
    BY <1>1, <1>2, <1>3, <2>1
  <2>2. CASE i \in 1..Len(b.log)
    BY <1>1, <1>2, <1>3, <1>4, <2>2
  <2>3. QED
    BY <1>1, <1>3, <2>1, <2>2
<1>6. \A i, j \in 1..Len(c.log) : c.log[i].seed = c.log[j].seed => i = j
  <2> SUFFICES ASSUME NEW i \in 1..Len(c.log), NEW j \in 1..Len(c.log),
                      c.log[i].seed = c.log[j].seed
               PROVE  i = j
    OBVIOUS
  <2> HIDE DEF c
  <2>1. \A k \in 1..Len(c.log) : k \in 1..Len(b.log) \/ k = Len(b.log) + 1
    BY <1>1, <1>3
  <2>2. ASSUME NEW k \in 1..Len(b.log)
        PROVE  c.log[k].seed # c.log[Len(b.log) + 1].seed
    <3>1. c.log[k].seed < b.seed /\ c.log[k].seed \in Nat
      BY <1>3, <1>4
    <3>2. c.log[Len(b.log) + 1].seed = b.seed
      BY <1>3
    <3>3. QED
      BY <1>1, <3>1, <3>2
  <2>3. CASE i \in 1..Len(b.log) /\ j \in 1..Len(b.log)
    BY <1>3, <2>3 DEF BookOK
  <2>4. QED
    BY <2>1, <2>2, <2>3
<1>7. QED
  BY <1>2, <1>5, <1>6 DEF BookOK

(* The next seed is stored, and the list goes into the log. *)
LEMMA AdvanceInv == Inv /\ Advance => Inv'
<1> SUFFICES ASSUME Inv, Advance PROVE Inv'
  OBVIOUS
<1> DEFINE e == [seed |-> at.seed, list |-> Ix.list, coSigner |-> Ix.coSigner, built |-> tx.built]
           done == [work EXCEPT !.seed = at.seed + 1, !.log = Append(@, e)]
<1>1. TxOK(tx) /\ WalkOK /\ tx # NoTx /\ at.sub = Len(Ix.list) + 1
  BY DEF Inv, Advance
<1>2. Ix.list \in Lists /\ Ix.coSigner \in Key \union {NoKey} /\ Len(Ix.list) \in Nat
  <2>1. Ix.list \in Lists /\ Ix.coSigner \in Key \union {NoKey}
    BY <1>1 DEF TxOK, WalkOK, Ix
  <2>2. QED
    BY <2>1, ListType
<1>3. at.seed = work.seed /\ work.seed <= MaxSeed /\ at.seed \in Nat
  BY <1>1, <1>2 DEF WalkOK, Inv
<1>4. e \in Entry /\ EntryOK(e)
  BY <1>1, <1>2, <1>3 DEF Entry, EntryOK, TxOK, WalkOK
<1>5. BookOK(done)
  <2>1. BookOK(work) /\ e.seed = work.seed
    BY <1>3 DEF Inv
  <2>2. BookOK([work EXCEPT !.seed = work.seed + 1, !.log = Append(@, e)])
    BY <1>3, <1>4, <2>1, EntryAppended
  <2>3. QED
    BY <1>3, <2>2
<1>6. CASE Abort("accounts")
  BY <1>6, AbortInv
<1>7. CASE /\ at.ix < Len(tx.ixs)
           /\ work' = done
           /\ at' = [Nowhere EXCEPT !.ix = at.ix + 1]
           /\ UNCHANGED <<ledger, tx, refused>>
  <2>1. /\ at' \in [ix : Nat, sub : Nat, cursor : Nat, seed : Nat]
        /\ at'.ix = at.ix + 1 /\ at'.sub = 0
    BY <1>7 DEF Inv, Nowhere
  <2>2. at.ix + 1 \in 1..Len(tx.ixs)
    BY <1>1, <1>7 DEF WalkOK, TxOK
  <2>3. (Ix').list \in Lists
    BY <1>1, <1>7, <2>1, <2>2 DEF Ix, TxOK
  <2>4. Len((Ix').list) \in Nat
    BY <2>3, ListType
  <2>5. WalkOK'
    <3>1. at'.ix \in 1..Len(tx'.ixs) /\ at'.sub \in 0..Len((Ix').list) + 1
      BY <1>7, <2>1, <2>2, <2>4
    <3>2. ~(at'.sub > 0) /\ 1..at'.sub - 1 = {}
      BY <2>1
    <3>3. QED
      BY <3>1, <3>2 DEF WalkOK
  <2>6. BookOK(ledger') /\ BookOK(work') /\ TxOK(tx') /\ tx' # NoTx
    BY <1>1, <1>5, <1>7 DEF Inv
  <2>7. QED
    BY <2>1, <2>5, <2>6 DEF Inv, BookOK, TxOK
<1>8. CASE /\ ledger' = done /\ work' = done
           /\ tx' = NoTx /\ at' = Nowhere
  <2>1. at' \in [ix : Nat, sub : Nat, cursor : Nat, seed : Nat]
    BY <1>8 DEF Nowhere
  <2>2. BookOK(ledger') /\ BookOK(work') /\ tx' = NoTx /\ work' = ledger' /\ at' = Nowhere
    BY <1>5, <1>8
  <2>3. QED
    BY <2>1, <2>2 DEF Inv, BookOK, Nowhere, NoTx
<1>9. QED
  BY <1>6, <1>7, <1>8 DEF Advance

(* Every step. *)
LEMMA NextInv == Inv /\ [Next]_vars => Inv'
<1> SUFFICES ASSUME Inv, [Next]_vars PROVE Inv'
  OBVIOUS
<1>1. ASSUME NEW list \in Lists, Broadcast(list) PROVE Inv'
  BY <1>1, BroadcastInv
<1>2. ASSUME NEW signers \in SUBSET Wallet, NEW ix \in OtherExecute(signers),
             Submit(signers, <<ix>>)
      PROVE  Inv'
  <2>1. ix.list \in Lists
    BY DEF OtherExecute
  <2>2. Len(<<ix>>) = 1 /\ <<ix>>[1] = ix
    OBVIOUS
  <2>3. QED
    BY <1>2, <2>1, <2>2, SubmitInv
<1>3. ASSUME NEW signers \in SUBSET Wallet,
             NEW ix1 \in {BuildExecute(list) : list \in {l \in Lists : HasCoSigner(l)}},
             NEW ix2 \in {BuildExecute(list) : list \in {l \in Lists : HasCoSigner(l)}},
             Submit(signers, <<ix1, ix2>>)
      PROVE  Inv'
  <2>1. ix1.list \in Lists /\ ix2.list \in Lists
    BY DEF BuildExecute
  <2>2. Len(<<ix1, ix2>>) = 2 /\ <<ix1, ix2>>[1] = ix1 /\ <<ix1, ix2>>[2] = ix2
    OBVIOUS
  <2>3. \A i \in 1..Len(<<ix1, ix2>>) : <<ix1, ix2>>[i].list \in Lists
    BY <2>1, <2>2
  <2>4. QED
    BY <1>3, <2>2, <2>3, SubmitInv
<1>4. CASE Verify
  BY <1>4, VerifyInv
<1>5. CASE Cpi
  BY <1>5, CpiInv
<1>6. CASE Advance
  BY <1>6, AdvanceInv
<1>7. CASE UNCHANGED vars
  BY <1>7 DEF vars, Inv, BookOK, TxOK, WalkOK, Ix
<1>8. QED
  BY <1>1, <1>2, <1>3, <1>4, <1>5, <1>6, <1>7 DEF Next

(* Hence always. *)
LEMMA InvHolds == Spec => []Inv
<1>1. QED
  BY InitInv, NextInv, PTL DEF Spec

-----------------------------------------------------------------------------
(* Seeds, balances and the place in the running transaction are of their   *)
(* types, for any lists and signatures, and between transactions nothing   *)
(* is left of one that was undone.                                         *)
THEOREM TransactionTypeCorrect == Spec => []TypeOK
<1>1. Inv => TypeOK
  BY DEF Inv, BookOK, Book, WalkOK, TypeOK
<1>2. QED
  BY <1>1, InvHolds, PTL

(* No two actions are accepted on one seed, however many executes a        *)
(* transaction holds and whatever they call.                               *)
THEOREM SeedsAreUsedOnce == Spec => []OneActionPerSeed
<1>1. Inv => OneActionPerSeed
  BY DEF Inv, BookOK, OneActionPerSeed
<1>2. QED
  BY <1>1, InvHolds, PTL

(* Every sub-instruction carried out takes from the vault or from the      *)
(* co-signer of its execute.                                               *)
THEOREM NobodyElsePays == Spec => []VaultOnly
<1>1. Inv => VaultOnly
  BY DEF Inv, BookOK, EntryOK, Done, VaultOnly
<1>2. QED
  BY <1>1, InvHolds, PTL

(* In what broadcast sends, the hot wallet pays through SPL Governance     *)
(* alone.                                                                  *)
THEOREM HotWalletIsSpared == Spec => []HotWalletSpared
<1>1. Inv => HotWalletSpared
  BY DEF Inv, BookOK, EntryOK, Done, HotWalletSpared
<1>2. QED
  BY <1>1, InvHolds, PTL

-----------------------------------------------------------------------------
(* The recursion FoldLeft is defined by. *)
MoveRecursion(g, b, list, n) ==
    g = [s \in SUBSET (1..n) |->
            IF s = {} THEN b ELSE Moved(g[s \ {Max(s)}], list[Max(s)])]

(* Running a list, as a recursion over its length. *)
LEMMA MoveUnfold ==
    ASSUME NEW b, NEW list, NEW n \in Nat, DOMAIN list = 1..n
    PROVE Ran(b, list) = (CHOOSE g : MoveRecursion(g, b, list, n))[1..n]
BY DEF Ran, FoldLeft, MapThenFoldSet, MoveRecursion

(* There is such a function, for any number of sub-instructions. *)
LEMMA MoveRecursionExists ==
    ASSUME NEW b, NEW list, NEW n \in Nat
    PROVE \E g : MoveRecursion(g, b, list, n)
<1> DEFINE A == {k \in Nat : \E g : MoveRecursion(g, b, list, k)}
<1>1. 0 \in A
  <2> DEFINE g == [s \in SUBSET (1..0) |-> b]
  <2>1. SUBSET (1..0) = {{}}
    OBVIOUS
  <2>2. MoveRecursion(g, b, list, 0)
    BY <2>1 DEF MoveRecursion
  <2>3. QED
    BY <2>2
<1>2. ASSUME NEW k \in Nat, k \in A PROVE k + 1 \in A
  <2>1. PICK g : MoveRecursion(g, b, list, k)
    BY <1>2
  <2> DEFINE h == [s \in SUBSET (1..k + 1) |->
                      IF k + 1 \in s THEN Moved(g[s \ {k + 1}], list[k + 1]) ELSE g[s]]
  <2>2. ASSUME NEW s \in SUBSET (1..k + 1)
        PROVE  h[s] = IF s = {} THEN b ELSE Moved(h[s \ {Max(s)}], list[Max(s)])
    <3>1. CASE k + 1 \in s
      <4>1. Max(s) = k + 1 /\ s \ {k + 1} \in SUBSET (1..k + 1) /\ k + 1 \notin s \ {k + 1}
        BY <3>1, MaxOf
      <4>2. h[s \ {k + 1}] = g[s \ {k + 1}]
        BY <4>1
      <4>3. QED
        BY <3>1, <4>1, <4>2
    <3>2. CASE k + 1 \notin s
      <4>1. s \in SUBSET (1..k)
        BY <3>2
      <4>2. g[s] = IF s = {} THEN b ELSE Moved(g[s \ {Max(s)}], list[Max(s)])
        BY <2>1, <4>1 DEF MoveRecursion
      <4>3. h[s] = g[s] /\ h[s \ {Max(s)}] = g[s \ {Max(s)}]
        BY <3>2
      <4>4. QED
        BY <4>2, <4>3
    <3>3. QED
      BY <3>1, <3>2
  <2>3. MoveRecursion(h, b, list, k + 1)
    BY <2>2 DEF MoveRecursion
  <2>4. QED
    BY <2>3
<1>3. Nat \subseteq A
  <2> HIDE DEF A
  <2>1. QED
    BY <1>1, <1>2, Induct
<1>4. QED
  BY <1>3

(* What it says of none, and of one more. *)
LEMMA MoveRecursionStep ==
    ASSUME NEW b, NEW list, NEW n \in Nat, NEW g, MoveRecursion(g, b, list, n)
    PROVE  /\ g[{}] = b
           /\ \A k \in Nat : k < n => g[1..k + 1] = Moved(g[1..k], list[k + 1])
<1>1. {} \in SUBSET (1..n)
  OBVIOUS
<1>2. g[{}] = b
  BY <1>1 DEF MoveRecursion
<1>3. ASSUME NEW k \in Nat, k < n PROVE g[1..k + 1] = Moved(g[1..k], list[k + 1])
  <2>1. 1..k + 1 \in SUBSET (1..n) /\ 1..k + 1 # {} /\ k + 1 \in 1..k + 1
    BY <1>3
  <2>2. Max(1..k + 1) = k + 1
    BY <2>1, MaxOf
  <2>3. (1..k + 1) \ {k + 1} = 1..k
    OBVIOUS
  <2>4. QED
    BY <2>1, <2>2, <2>3 DEF MoveRecursion
<1>4. \A k \in Nat : k < n => g[1..k + 1] = Moved(g[1..k], list[k + 1])
  BY <1>3
<1>5. QED
  BY <1>2, <1>4

(* Ran is its last value. *)
LEMMA MoveFolded ==
    ASSUME NEW b, NEW list, NEW n \in Nat, DOMAIN list = 1..n
    PROVE  \E g : /\ Ran(b, list) = g[1..n]
                  /\ g[{}] = b
                  /\ \A k \in Nat : k < n => g[1..k + 1] = Moved(g[1..k], list[k + 1])
<1> DEFINE g == CHOOSE g : MoveRecursion(g, b, list, n)
<1>1. MoveRecursion(g, b, list, n)
  BY MoveRecursionExists
<1>2. Ran(b, list) = g[1..n]
  BY MoveUnfold
<1> HIDE DEF g
<1>3. g[{}] = b
  BY <1>1, MoveRecursionStep
<1>4. \A k \in Nat : k < n => g[1..k + 1] = Moved(g[1..k], list[k + 1])
  BY <1>1, MoveRecursionStep
<1>5. QED
  BY <1>2, <1>3, <1>4

(* No sub-instruction moves nothing, and one more moves what it moves. *)
LEMMA RanNothing ==
    ASSUME NEW b PROVE Ran(b, <<>>) = b
<1>1. DOMAIN <<>> = 1..0 /\ 1..0 = {}
  OBVIOUS
<1>2. PICK g : Ran(b, <<>>) = g[1..0] /\ g[{}] = b
  BY <1>1, MoveFolded
<1>3. QED
  BY <1>1, <1>2

(* One sub-instruction more is one move more. *)
LEMMA RanOneMore ==
    ASSUME NEW b, NEW S, NEW list \in Seq(S), NEW x \in S
    PROVE  Ran(b, Append(list, x)) = Moved(Ran(b, list), x)
<1> DEFINE longer == Append(list, x)
<1> SUFFICES ASSUME NEW n \in Nat, n = Len(list)
             PROVE  Ran(b, longer) = Moved(Ran(b, list), x)
  OBVIOUS
<1>1. /\ n + 1 \in Nat /\ DOMAIN list = 1..n /\ DOMAIN longer = 1..n + 1
      /\ \A i \in 1..n : longer[i] = list[i]
      /\ longer[n + 1] = x
  BY AppendProperties
<1> HIDE DEF longer
<1>2. PICK g : /\ Ran(b, list) = g[1..n]
               /\ g[{}] = b
               /\ \A k \in Nat : k < n => g[1..k + 1] = Moved(g[1..k], list[k + 1])
  BY <1>1, MoveFolded
<1>3. PICK h : /\ Ran(b, longer) = h[1..n + 1]
               /\ h[{}] = b
               /\ \A k \in Nat : k < n + 1 => h[1..k + 1] = Moved(h[1..k], longer[k + 1])
  BY <1>1, MoveFolded
<1> DEFINE A == {k \in Nat : k <= n => g[1..k] = h[1..k]}
<1>4. 0 \in A
  <2>1. 1..0 = {}
    OBVIOUS
  <2>2. QED
    BY <1>2, <1>3, <2>1
<1>5. ASSUME NEW k \in Nat, k \in A PROVE k + 1 \in A
  <2>1. CASE k < n
    <3>1. k + 1 \in 1..n
      BY <2>1
    <3>2. longer[k + 1] = list[k + 1] /\ g[1..k] = h[1..k]
      BY <1>1, <1>5, <2>1, <3>1
    <3>3. k < n + 1
      BY <2>1
    <3>4. /\ g[1..k + 1] = Moved(g[1..k], list[k + 1])
          /\ h[1..k + 1] = Moved(h[1..k], longer[k + 1])
      BY <1>2, <1>3, <2>1, <3>3
    <3>5. g[1..k + 1] = h[1..k + 1]
      BY <3>2, <3>4
    <3>6. QED
      BY <3>5
  <2>2. CASE ~(k < n)
    BY <2>2
  <2>3. QED
    BY <2>1, <2>2
<1>6. Nat \subseteq A
  <2> HIDE DEF A
  <2>1. QED
    BY <1>4, <1>5, Induct
<1>7. g[1..n] = h[1..n]
  BY <1>6
<1>8. h[1..n + 1] = Moved(h[1..n], x)
  BY <1>1, <1>3
<1>9. QED
  BY <1>2, <1>3, <1>7, <1>8 DEF longer

-----------------------------------------------------------------------------
(* The sub-instructions of the lists accepted, one after the other. *)
ListOf == [e \in Entry |-> e.list]

Accepted(log) == FlatMap(ListOf, log)

(* Of an entry of the log: its list. *)
LEMMA ListOfType == ListOf \in [Entry -> Seq(SubIx)]
<1>1. ASSUME NEW e \in Entry PROVE e.list \in Seq(SubIx)
  <2>1. e.list \in Lists
    BY DEF Entry
  <2>2. QED
    BY <2>1, KeysAssumption
<1>2. QED
  BY <1>1 DEF ListOf

(* All the lists of the log, one after the other. *)
LEMMA AcceptedType ==
    ASSUME NEW log \in Seq(Entry)
    PROVE  /\ Accepted(log) \in Seq(SubIx)
           /\ Accepted(log) = FlattenSeq([i \in 1..Len(log) |-> log[i].list])
<1>1. Accepted(log) \in Seq(SubIx)
  BY ListOfType, FlatMapType DEF Accepted
<1>2. \A i \in 1..Len(log) : ListOf[log[i]] = log[i].list
  BY ElementOfSeq DEF ListOf
<1>3. [i \in 1..Len(log) |-> ListOf[log[i]]] = [i \in 1..Len(log) |-> log[i].list]
  BY <1>2
<1>4. QED
  BY <1>1, <1>3 DEF Accepted, FlatMap

(* Of an empty log. *)
LEMMA AcceptedNothing == Accepted(<<>>) = <<>>
BY FlatMapEmpty DEF Accepted

(* Of one entry more. *)
LEMMA AcceptedOneMore ==
    ASSUME NEW log \in Seq(Entry), NEW e \in Entry
    PROVE  Accepted(Append(log, e)) = Accepted(log) \o e.list
<1>1. Accepted(Append(log, e)) = Accepted(log) \o ListOf[e]
  BY ListOfType, FlatMapAppend DEF Accepted
<1>2. QED
  BY <1>1 DEF ListOf

(* The balances are those of the lists accepted, and in a running          *)
(* transaction of the sub-instructions of its list carried out so far.     *)
Balances ==
    /\ ledger.balance = Ran(Lamports, Accepted(ledger.log))
    /\ tx # NoTx =>
          work.balance = Ran(Lamports, Accepted(work.log) \o SubSeq(Ix.list, 1, at.sub - 1))

(* Before the first sub-instruction nothing is taken. *)
LEMMA NothingTaken ==
    ASSUME NEW log \in Seq(Entry), NEW list, NEW k \in {0, 1}
    PROVE  Accepted(log) \o SubSeq(list, 1, k - 1) = Accepted(log)
<1>1. SubSeq(list, 1, k - 1) = <<>>
  <2>1. k - 1 \in Int /\ k - 1 < 1
    OBVIOUS
  <2>2. QED
    BY <2>1, SubSeqEmpty
<1>2. QED
  BY <1>1, AcceptedType, ConcatEmptySeq

(* Nothing was moved. *)
LEMMA BalancesInit == Init => Balances
<1> SUFFICES ASSUME Init PROVE Balances
  OBVIOUS
<1>1. ledger.log = <<>> /\ ledger.balance = Lamports /\ tx = NoTx
  BY DEF Init
<1>2. Ran(Lamports, Accepted(ledger.log)) = Lamports
  BY <1>1, AcceptedNothing, RanNothing
<1>3. QED
  BY <1>1, <1>2 DEF Balances

(* A transaction starts from the ledger. *)
LEMMA RunBalances ==
    ASSUME Inv, Balances, NEW t, Run(t)
    PROVE  Balances'
<1>1. work' = ledger /\ ledger' = ledger /\ at'.sub = 0 /\ ledger.log \in Seq(Entry)
  BY DEF Run, Nowhere, Inv, BookOK, Book
<1>2. Accepted(ledger.log) \o SubSeq((Ix').list, 1, at'.sub - 1) = Accepted(ledger.log)
  BY <1>1, NothingTaken
<1>3. QED
  BY <1>1, <1>2 DEF Balances

(* One that fails leaves the ledger alone. *)
LEMMA AbortBalances ==
    ASSUME Balances, NEW why, Abort(why)
    PROVE  Balances'
BY DEF Balances, Abort

(* The checks move nothing. *)
LEMMA VerifyBalances == Inv /\ Balances /\ Verify => Balances'
<1> SUFFICES ASSUME Inv, Balances, Verify PROVE Balances'
  OBVIOUS
<1>1. CASE Abort("signature")
  BY <1>1, AbortBalances
<1>2. CASE ~Abort("signature")
  <2>1. /\ at' = [at EXCEPT !.sub = 1, !.cursor = 0, !.seed = work.seed]
        /\ UNCHANGED <<ledger, work, tx, refused>>
        /\ tx # NoTx /\ at.sub = 0
    BY <1>2 DEF Verify
  <2>2. at'.ix = at.ix /\ at'.sub = 1 /\ Ix' = Ix
    <3>1. at \in [ix : Nat, sub : Nat, cursor : Nat, seed : Nat]
      BY DEF Inv
    <3>2. at'.ix = at.ix /\ at'.sub = 1
      BY <2>1, <3>1
    <3>3. QED
      BY <2>1, <3>2 DEF Ix
  <2>3. work.log \in Seq(Entry)
    BY DEF Inv, BookOK, Book
  <2>4. /\ Accepted(work.log) \o SubSeq(Ix.list, 1, 0 - 1) = Accepted(work.log)
        /\ Accepted(work.log) \o SubSeq(Ix.list, 1, 1 - 1) = Accepted(work.log)
    BY <2>3, NothingTaken
  <2>5. work.balance = Ran(Lamports, Accepted(work.log))
    BY <2>1, <2>4 DEF Balances
  <2>6. QED
    BY <2>1, <2>2, <2>4, <2>5 DEF Balances
<1>3. QED
  BY <1>1, <1>2

(* A CPI moves one sub-instruction. *)
LEMMA CpiBalances == Inv /\ Balances /\ Cpi => Balances'
<1> SUFFICES ASSUME Inv, Balances, Cpi PROVE Balances'
  OBVIOUS
<1>1. CASE \E why \in {"self", "accounts", "cpi"} : Abort(why)
  BY <1>1, AbortBalances
<1>2. CASE ~ \E why \in {"self", "accounts", "cpi"} : Abort(why)
  <2>1. /\ tx # NoTx /\ at.sub \in 1..Len(Ix.list)
        /\ work' = Effect(Sub) /\ Sub.program # Vector
        /\ at' = [at EXCEPT !.sub = @ + 1, !.cursor = @ + 1 + Len(Sub.accounts)]
        /\ UNCHANGED <<ledger, tx, refused>>
    BY <1>2 DEF Cpi, SelfCpi
  <2>2. /\ work'.balance = Moved(work.balance, Sub) /\ work'.log = work.log
        /\ work.log \in Seq(Entry)
    <3>1. work \in Book
      BY DEF Inv, BookOK
    <3>2. QED
      BY <2>1, <3>1 DEF Effect, Book
  <2>3. at'.ix = at.ix /\ at'.sub = at.sub + 1 /\ Ix' = Ix
    <3>1. at \in [ix : Nat, sub : Nat, cursor : Nat, seed : Nat]
      BY DEF Inv
    <3>2. at'.ix = at.ix /\ at'.sub = at.sub + 1
      BY <2>1, <3>1
    <3>3. QED
      BY <2>1, <3>2 DEF Ix
  <2>4. Ix.list \in Seq(SubIx)
    <3>1. Ix.list \in Lists
      BY <2>1 DEF Inv, TxOK, WalkOK, Ix
    <3>2. QED
      BY <3>1, KeysAssumption
  <2> DEFINE before == SubSeq(Ix.list, 1, at.sub - 1)
             past == Accepted(work.log)
  <2>5. before \in Seq(SubIx) /\ SubSeq(Ix.list, 1, at.sub) = Append(before, Sub)
    BY <2>1, <2>4, TakeOneMore DEF Sub
  <2>6. past \in Seq(SubIx) /\ Sub \in SubIx
    <3>1. Sub \in SubIx
      BY <2>1, <2>4, ElementOfSeq DEF Sub
    <3>2. QED
      BY <2>2, <3>1, AcceptedType
  <2>7. past \o Append(before, Sub) = Append(past \o before, Sub)
    <3> HIDE DEF past, before
    <3>1. QED
      BY <2>5, <2>6, AppendOfConcat
  <2>8. past \o before \in Seq(SubIx)
    <3> HIDE DEF past, before
    <3>1. QED
      BY <2>5, <2>6, ConcatProperties
  <2>9. work.balance = Ran(Lamports, past \o before)
    BY <2>1 DEF Balances
  <2>10. work'.balance = Ran(Lamports, past \o SubSeq(Ix.list, 1, at.sub))
    <3> HIDE DEF past, before
    <3>1. Ran(Lamports, Append(past \o before, Sub)) = Moved(Ran(Lamports, past \o before), Sub)
      BY <2>6, <2>8, RanOneMore
    <3>2. QED
      BY <2>2, <2>5, <2>7, <2>9, <3>1
  <2>11. at'.sub - 1 = at.sub
    BY <2>1, <2>3
  <2>12. QED
    BY <2>1, <2>2, <2>3, <2>10, <2>11 DEF Balances
<1>3. QED
  BY <1>1, <1>2

(* The last step of an execute moves nothing, and its list is whole. *)
LEMMA AdvanceBalances == Inv /\ Balances /\ Advance => Balances'
<1> SUFFICES ASSUME Inv, Balances, Advance PROVE Balances'
  OBVIOUS
<1> DEFINE e == [seed |-> at.seed, list |-> Ix.list, coSigner |-> Ix.coSigner, built |-> tx.built]
           done == [work EXCEPT !.seed = at.seed + 1, !.log = Append(@, e)]
<1>1. CASE Abort("accounts")
  BY <1>1, AbortBalances
<1>2. TxOK(tx) /\ WalkOK /\ tx # NoTx /\ at.sub = Len(Ix.list) + 1
  BY DEF Inv, Advance
<1>3. /\ Ix.list \in Lists /\ Ix.coSigner \in Key \union {NoKey}
      /\ Len(Ix.list) \in Nat /\ Ix.list \in Seq(SubIx)
  <2>1. Ix.list \in Lists /\ Ix.coSigner \in Key \union {NoKey}
    BY <1>2 DEF TxOK, WalkOK, Ix
  <2>2. QED
    BY <2>1, ListType, KeysAssumption
<1>4. e \in Entry /\ work \in Book
  <2>1. at.seed \in Nat /\ tx.built \in BOOLEAN
    BY <1>2 DEF Inv, TxOK
  <2>2. QED
    BY <1>3, <2>1 DEF Entry, Inv, BookOK
<1>5. done.balance = work.balance /\ done.log = Append(work.log, e) /\ work.log \in Seq(Entry)
  BY <1>4 DEF Book
<1>6. SubSeq(Ix.list, 1, at.sub - 1) = Ix.list
  <2>1. at.sub - 1 = Len(Ix.list)
    BY <1>2, <1>3
  <2>2. QED
    BY <1>3, <2>1, SubSeqFull
<1>7. done.balance = Ran(Lamports, Accepted(done.log))
  <2>1. work.balance = Ran(Lamports, Accepted(work.log) \o Ix.list)
    BY <1>2, <1>6 DEF Balances
  <2>2. Accepted(Append(work.log, e)) = Accepted(work.log) \o e.list
    <3> HIDE DEF e
    <3>1. QED
      BY <1>4, <1>5, AcceptedOneMore
  <2>3. QED
    BY <1>5, <2>1, <2>2
<1>8. CASE /\ work' = done
           /\ at' = [Nowhere EXCEPT !.ix = at.ix + 1]
           /\ UNCHANGED <<ledger, tx, refused>>
  <2>1. at'.sub = 0
    BY <1>8 DEF Nowhere
  <2>2. done.log \in Seq(Entry)
    BY <1>4, <1>5, AppendProperties
  <2>3. Accepted(done.log) \o SubSeq((Ix').list, 1, at'.sub - 1) = Accepted(done.log)
    <3> HIDE DEF done
    <3>1. QED
      BY <2>1, <2>2, NothingTaken
  <2>4. QED
    BY <1>7, <1>8, <2>3 DEF Balances
<1>9. CASE ledger' = done /\ tx' = NoTx
  BY <1>7, <1>9 DEF Balances
<1>10. QED
  BY <1>1, <1>8, <1>9 DEF Advance

(* Every step. *)
LEMMA BalancesNext == Inv /\ Balances /\ [Next]_vars => Balances'
<1> SUFFICES ASSUME Inv, Balances, [Next]_vars PROVE Balances'
  OBVIOUS
<1>1. ASSUME NEW list, Broadcast(list) PROVE Balances'
  BY <1>1, RunBalances DEF Broadcast
<1>2. ASSUME NEW signers, NEW ixs, Submit(signers, ixs) PROVE Balances'
  BY <1>2, RunBalances DEF Submit
<1>3. CASE UNCHANGED vars
  BY <1>3 DEF vars, Balances, Ix
<1>4. QED
  BY <1>1, <1>2, <1>3, VerifyBalances, CpiBalances, AdvanceBalances DEF Next

(* The committed balances are what all of every list accepted makes of     *)
(* the first ones, each sub-instruction once and in order, whatever        *)
(* failed on the way.                                                      *)
THEOREM ListsAreWhole == Spec => []AllOrNothing
<1>1. Inv /\ Balances => AllOrNothing
  <2> SUFFICES ASSUME Inv, Balances PROVE AllOrNothing
    OBVIOUS
  <2>1. ledger.log \in Seq(Entry)
    BY DEF Inv, BookOK, Book
  <2>2. QED
    BY <2>1, AcceptedType DEF Balances, AllOrNothing
<1>2. Spec => []Balances
  BY BalancesInit, BalancesNext, InvHolds, PTL DEF Spec
<1>3. QED
  BY <1>1, <1>2, InvHolds, PTL

-----------------------------------------------------------------------------
(* What may stand in remaining_accounts. *)
Address == Key \union Program

(* The accounts of one sub-instruction, as they are laid out and walked.   *)
Row(sub) == <<sub.program>> \o KeysOf(sub)

(* A row: the program and the accounts. *)
LEMMA RowType ==
    ASSUME NEW sub \in SubIx
    PROVE  /\ Row(sub) \in Seq(Address)
           /\ Len(sub.accounts) \in Nat
           /\ Len(Row(sub)) = 1 + Len(sub.accounts)
<1> DEFINE keys == KeysOf(sub)
           first == <<sub.program>>
<1>1. sub.accounts \in Seq(Account) /\ sub.program \in Program
  BY DEF SubIx
<1>2. Len(sub.accounts) \in Nat
  BY <1>1
<1>3. ASSUME NEW i \in 1..Len(sub.accounts)
      PROVE  sub.accounts[i].key \in Address
  <2>1. sub.accounts[i] \in Account
    BY <1>1, ElementOfSeq
  <2>2. QED
    BY <2>1 DEF Account, Address
<1>4. keys \in Seq(Address) /\ Len(keys) = Len(sub.accounts)
  <2>1. keys \in Seq(Address)
    BY <1>2, <1>3, IsASeq DEF KeysOf
  <2>2. Len(keys) = Len(sub.accounts)
    BY <1>2 DEF KeysOf
  <2>3. QED
    BY <2>1, <2>2
<1>5. first \in Seq(Address) /\ Len(first) = 1
  BY <1>1 DEF Address
<1> HIDE DEF keys, first
<1>6. first \o keys \in Seq(Address) /\ Len(first \o keys) = 1 + Len(sub.accounts)
  BY <1>2, <1>4, <1>5, ConcatProperties
<1>7. QED
  BY <1>2, <1>6 DEF Row, keys, first

RowOf == [sub \in SubIx |-> Row(sub)]

(* The remaining accounts are the rows one after the other. *)
LEMMA RemainingType ==
    ASSUME NEW list \in Seq(SubIx)
    PROVE  /\ Remaining(list) = FlatMap(RowOf, list)
           /\ Remaining(list) \in Seq(Address)
           /\ RowOf \in [SubIx -> Seq(Address)]
<1>1. RowOf \in [SubIx -> Seq(Address)]
  BY RowType DEF RowOf
<1>2. \A i \in 1..Len(list) : RowOf[list[i]] = Row(list[i])
  BY ElementOfSeq DEF RowOf
<1>3. [i \in 1..Len(list) |-> RowOf[list[i]]] = [i \in 1..Len(list) |-> Row(list[i])]
  BY <1>2
<1>4. Remaining(list) = FlatMap(RowOf, list)
  BY <1>3 DEF Remaining, Row, FlatMap
<1>5. QED
  BY <1>1, <1>4, FlatMapType

(* One sub-instruction more is one row more. *)
LEMMA RemainingOneMore ==
    ASSUME NEW list \in Seq(SubIx), NEW sub \in SubIx
    PROVE  Remaining(Append(list, sub)) = Remaining(list) \o Row(sub)
<1>1. Append(list, sub) \in Seq(SubIx)
  BY AppendProperties
<1>2. FlatMap(RowOf, Append(list, sub)) = FlatMap(RowOf, list) \o RowOf[sub]
  BY RemainingType, FlatMapAppend
<1>3. Remaining(Append(list, sub)) = FlatMap(RowOf, Append(list, sub))
  BY <1>1, RemainingType
<1>4. QED
  BY <1>2, <1>3, RemainingType DEF RowOf

(* What is laid out for the first sub-instructions comes first. *)
LEMMA RemainingBegins ==
    ASSUME NEW list \in Seq(SubIx), NEW k \in 0..Len(list)
    PROVE  Begins(Address, Remaining(list), Remaining(SubSeq(list, 1, k)))
<1>1. \A i \in 1..k : list[i] \in SubIx
  BY ElementOfSeq
<1>2. SubSeq(list, 1, k) \in Seq(SubIx)
  BY <1>1, SubSeqProperties
<1>3. Begins(Address, FlatMap(RowOf, list), FlatMap(RowOf, SubSeq(list, 1, k)))
  BY RemainingType, FlatMapBegins
<1>4. QED
  BY <1>2, <1>3, RemainingType

(* What broadcast built is one execute, laid out by buildExecuteInstruction, *)
(* and the cursor stands behind the sub-instructions carried out.          *)
Built ==
    /\ tx.built =>
          /\ Len(tx.ixs) = 1
          /\ Ix = BuildExecute(Ix.list)
          /\ at.sub > 0 => at.cursor = Len(Remaining(SubSeq(Ix.list, 1, at.sub - 1)))
    /\ BuiltIsWalked

(* A transaction that fails, not for its accounts if it was built. *)
LEMMA BuiltAborted ==
    ASSUME NEW why, Abort(why), BuiltIsWalked, tx.built => why # "accounts"
    PROVE  Built'
BY DEF Abort, Built, BuiltIsWalked, NoTx

(* What broadcast lays out. *)
LEMMA BuiltSent ==
    ASSUME Built, NEW list \in Lists, Broadcast(list)
    PROVE  Built'
<1>1. /\ tx'.built /\ tx'.ixs = <<BuildExecute(list)>>
      /\ at' = [ix |-> 1, sub |-> 0, cursor |-> 0, seed |-> 0]
      /\ refused' = refused
  BY DEF Broadcast, Run, Nowhere
<1>2. Len(tx'.ixs) = 1 /\ Ix' = BuildExecute(list)
  BY <1>1 DEF Ix
<1>3. (Ix').list = list
  BY <1>2 DEF BuildExecute
<1>4. QED
  BY <1>1, <1>2, <1>3 DEF Built, BuiltIsWalked

(* The checks leave the accounts in place. *)
LEMMA BuiltVerified == Inv /\ Built /\ Verify => Built'
<1> SUFFICES ASSUME Inv, Built, Verify PROVE Built'
  OBVIOUS
<1>1. CASE Abort("signature")
  BY <1>1, BuiltAborted DEF Built
<1>2. CASE ~Abort("signature")
  <2>1. /\ at' = [at EXCEPT !.sub = 1, !.cursor = 0, !.seed = work.seed]
        /\ UNCHANGED <<ledger, work, tx, refused>>
    BY <1>2 DEF Verify
  <2>2. at'.ix = at.ix /\ at'.sub = 1 /\ at'.cursor = 0 /\ Ix' = Ix
    <3>1. at \in [ix : Nat, sub : Nat, cursor : Nat, seed : Nat]
      BY DEF Inv
    <3>2. at'.ix = at.ix /\ at'.sub = 1 /\ at'.cursor = 0
      BY <2>1, <3>1
    <3>3. QED
      BY <2>1, <3>2 DEF Ix
  <2>3. Len(Remaining(SubSeq(Ix.list, 1, 1 - 1))) = 0
    <3>1. SubSeq(Ix.list, 1, 1 - 1) = <<>>
      BY SubSeqEmpty
    <3>2. Remaining(<<>>) = <<>>
      <4>1. [i \in 1..Len(<<>>) |-> <<<<>>[i].program>> \o KeysOf(<<>>[i])] = <<>>
        OBVIOUS
      <4>2. QED
        BY <4>1, FlattenEmpty DEF Remaining
    <3>3. Len(Remaining(SubSeq(Ix.list, 1, 1 - 1))) = Len(<<>>)
      BY ONLY <3>1, <3>2
    <3>4. QED
      BY <3>3, EmptySeq
  <2>4. QED
    BY <2>1, <2>2, <2>3 DEF Built, BuiltIsWalked
<1>3. QED
  BY <1>1, <1>2

(* The walk finds the accounts that were laid out, and the signers are the *)
(* vault and the co-signer.                                                *)
LEMMA BuiltLetThrough ==
    ASSUME Inv, Built, tx # NoTx, tx.built, at.sub \in 1..Len(Ix.list)
    PROVE  /\ Walked(Sub)
           /\ SignersAllowed(Sub)
           /\ at.cursor + 1 + Len(Sub.accounts) = Len(Remaining(SubSeq(Ix.list, 1, at.sub)))
<1> DEFINE list == Ix.list
           before == Remaining(SubSeq(list, 1, at.sub - 1))
           row == Row(Sub)
<1>1. /\ list \in Lists /\ list \in Seq(SubIx) /\ InScope(list) /\ at.sub \in Nat
      /\ Len(list) \in Nat
  <2>1. list \in Lists /\ InScope(list) /\ at.sub \in Nat
    BY DEF Inv, TxOK, WalkOK, Ix
  <2>2. QED
    BY <2>1, KeysAssumption, ListType
<1>2. Sub \in SubIx /\ Sub = list[at.sub]
  BY <1>1, ElementOfSeq DEF Sub
<1>3. /\ SubSeq(list, 1, at.sub - 1) \in Seq(SubIx)
      /\ SubSeq(list, 1, at.sub) = Append(SubSeq(list, 1, at.sub - 1), Sub)
  <2> HIDE DEF list
  <2>1. QED
    BY <1>1, <1>2, TakeOneMore DEF list
<1>4. /\ before \in Seq(Address) /\ row \in Seq(Address)
      /\ Len(Sub.accounts) \in Nat /\ Len(row) = 1 + Len(Sub.accounts)
  BY <1>2, <1>3, RowType, RemainingType
<1>5. Remaining(SubSeq(list, 1, at.sub)) = before \o row
  BY <1>2, <1>3, RemainingOneMore
<1>6. PICK rest \in Seq(Address) : Remaining(list) = (before \o row) \o rest
  <2>1. at.sub \in 0..Len(list)
    BY <1>1
  <2>2. QED
    BY <1>1, <1>5, <2>1, RemainingBegins DEF Begins
<1>7. Ix.remaining = Remaining(list) /\ Ix.coSigner = CoSigner(list)
  BY DEF Built, BuildExecute
<1>8. at.cursor = Len(before)
  BY <1>1 DEF Built
<1>9. /\ Len(before) \in Nat /\ Len(row) \in Nat /\ Len(rest) \in Nat
      /\ Len(before \o row) = Len(before) + Len(row)
      /\ Len((before \o row) \o rest) = Len(before) + Len(row) + Len(rest)
      /\ \A i \in 1..Len(row) : ((before \o row) \o rest)[Len(before) + i] = row[i]
  <2> HIDE DEF before, row
  <2>1. before \in Seq(Address) /\ row \in Seq(Address) /\ rest \in Seq(Address)
    BY <1>4
  <2>2. QED
    BY ONLY <2>1, Stretch
<1>10. Walked(Sub)
  <2> HIDE DEF before
  <2>1. at.cursor + Len(row) <= Len(Ix.remaining)
    <3> HIDE DEF row
    <3>1. QED
      BY <1>6, <1>7, <1>8, <1>9
  <2>2. \A i \in 1..Len(row) : Ix.remaining[at.cursor + i] = row[i]
    <3> HIDE DEF row
    <3>1. QED
      BY <1>6, <1>7, <1>8, <1>9
  <2>3. QED
    BY <2>1, <2>2 DEF Walked, Row
<1>11. SignersAllowed(Sub)
  <2> SUFFICES ASSUME NEW a \in ToSet(Sub.accounts), a.signer, a.key # Vault
               PROVE  a.key = CoSigner(list)
    BY <1>7 DEF SignersAllowed
  <2>1. a.key \in ExtraSigners(list)
    BY <1>2, AskedToSign
  <2>2. ExtraSigners(list) \subseteq {Payer}
    BY <1>1 DEF InScope
  <2>3. QED
    BY <2>1, <2>2 DEF CoSigner
<1>12. at.cursor + 1 + Len(Sub.accounts) = Len(before \o row)
  <2>1. \A b, n \in Nat : b + 1 + n = b + (1 + n)
    OBVIOUS
  <2> HIDE DEF before, row
  <2>2. /\ at.cursor = Len(before) /\ Len(before) \in Nat /\ Len(Sub.accounts) \in Nat
        /\ Len(before \o row) = Len(before) + (1 + Len(Sub.accounts))
    BY <1>4, <1>8, <1>9
  <2>3. QED
    BY ONLY <2>1, <2>2
<1>13. QED
  BY <1>5, <1>10, <1>11, <1>12

(* A CPI takes the row its cursor is at. *)
LEMMA BuiltCpi == Inv /\ Built /\ Cpi => Built'
<1> SUFFICES ASSUME Inv, Built, Cpi PROVE Built'
  OBVIOUS
<1>1. tx # NoTx /\ at.sub \in 1..Len(Ix.list)
  BY DEF Cpi
<1>2. CASE Abort("self") \/ Abort("cpi")
  BY <1>2, BuiltAborted DEF Built
<1>3. CASE Abort("accounts") /\ (~Walked(Sub) \/ ~SignersAllowed(Sub))
  <2>1. ~tx.built
    BY <1>1, <1>3, BuiltLetThrough DEF Built, Inv, TxOK
  <2>2. QED
    BY <1>3, <2>1, BuiltAborted DEF Built
<1>4. CASE /\ at' = [at EXCEPT !.sub = @ + 1, !.cursor = @ + 1 + Len(Sub.accounts)]
           /\ UNCHANGED <<ledger, tx, refused>>
  <2>1. /\ at'.ix = at.ix /\ at'.sub = at.sub + 1 /\ Ix' = Ix
        /\ at'.cursor = at.cursor + 1 + Len(Sub.accounts)
    <3>1. at \in [ix : Nat, sub : Nat, cursor : Nat, seed : Nat]
      BY DEF Inv
    <3>2. /\ at'.ix = at.ix /\ at'.sub = at.sub + 1
          /\ at'.cursor = at.cursor + 1 + Len(Sub.accounts)
      BY <1>4, <3>1
    <3>3. QED
      BY <1>4, <3>2 DEF Ix
  <2>2. at'.sub - 1 = at.sub
    BY <1>1, <2>1
  <2>3. tx.built => at'.cursor = Len(Remaining(SubSeq(Ix.list, 1, at.sub)))
    BY <1>1, <2>1, BuiltLetThrough
  <2>4. QED
    BY <1>4, <2>1, <2>2, <2>3 DEF Built, BuiltIsWalked
<1>5. QED
  BY <1>2, <1>3, <1>4 DEF Cpi

(* The cursor ends where the accounts do. *)
LEMMA BuiltAdvanced == Inv /\ Built /\ Advance => Built'
<1> SUFFICES ASSUME Inv, Built, Advance PROVE Built'
  OBVIOUS
<1>1. tx # NoTx /\ at.sub = Len(Ix.list) + 1 /\ TxOK(tx) /\ WalkOK
  BY DEF Advance, Inv
<1>2. CASE Abort("accounts") /\ at.cursor # Len(Ix.remaining)
  <2>1. ASSUME tx.built PROVE FALSE
    <3>1. Ix.list \in Lists /\ Ix.list \in Seq(SubIx) /\ Len(Ix.list) \in Nat
      <4>1. Ix.list \in Lists
        BY <1>1 DEF TxOK, WalkOK, Ix
      <4>2. QED
        BY <4>1, KeysAssumption, ListType
    <3>2. at.sub - 1 = Len(Ix.list) /\ at.sub > 0
      BY <1>1, <3>1
    <3>3. SubSeq(Ix.list, 1, at.sub - 1) = Ix.list
      BY <3>1, <3>2, SubSeqFull
    <3>4. Ix.remaining = Remaining(Ix.list)
      BY <2>1 DEF Built, BuildExecute
    <3>5. QED
      BY <1>2, <2>1, <3>2, <3>3, <3>4 DEF Built
  <2>2. QED
    BY <1>2, <2>1, BuiltAborted DEF Built, TxOK
<1>3. CASE /\ at.ix < Len(tx.ixs)
           /\ UNCHANGED <<ledger, tx, refused>>
  <2>1. at.ix \in 1..Len(tx.ixs) /\ ~(Len(tx.ixs) = 1)
    BY <1>1, <1>3 DEF WalkOK, TxOK
  <2>2. ~tx.built
    BY <2>1 DEF Built
  <2>3. QED
    BY <1>3, <2>2 DEF Built, BuiltIsWalked
<1>4. CASE tx' = NoTx /\ UNCHANGED refused
  BY <1>4 DEF Built, BuiltIsWalked, NoTx
<1>5. QED
  BY <1>2, <1>3, <1>4 DEF Advance

(* Every step. *)
LEMMA BuiltNext == Inv /\ Built /\ [Next]_vars => Built'
<1> SUFFICES ASSUME Inv, Built, [Next]_vars PROVE Built'
  OBVIOUS
<1>1. ASSUME NEW signers, NEW ixs, Submit(signers, ixs) PROVE Built'
  <2>1. tx'.built = FALSE /\ refused' = refused
    BY <1>1 DEF Submit, Run
  <2>2. QED
    BY <2>1 DEF Built, BuiltIsWalked
<1>2. CASE UNCHANGED vars
  BY <1>2 DEF vars, Built, BuiltIsWalked, Ix
<1>3. QED
  BY <1>1, <1>2, BuiltSent, BuiltVerified, BuiltCpi, BuiltAdvanced DEF Next

(* What broadcast builds is never refused for its accounts or its signers: *)
(* for any list in scope, the walk of the program finds the layout of the  *)
(* client, and the co-signer slot holds whoever is asked to sign.          *)
THEOREM LayoutIsWalked == Spec => []BuiltIsWalked
<1>1. Init => Built
  BY DEF Init, Built, BuiltIsWalked, NoTx
<1>2. Spec => []Built
  BY <1>1, BuiltNext, InvHolds, PTL DEF Spec
<1>3. Built => BuiltIsWalked
  BY DEF Built
<1>4. QED
  BY <1>2, <1>3, PTL
=============================================================================
