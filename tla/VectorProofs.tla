---------------------------- MODULE VectorProofs ----------------------------
(***************************************************************************)
(* Proofs about the Vector program, for every set of deployments,          *)
(* authorities, payloads and addresses, every horizon and every clock the  *)
(* assumptions of VectorProgram allow.                                     *)
(***************************************************************************)
EXTENDS VectorInvariant, TLAPS, FiniteSetTheorems

-----------------------------------------------------------------------------
(* Facts about the hash chain.                                             *)

(* A fresh seed is a seed. *)
LEMMA InitSeedType ==
    ASSUME NEW a \in Authority, NEW k \in [slot : Nat, unix : Nat]
    PROVE  InitSeed(a, k) \in Seed
BY DEF InitSeed, Seed, Link

(* Both digest formulas give digests. *)
LEMMA DigestTypes ==
    ASSUME NEW s \in Seed, NEW q \in Program
    PROVE  /\ \A data \in SubIxData : DigestExecute(s, q, data) \in Digest
           /\ \A to \in Address : DigestClose(s, q, to) \in Digest
BY DEF DigestExecute, DigestClose, Digest

(* Executing keeps the origin of a seed and adds one link to its chain. *)
LEMMA AdvanceFacts ==
    ASSUME NEW s \in Seed, NEW q \in Program, NEW data \in SubIxData
    PROVE  LET t == AdvanceSeed(s, DigestExecute(s, q, data))
           IN  /\ t \in Seed
               /\ t.authority = s.authority
               /\ t.slot = s.slot
               /\ t.unix = s.unix
               /\ Len(t.chain) = Len(s.chain) + 1
<1> DEFINE l == [program |-> q, data |-> data]
           t == AdvanceSeed(s, DigestExecute(s, q, data))
<1>1. l \in Link
  BY DEF Link
<1>2. s.chain \in Seq(Link)
  BY DEF Seed
<1>3. t = [s EXCEPT !.chain = Append(s.chain, l)]
  BY DEF AdvanceSeed, DigestExecute
<1>4. Append(s.chain, l) \in Seq(Link) /\ Len(Append(s.chain, l)) = Len(s.chain) + 1
  BY <1>1, <1>2
<1>5. QED
  BY <1>3, <1>4 DEF Seed

(* Every PDA is of a deployment and an authority. *)
LEMMA PdaFields ==
    ASSUME NEW p \in Pda
    PROVE  /\ p = [cluster |-> p.cluster, program |-> p.program, authority |-> p.authority]
           /\ p.cluster \in Cluster
           /\ p.program \in Program
           /\ p.authority \in Authority
BY DeploymentAssumption DEF Pda

(* The clock of a PDA's cluster. *)
LEMMA ClockFields ==
    ASSUME NEW p \in Pda, NEW t \in 0..MaxTick
    PROVE  /\ Clock[p.cluster][t] \in [slot : Nat, unix : Nat]
           /\ Clock[p.cluster][t] =
                 [slot |-> Clock[p.cluster][t].slot, unix |-> Clock[p.cluster][t].unix]
<1>1. p.cluster \in Cluster
  BY PdaFields
<1>2. Clock[p.cluster] \in [0..MaxTick -> [slot : Nat, unix : Nat]]
  BY <1>1, ClockAssumption
<1>3. Clock[p.cluster][t] \in [slot : Nat, unix : Nat]
  BY <1>2
<1>4. QED
  BY <1>3

(* The origin of a seed tells where it was stored: two PDAs that started   *)
(* chains of the same origin are of one authority on one cluster.          *)
LEMMA OriginTellsCluster ==
    ASSUME NEW p \in Pda, NEW q \in Pda, NEW s, NEW r, NEW m, NEW n,
           BornBefore(p, s, m), BornBefore(q, r, n), SameOrigin(s, r)
    PROVE  p.cluster = q.cluster /\ p.authority = q.authority
<1>1. PICK t \in 0..MaxTick : /\ s.slot = Clock[p.cluster][t].slot
                              /\ s.unix = Clock[p.cluster][t].unix
  BY DEF BornBefore
<1>2. PICK u \in 0..MaxTick : /\ r.slot = Clock[q.cluster][u].slot
                              /\ r.unix = Clock[q.cluster][u].unix
  BY DEF BornBefore
<1>3. Clock[p.cluster][t] = Clock[q.cluster][u]
  <2>1. /\ Clock[p.cluster][t].slot = Clock[q.cluster][u].slot
        /\ Clock[p.cluster][t].unix = Clock[q.cluster][u].unix
    BY <1>1, <1>2 DEF SameOrigin
  <2>2. QED
    BY <2>1, ClockFields
<1>4. p.cluster = q.cluster
  BY <1>3, PdaFields, ClockAssumption
<1>5. QED
  BY <1>4 DEF BornBefore, SameOrigin

(* A chain started before tick n does not have the origin that an          *)
(* initialize at tick n gives.                                             *)
LEMMA NewOrigin ==
    ASSUME NEW p \in Pda, NEW s, NEW n \in 0..MaxTick, BornBefore(p, s, n)
    PROVE  ~SameOrigin(s, InitSeed(p.authority, Clock[p.cluster][n]))
<1>1. PICK t \in 0..MaxTick : t < n /\ s.slot = Clock[p.cluster][t].slot
  BY DEF BornBefore
<1>2. Clock[p.cluster][t].slot < Clock[p.cluster][n].slot
  BY <1>1, PdaFields, ClockAssumption
<1>3. Clock[p.cluster][t].slot \in Nat /\ Clock[p.cluster][n].slot \in Nat
  BY ClockFields
<1>4. QED
  BY <1>1, <1>2, <1>3 DEF SameOrigin, InitSeed

(* What was started before tick m was started before any later tick. *)
LEMMA BornLater ==
    ASSUME NEW p, NEW s, NEW m \in Nat, NEW n \in Nat, m <= n, BornBefore(p, s, m)
    PROVE  BornBefore(p, s, n)
BY BoundsAssumption DEF BornBefore

(* Membership in the log is all that matters of an appended entry. *)
LEMMA LogAppend ==
    ASSUME NEW l \in Seq(Entry), NEW e \in Entry
    PROVE  /\ Append(l, e) \in Seq(Entry)
           /\ Len(Append(l, e)) = Len(l) + 1
           /\ \A i \in 1..Len(l) + 1 :
                 Append(l, e)[i] = IF i = Len(l) + 1 THEN e ELSE l[i]
OBVIOUS

-----------------------------------------------------------------------------
(* Type correctness.                                                       *)

(* The program starts well-typed. *)
LEMMA InitType == Init => TypeOK
BY BoundsAssumption DEF Init, TypeOK, File, Signature

(* An accepted digest is one that was typed when it was signed, so what an *)
(* execute or close appends to the log is an entry.                        *)
LEMMA AuthorizedEntry ==
    ASSUME TypeOK, NEW p \in Pda, NEW d, Authorized(p, d)
    PROVE  [pda |-> p, digest |-> d] \in Entry
<1>1. [key |-> p.authority, digest |-> d] \in Signature
  BY DEF TypeOK, Authorized
<1>2. d \in Digest
  BY <1>1 DEF Signature
<1>3. QED
  BY <1>2 DEF Entry

(* Every step keeps the types. *)
LEMMA NextType == TypeOK /\ [Next]_vars => TypeOK'
<1> SUFFICES ASSUME TypeOK, [Next]_vars PROVE TypeOK'
  OBVIOUS
<1> USE DEF TypeOK
<1>1. CASE Tick
  BY <1>1, BoundsAssumption DEF Tick
<1>2. ASSUME NEW p \in Pda, Initialize(p) PROVE TypeOK'
  <2>1. InitSeed(p.authority, Clock[p.cluster][now]) \in Seed
    BY PdaFields, ClockFields, InitSeedType
  <2>2. QED
    BY <1>2, <2>1 DEF Initialize
<1>3. ASSUME NEW p \in Pda, Fund(p) PROVE TypeOK'
  BY <1>3 DEF Fund
<1>4. ASSUME NEW p \in Pda, NEW data \in SubIxData, Execute(p, data) PROVE TypeOK'
  <2> DEFINE d == DigestExecute(vector[p], p.program, data)
  <2>1. vector[p] \in Seed /\ p.program \in Program
    BY <1>4, PdaFields DEF Execute
  <2>2. AdvanceSeed(vector[p], d) \in Seed
    BY <2>1, AdvanceFacts
  <2>3. vector' \in [Pda -> Seed \union {NoAccount}]
    BY <1>4, <2>2 DEF Execute
  <2>4. log' \in Seq(Entry)
    <3>1. [pda |-> p, digest |-> d] \in Entry
      BY <1>4, AuthorizedEntry DEF Execute
    <3>2. log' = Append(log, [pda |-> p, digest |-> d])
      BY <1>4 DEF Execute
    <3>3. QED
      BY <3>1, <3>2, LogAppend
  <2>5. vault' \in [Pda -> Nat]
    <3>1. PICK b \in Balances(data, vault[p]) :
                 vault' = [vault EXCEPT ![p] = b[Len(data)]]
      BY <1>4 DEF Execute
    <3>2. b \in [0..Len(data) -> 0..vault[p]] /\ Len(data) \in 0..Len(data)
      BY <3>1, DeploymentAssumption DEF Balances
    <3>3. b[Len(data)] \in 0..vault[p]
      BY <3>2
    <3>5. vault[p] \in Nat
      OBVIOUS
    <3>4. QED
      BY <3>1, <3>3, <3>5
  <2>6. QED
    BY <1>4, <2>3, <2>4, <2>5 DEF Execute
<1>5. ASSUME NEW p \in Pda, NEW to \in Address, Close(p, to) PROVE TypeOK'
  <2> DEFINE d == DigestClose(vector[p], p.program, to)
  <2>1. [pda |-> p, digest |-> d] \in Entry
    BY <1>5, AuthorizedEntry DEF Close
  <2>2. log' = Append(log, [pda |-> p, digest |-> d])
    BY <1>5 DEF Close
  <2>3. log' \in Seq(Entry)
    BY <2>1, <2>2, LogAppend
  <2>4. QED
    BY <1>5, <2>3 DEF Close
<1>6. ASSUME NEW p \in Pda, NEW data \in SubIxData, ConstructExecute(p, data) PROVE TypeOK'
  <2>1. confirmed[p] \in Seed /\ p.program \in Program
    BY <1>6, PdaFields DEF ConstructExecute
  <2>2. DigestExecute(confirmed[p], p.program, data) \in Digest
    BY <2>1, DigestTypes
  <2>3. QED
    BY <1>6, <2>2 DEF ConstructExecute, Produce, File
<1>7. ASSUME NEW p \in Pda, NEW to \in Address, ConstructClose(p, to) PROVE TypeOK'
  <2>1. confirmed[p] \in Seed /\ p.program \in Program
    BY <1>7, PdaFields DEF ConstructClose
  <2>2. DigestClose(confirmed[p], p.program, to) \in Digest
    BY <2>1, DigestTypes
  <2>3. QED
    BY <1>7, <2>2 DEF ConstructClose, Produce, File
<1>8. ASSUME NEW f \in files, Sign(f) PROVE TypeOK'
  <2>1. f \in File /\ f.pda \in Pda /\ f.digest \in Digest
    BY DEF File
  <2>2. [key |-> f.pda.authority, digest |-> f.digest] \in Signature
    BY <2>1, PdaFields DEF Signature
  <2>3. QED
    BY <1>8, <2>2 DEF Sign
<1>9. CASE UNCHANGED vars
  BY <1>9 DEF vars
<1>10. QED
  BY <1>1, <1>2, <1>3, <1>4, <1>5, <1>6, <1>7, <1>8, <1>9 DEF Next

(* Every seed, digest, file, signature and log entry of every behaviour is *)
(* one the program could have stored or made.                              *)
THEOREM TypeCorrect == Spec => []TypeOK
<1>1. QED
  BY InitType, NextType, PTL DEF Spec

-----------------------------------------------------------------------------
(* Replay protection.                                                      *)

(* A PDA is known by its cluster, program and authority. *)
LEMMA SamePda ==
    ASSUME NEW p \in Pda, NEW q \in Pda, NEW s, NEW r, NEW m, NEW n,
           BornBefore(p, s, m), BornBefore(q, r, n), SameOrigin(s, r),
           p.program = q.program
    PROVE  p = q
BY OriginTellsCluster, PdaFields

(* An accepted digest is in a file made for the very PDA that accepts it,  *)
(* and its seed was stored in an earlier slot.                             *)
LEMMA AuthorizedFile ==
    ASSUME Inv, NEW p \in Pda, vector[p] # NoAccount, NEW d, Authorized(p, d),
           d.seed = vector[p], d.program = p.program
    PROVE  /\ \E f \in files : f.pda = p /\ f.digest = d
           /\ BornBefore(p, vector[p], now)
<1>1. PICK f \in files : f.pda.authority = p.authority /\ f.digest = d
  BY DEF Inv, SeedDiscipline, SignedFiles, Authorized
<1>2. f.pda \in Pda /\ f.pda.program = p.program /\ BornBefore(f.pda, vector[p], now)
  BY <1>1 DEF Inv, SeedDiscipline, FileSeeds, TypeOK, File
<1>3. BornBefore(p, vector[p], now + 1)
  BY DEF Inv, SeedDiscipline, LiveSeeds
<1>4. SameOrigin(vector[p], vector[p])
  BY DEF SameOrigin
<1>5. f.pda = p
  BY <1>2, <1>3, <1>4, SamePda
<1>6. QED
  BY <1>1, <1>2, <1>5

(* What execute stores is one link ahead of what it found. *)
LEMMA ExecuteStores ==
    ASSUME TypeOK, NEW p \in Pda, NEW data \in SubIxData, Execute(p, data)
    PROVE  /\ vector' = [vector EXCEPT ![p] = vector'[p]]
           /\ vector[p] \in Seed
           /\ vector'[p] \in Seed
           /\ vector'[p] # NoAccount
           /\ vector'[p].authority = vector[p].authority
           /\ vector'[p].slot = vector[p].slot
           /\ vector'[p].unix = vector[p].unix
           /\ Len(vector'[p].chain) = Len(vector[p].chain) + 1
<1>1. vector[p] \in Seed /\ p.program \in Program
  BY PdaFields DEF Execute, TypeOK
<1>2. vector' = [vector EXCEPT ![p] =
                    AdvanceSeed(vector[p], DigestExecute(vector[p], p.program, data))]
  BY DEF Execute
<1>3. p \in DOMAIN vector
  BY DEF TypeOK
<1>4. QED
  BY <1>1, <1>2, <1>3, AdvanceFacts, DeploymentAssumption

(* What initialize stores is the first seed of a chain started now. *)
LEMMA InitializeStores ==
    ASSUME TypeOK, NEW p \in Pda, Initialize(p)
    PROVE  /\ vector' = [vector EXCEPT ![p] = vector'[p]]
           /\ vector'[p] = InitSeed(p.authority, Clock[p.cluster][now])
           /\ vector'[p] \in Seed
           /\ vector'[p] # NoAccount
           /\ BornBefore(p, vector'[p], now + 1)
<1>1. vector'[p] = InitSeed(p.authority, Clock[p.cluster][now])
  BY DEF Initialize, TypeOK
<1>2. InitSeed(p.authority, Clock[p.cluster][now]) \in Seed
  BY PdaFields, ClockFields, InitSeedType DEF TypeOK
<1>3. BornBefore(p, vector'[p], now + 1)
  BY <1>1, BoundsAssumption DEF BornBefore, InitSeed, TypeOK
<1>4. QED
  BY <1>1, <1>2, <1>3, DeploymentAssumption DEF Initialize, TypeOK

(* A seed known from an earlier slot stays where it was or falls behind:   *)
(* no instruction moves a PDA back onto it.                                *)
LEMMA StaysBehind ==
    ASSUME Inv, NEW p \in Pda,
           \/ Initialize(p)
           \/ \E data \in SubIxData : Execute(p, data)
           \/ \E to \in Address : Close(p, to),
           NEW q \in Pda, NEW r \in Seed, BornBefore(q, r, now)
    PROVE  /\ NotAhead(q, r) => NotAhead(q, r)'
           /\ Superseded(q, r) => Superseded(q, r)'
<1>0. TypeOK /\ now \in 0..MaxTick
  BY DEF Inv, TypeOK
<1>1. CASE q # p
  <2>1. vector'[q] = vector[q]
    BY <1>0, <1>1 DEF Initialize, Execute, Close, TypeOK
  <2>2. QED
    BY <2>1 DEF NotAhead, Superseded
<1>2. CASE q = p /\ Initialize(p)
  <2>1. ~SameOrigin(r, vector'[p])
    BY <1>0, <1>2, InitializeStores, NewOrigin
  <2>2. QED
    BY <1>2, <2>1 DEF NotAhead, Superseded
<1>3. ASSUME q = p, NEW data \in SubIxData, Execute(p, data)
      PROVE  /\ NotAhead(q, r) => NotAhead(q, r)'
             /\ Superseded(q, r) => Superseded(q, r)'
  <2>1. /\ Len(vector'[p].chain) = Len(vector[p].chain) + 1
        /\ SameOrigin(r, vector'[p]) => SameOrigin(r, vector[p])
        /\ vector[p] \in Seed
    BY <1>0, <1>3, ExecuteStores DEF SameOrigin
  <2>2. Len(r.chain) \in Nat /\ Len(vector[p].chain) \in Nat
    BY <2>1 DEF Seed
  <2>3. vector[p] # NoAccount
    BY <1>3 DEF Execute
  <2>4. QED
    BY <1>3, <2>1, <2>2, <2>3 DEF NotAhead, Superseded
<1>4. ASSUME q = p, NEW to \in Address, Close(p, to)
      PROVE  NotAhead(q, r)' /\ Superseded(q, r)'
  <2>1. vector'[p] = NoAccount
    BY <1>0, <1>4 DEF Close, TypeOK
  <2>2. QED
    BY <1>4, <2>1 DEF NotAhead, Superseded
<1>5. QED
  BY <1>1, <1>2, <1>3, <1>4

(* What initialize and execute store is no seed of that program id that    *)
(* any PDA holds or that is known from an earlier slot.                    *)
LEMMA StoredIsFresh ==
    ASSUME Inv, NEW p \in Pda,
           Initialize(p) \/ \E data \in SubIxData : Execute(p, data),
           NEW q \in Pda, q.program = p.program, NEW r \in Seed,
           \/ BornBefore(q, r, now) /\ NotAhead(q, r)
           \/ r = vector[q] /\ vector[q] # NoAccount
    PROVE  r # vector'[p]
<1>0. TypeOK /\ now \in 0..MaxTick /\ now \in Nat
  BY DEF Inv, TypeOK
<1>1. BornBefore(q, r, now + 1)
  BY <1>0, BornLater DEF Inv, SeedDiscipline, LiveSeeds
<1>2. SUFFICES ASSUME r = vector'[p] PROVE FALSE
  OBVIOUS
<1>3. CASE Initialize(p)
  <2>1. BornBefore(p, r, now + 1)
    BY <1>0, <1>2, <1>3, InitializeStores
  <2>2. q = p
    BY <1>1, <2>1, SamePda DEF SameOrigin
  <2>3. BornBefore(p, r, now)
    BY <1>3, <2>2 DEF Initialize
  <2>4. ~SameOrigin(r, vector'[p])
    BY <1>0, <1>3, <2>3, InitializeStores, NewOrigin
  <2>5. QED
    BY <1>2, <2>4 DEF SameOrigin
<1>4. ASSUME NEW data \in SubIxData, Execute(p, data) PROVE FALSE
  <2>1. /\ SameOrigin(r, vector[p])
        /\ vector[p] # NoAccount
        /\ vector[p] \in Seed
        /\ Len(r.chain) = Len(vector[p].chain) + 1
    <3>1. vector[p] # NoAccount
      BY <1>4 DEF Execute
    <3>2. /\ vector[p] \in Seed
          /\ r.authority = vector[p].authority
          /\ r.slot = vector[p].slot /\ r.unix = vector[p].unix
          /\ Len(r.chain) = Len(vector[p].chain) + 1
      BY <1>0, <1>2, <1>4, ExecuteStores
    <3>3. QED
      BY <3>1, <3>2 DEF SameOrigin
  <2>2. BornBefore(p, vector[p], now + 1)
    BY <2>1 DEF Inv, SeedDiscipline, LiveSeeds
  <2>3. q = p
    BY <1>1, <2>1, <2>2, SamePda
  <2>4. Len(vector[p].chain) \in Nat
    BY <2>1 DEF Seed
  <2>5. QED
    BY <2>1, <2>3, <2>4 DEF NotAhead
<1>5. QED
  BY <1>3, <1>4

(* The fields of an entry of the log. *)
LEMMA LogFields ==
    ASSUME TypeOK, NEW i \in 1..Len(log)
    PROVE  log[i].pda \in Pda /\ log[i].digest \in Digest /\ log[i].digest.seed \in Seed
<1>1. log \in Seq(Entry)
  BY DEF TypeOK
<1>2. log[i] \in Entry
  BY <1>1
<1>3. QED
  BY <1>2 DEF Entry, Digest

(* No accepted action was accepted on the seed a PDA holds now. *)
LEMMA CurrentUnspent ==
    ASSUME Inv, NEW p \in Pda, vector[p] # NoAccount, NEW i \in 1..Len(log),
           log[i].digest.program = p.program
    PROVE  log[i].digest.seed # vector[p]
<1> SUFFICES ASSUME log[i].digest.seed = vector[p] PROVE FALSE
  OBVIOUS
<1>1. log[i].pda \in Pda /\ log[i].pda.program = p.program
  BY LogFields DEF Inv, SeedDiscipline, SpentSeeds
<1>2. BornBefore(log[i].pda, vector[p], now) /\ Superseded(log[i].pda, vector[p])
  BY DEF Inv, SeedDiscipline, SpentSeeds
<1>3. BornBefore(p, vector[p], now + 1)
  BY DEF Inv, SeedDiscipline, LiveSeeds
<1>4. SameOrigin(vector[p], vector[p])
  BY DEF SameOrigin
<1>5. log[i].pda = p
  BY <1>1, <1>2, <1>3, <1>4, SamePda
<1>6. Len(vector[p].chain) \in Nat
  BY DEF Inv, TypeOK, Seed
<1>7. QED
  BY <1>2, <1>4, <1>5, <1>6 DEF Superseded

(* The parts of the invariant about files and views, which no instruction  *)
(* of the program writes, survive one.                                     *)
LEMMA InstructionKeepsViews ==
    ASSUME Inv, NEW p \in Pda,
           \/ Initialize(p)
           \/ \E data \in SubIxData : Execute(p, data)
           \/ \E to \in Address : Close(p, to)
    PROVE  ConfirmedSeeds' /\ FileSeeds' /\ SignedFiles'
<1>1. UNCHANGED <<now, confirmed, files, signatures>>
  BY DEF Initialize, Execute, Close
<1>2. ConfirmedSeeds'
  <2>1. \A q \in Pda : confirmed[q] # NoAccount =>
              /\ confirmed[q] \in Seed
              /\ BornBefore(q, confirmed[q], now)
              /\ NotAhead(q, confirmed[q])
    BY DEF Inv, TypeOK, SeedDiscipline, ConfirmedSeeds
  <2>2. ASSUME NEW q \in Pda, NEW r, r = confirmed[q], r # NoAccount
        PROVE  BornBefore(q, r, now) /\ NotAhead(q, r)'
    BY <2>1, <2>2, StaysBehind
  <2>3. QED
    BY <1>1, <2>2 DEF ConfirmedSeeds, BornBefore, NotAhead
<1>3. FileSeeds'
  <2>1. ASSUME NEW f \in files
        PROVE  /\ f.digest.program = f.pda.program
               /\ BornBefore(f.pda, f.digest.seed, now)
               /\ NotAhead(f.pda, f.digest.seed)'
    <3>1. f.pda \in Pda /\ f.digest.seed \in Seed
      BY DEF Inv, TypeOK, File, Digest
    <3>2. /\ f.digest.program = f.pda.program
          /\ BornBefore(f.pda, f.digest.seed, now)
          /\ NotAhead(f.pda, f.digest.seed)
      BY DEF Inv, SeedDiscipline, FileSeeds
    <3>3. QED
      BY <3>1, <3>2, StaysBehind
  <2>2. QED
    BY <1>1, <2>1 DEF FileSeeds, BornBefore, NotAhead
<1>4. SignedFiles'
  BY <1>1 DEF Inv, SeedDiscipline, SignedFiles
<1>5. QED
  BY <1>2, <1>3, <1>4

(* Entries of the log stay superseded. *)
LEMMA InstructionKeepsSpent ==
    ASSUME Inv, NEW p \in Pda,
           \/ Initialize(p)
           \/ \E data \in SubIxData : Execute(p, data)
           \/ \E to \in Address : Close(p, to)
    PROVE  \A i \in 1..Len(log) :
              /\ log[i].digest.program = log[i].pda.program
              /\ BornBefore(log[i].pda, log[i].digest.seed, now)
              /\ Superseded(log[i].pda, log[i].digest.seed)
              /\ \A q, r : q = log[i].pda /\ r = log[i].digest.seed => Superseded(q, r)'
<1> TAKE i \in 1..Len(log)
<1>1. log[i].pda \in Pda /\ log[i].digest.seed \in Seed
  BY LogFields DEF Inv
<1>2. /\ log[i].digest.program = log[i].pda.program
      /\ BornBefore(log[i].pda, log[i].digest.seed, now)
      /\ Superseded(log[i].pda, log[i].digest.seed)
  BY DEF Inv, SeedDiscipline, SpentSeeds
<1>3. ASSUME NEW q, NEW r, q = log[i].pda, r = log[i].digest.seed
      PROVE  Superseded(q, r)'
  <2>1. q \in Pda /\ r \in Seed /\ BornBefore(q, r, now) /\ Superseded(q, r)
    BY <1>1, <1>2, <1>3
  <2>2. QED
    BY <2>1, StaysBehind
<1>4. QED
  BY <1>2, <1>3

(* Accepting an action on the current seed keeps the log one per seed. *)
LEMMA AcceptKeepsLog ==
    ASSUME Inv, TypeOK', NEW p \in Pda, vector[p] # NoAccount, NEW d,
           Authorized(p, d), d.seed = vector[p], d.program = p.program,
           \/ \E data \in SubIxData : Execute(p, data)
           \/ \E to \in Address : Close(p, to),
           log' = Append(log, [pda |-> p, digest |-> d]),
           vector'[p] # NoAccount => Len(vector[p].chain) < Len(vector'[p].chain)
    PROVE  SpentSeeds' /\ OnePerSeed'
<1> DEFINE e == [pda |-> p, digest |-> d]
<1>1. log \in Seq(Entry) /\ e \in Entry
  BY AuthorizedEntry DEF Inv, TypeOK
<1>2. /\ Len(log') = Len(log) + 1
      /\ \A i \in 1..Len(log) + 1 : log'[i] = IF i = Len(log) + 1 THEN e ELSE log[i]
      /\ Len(log) \in Nat
  BY <1>1, LogAppend
<1>3. now' = now
  BY DEF Execute, Close
<1>4. SpentSeeds'
  <2>1. ASSUME NEW i \in 1..Len(log')
        PROVE  /\ log'[i].digest.program = log'[i].pda.program
               /\ BornBefore(log'[i].pda, log'[i].digest.seed, now)
               /\ \A q, r : q = log'[i].pda /\ r = log'[i].digest.seed => Superseded(q, r)'
    <3>1. CASE i = Len(log) + 1
      <4>1. log'[i] = e
        BY <1>2, <3>1
      <4>2. BornBefore(p, d.seed, now)
        BY AuthorizedFile
      <4>3. \A r : r = vector[p] => Superseded(p, r)'
        BY DEF Superseded
      <4>4. QED
        BY <4>1, <4>2, <4>3
    <3>2. CASE i # Len(log) + 1
      <4>1. i \in 1..Len(log) /\ log'[i] = log[i]
        BY <1>2, <3>2
      <4>2. QED
        BY <4>1, InstructionKeepsSpent
    <3>3. QED
      BY <3>1, <3>2
  <2>2. QED
    BY <1>3, <2>1 DEF SpentSeeds, BornBefore, Superseded
<1>5. OnePerSeed'
  <2>1. ASSUME NEW i \in 1..Len(log'), NEW j \in 1..Len(log'),
               log'[i].digest.seed = log'[j].digest.seed,
               log'[i].digest.program = log'[j].digest.program
        PROVE  i = j
    <3>1. \A k \in 1..Len(log) : ~(/\ log[k].digest.seed = d.seed
                                   /\ log[k].digest.program = d.program)
      BY CurrentUnspent
    <3>2. CASE i \in 1..Len(log) /\ j \in 1..Len(log)
      BY <1>2, <2>1, <3>2 DEF Inv, OnePerSeed
    <3>3. QED
      BY <1>2, <2>1, <3>1, <3>2
  <2>2. QED
    BY <2>1 DEF OnePerSeed
<1>6. QED
  BY <1>4, <1>5

(* The invariant holds at the start. *)
LEMMA InitInv == Init => Inv
<1> SUFFICES ASSUME Init PROVE Inv
  OBVIOUS
<1>1. TypeOK
  BY InitType
<1>2. SeedDiscipline /\ OnePerSeed
  BY DEF Init, SeedDiscipline, LiveSeeds, ConfirmedSeeds, FileSeeds, SignedFiles,
         SpentSeeds, OnePerSeed
<1>3. QED
  BY <1>1, <1>2 DEF Inv

(* A construct command adds a file made from a confirmed seed. *)
LEMMA ProduceKeeps ==
    ASSUME Inv, NEW p \in Pda, confirmed[p] # NoAccount, NEW d \in Digest,
           d.seed = confirmed[p], d.program = p.program, Produce(p, d)
    PROVE  SeedDiscipline' /\ OnePerSeed'
<1> USE DEF Inv, SeedDiscipline, Produce
<1>1. LiveSeeds' /\ ConfirmedSeeds'
  BY DEF LiveSeeds, ConfirmedSeeds, BornBefore, NotAhead
<1>2. FileSeeds'
  <2>1. BornBefore(p, d.seed, now) /\ NotAhead(p, d.seed)
    BY DEF ConfirmedSeeds
  <2>2. QED
    BY <2>1 DEF FileSeeds, BornBefore, NotAhead
<1>3. SignedFiles'
  BY DEF SignedFiles
<1>4. SpentSeeds' /\ OnePerSeed'
  BY DEF SpentSeeds, OnePerSeed, BornBefore, Superseded
<1>5. QED
  BY <1>1, <1>2, <1>3, <1>4

(* Every step keeps the invariant. *)
LEMMA NextInv == Inv /\ [Next]_vars => Inv'
<1> SUFFICES ASSUME Inv, [Next]_vars PROVE Inv'
  OBVIOUS
<1>0. TypeOK /\ TypeOK' /\ now \in Nat
  BY NextType DEF Inv, TypeOK
<1> SUFFICES SeedDiscipline' /\ OnePerSeed'
  BY <1>0 DEF Inv
<1>1. CASE Tick
  <2>1. now' = now + 1 /\ now' \in Nat
        /\ UNCHANGED <<vector, files, signatures, log>>
    BY <1>0, <1>1 DEF Tick
  <2>2. \A p, s :
          /\ BornBefore(p, s, now) => BornBefore(p, s, now + 1)
          /\ BornBefore(p, s, now + 1) => BornBefore(p, s, now + 2)
    BY <1>0, BornLater
  <2>3. LiveSeeds'
    BY <2>1, <2>2 DEF Inv, SeedDiscipline, LiveSeeds, BornBefore
  <2>4. ConfirmedSeeds'
    <3>1. \A p \in Pda : confirmed'[p] = vector[p] \/ confirmed'[p] = confirmed[p]
      BY <1>1 DEF Tick
    <3>2. ASSUME NEW p \in Pda, NEW s, s = confirmed'[p], s # NoAccount
          PROVE  BornBefore(p, s, now + 1) /\ NotAhead(p, s)
      <4>1. CASE s = vector[p]
        <5>1. vector[p] \in Seed
          BY <1>0, <3>2, <4>1 DEF TypeOK
        <5>2. Len(vector[p].chain) \in Nat
          BY <5>1 DEF Seed
        <5>3. BornBefore(p, s, now + 1)
          BY <3>2, <4>1 DEF Inv, SeedDiscipline, LiveSeeds
        <5>4. QED
          BY <4>1, <5>2, <5>3 DEF NotAhead
      <4>2. CASE s = confirmed[p]
        BY <3>2, <4>2, <2>2 DEF Inv, SeedDiscipline, ConfirmedSeeds
      <4>3. QED
        BY <3>1, <3>2, <4>1, <4>2
    <3>3. QED
      BY <2>1, <3>2 DEF ConfirmedSeeds, BornBefore, NotAhead
  <2>5. FileSeeds'
    <3>1. \A f \in files : BornBefore(f.pda, f.digest.seed, now + 1)
      BY <2>2 DEF Inv, SeedDiscipline, FileSeeds
    <3>2. QED
      BY <2>1, <3>1 DEF Inv, SeedDiscipline, FileSeeds, BornBefore, NotAhead
  <2>6. SignedFiles'
    BY <2>1 DEF Inv, SeedDiscipline, SignedFiles
  <2>7. SpentSeeds' /\ OnePerSeed'
    <3>1. \A i \in 1..Len(log) : BornBefore(log[i].pda, log[i].digest.seed, now + 1)
      BY <2>2 DEF Inv, SeedDiscipline, SpentSeeds
    <3>2. QED
      BY <2>1, <3>1 DEF Inv, SeedDiscipline, SpentSeeds, OnePerSeed, BornBefore, Superseded
  <2>8. QED
    BY <2>3, <2>4, <2>5, <2>6, <2>7 DEF SeedDiscipline
<1>2. ASSUME NEW p \in Pda, Initialize(p) PROVE SeedDiscipline' /\ OnePerSeed'
  <2>1. UNCHANGED <<now, log>>
    BY <1>2 DEF Initialize
  <2>2. LiveSeeds'
    <3>1. BornBefore(p, vector'[p], now + 1) /\ vector' = [vector EXCEPT ![p] = vector'[p]]
      BY <1>0, <1>2, InitializeStores
    <3>2. ASSUME NEW q \in Pda, vector'[q] # NoAccount
          PROVE  BornBefore(q, vector'[q], now + 1)
      BY <3>1, <3>2 DEF Inv, TypeOK, SeedDiscipline, LiveSeeds
    <3>3. QED
      BY <2>1, <3>2 DEF LiveSeeds, BornBefore
  <2>3. ConfirmedSeeds' /\ FileSeeds' /\ SignedFiles'
    BY <1>2, InstructionKeepsViews
  <2>4. SpentSeeds'
    BY <1>2, <2>1, InstructionKeepsSpent DEF SpentSeeds, BornBefore, Superseded
  <2>5. OnePerSeed'
    BY <2>1 DEF Inv, OnePerSeed
  <2>6. QED
    BY <2>2, <2>3, <2>4, <2>5 DEF SeedDiscipline
<1>3. ASSUME NEW p \in Pda, Fund(p) PROVE SeedDiscipline' /\ OnePerSeed'
  BY <1>3 DEF Fund, Inv, SeedDiscipline, LiveSeeds, ConfirmedSeeds, FileSeeds, SignedFiles,
              SpentSeeds, OnePerSeed, BornBefore, NotAhead, Superseded
<1>4. ASSUME NEW p \in Pda, NEW data \in SubIxData, Execute(p, data)
      PROVE  SeedDiscipline' /\ OnePerSeed'
  <2> DEFINE d == DigestExecute(vector[p], p.program, data)
  <2>1. /\ vector[p] # NoAccount
        /\ Authorized(p, d)
        /\ d.seed = vector[p]
        /\ d.program = p.program
        /\ log' = Append(log, [pda |-> p, digest |-> d])
        /\ now' = now
    BY <1>4 DEF Execute, DigestExecute
  <2>2. /\ Len(vector'[p].chain) = Len(vector[p].chain) + 1
        /\ Len(vector[p].chain) \in Nat
    BY <1>0, <1>4, ExecuteStores DEF Seed
  <2>3. LiveSeeds'
    <3>1. BornBefore(p, vector[p], now + 1)
      BY <2>1 DEF Inv, SeedDiscipline, LiveSeeds
    <3>2. BornBefore(p, vector'[p], now + 1) /\ vector' = [vector EXCEPT ![p] = vector'[p]]
      BY <1>0, <1>4, <3>1, ExecuteStores DEF BornBefore
    <3>3. ASSUME NEW q \in Pda, vector'[q] # NoAccount
          PROVE  BornBefore(q, vector'[q], now + 1)
      BY <3>2, <3>3 DEF Inv, TypeOK, SeedDiscipline, LiveSeeds
    <3>4. QED
      BY <2>1, <3>3 DEF LiveSeeds, BornBefore
  <2>4. ConfirmedSeeds' /\ FileSeeds' /\ SignedFiles'
    BY <1>4, InstructionKeepsViews
  <2>5. SpentSeeds' /\ OnePerSeed'
    BY <1>0, <1>4, <2>1, <2>2, AcceptKeepsLog
  <2>6. QED
    BY <2>3, <2>4, <2>5 DEF SeedDiscipline
<1>5. ASSUME NEW p \in Pda, NEW to \in Address, Close(p, to)
      PROVE  SeedDiscipline' /\ OnePerSeed'
  <2> DEFINE d == DigestClose(vector[p], p.program, to)
  <2>1. /\ vector[p] # NoAccount
        /\ Authorized(p, d)
        /\ d.seed = vector[p]
        /\ d.program = p.program
        /\ log' = Append(log, [pda |-> p, digest |-> d])
        /\ now' = now
        /\ vector' = [vector EXCEPT ![p] = NoAccount]
    BY <1>5 DEF Close, DigestClose
  <2>2. vector'[p] = NoAccount
    BY <1>0, <2>1 DEF TypeOK
  <2>3. LiveSeeds'
    BY <2>1, <2>2 DEF Inv, TypeOK, SeedDiscipline, LiveSeeds, BornBefore
  <2>4. ConfirmedSeeds' /\ FileSeeds' /\ SignedFiles'
    BY <1>5, InstructionKeepsViews
  <2>5. SpentSeeds' /\ OnePerSeed'
    BY <1>0, <1>5, <2>1, <2>2, AcceptKeepsLog
  <2>6. QED
    BY <2>3, <2>4, <2>5 DEF SeedDiscipline
<1>6. ASSUME NEW p \in Pda, NEW data \in SubIxData, ConstructExecute(p, data)
      PROVE  SeedDiscipline' /\ OnePerSeed'
  <2> DEFINE d == DigestExecute(confirmed[p], p.program, data)
  <2>1. confirmed[p] # NoAccount /\ Produce(p, d)
    BY <1>6 DEF ConstructExecute
  <2>2. d \in Digest
    BY <1>0, <2>1, PdaFields, DigestTypes DEF TypeOK
  <2>3. d.seed = confirmed[p] /\ d.program = p.program
    BY DEF DigestExecute
  <2>4. QED
    BY <2>1, <2>2, <2>3, ProduceKeeps
<1>7. ASSUME NEW p \in Pda, NEW to \in Address, ConstructClose(p, to)
      PROVE  SeedDiscipline' /\ OnePerSeed'
  <2> DEFINE d == DigestClose(confirmed[p], p.program, to)
  <2>1. confirmed[p] # NoAccount /\ Produce(p, d)
    BY <1>7 DEF ConstructClose
  <2>2. d \in Digest
    BY <1>0, <2>1, PdaFields, DigestTypes DEF TypeOK
  <2>3. d.seed = confirmed[p] /\ d.program = p.program
    BY DEF DigestClose
  <2>4. QED
    BY <2>1, <2>2, <2>3, ProduceKeeps
<1>8. ASSUME NEW f \in files, Sign(f) PROVE SeedDiscipline' /\ OnePerSeed'
  <2>1. /\ signatures' = signatures \union {[key |-> f.pda.authority, digest |-> f.digest]}
        /\ UNCHANGED <<now, vector, confirmed, files, log>>
    BY <1>8 DEF Sign
  <2>2. SignedFiles'
    BY <2>1 DEF Inv, SeedDiscipline, SignedFiles
  <2>3. LiveSeeds' /\ ConfirmedSeeds' /\ FileSeeds'
    BY <2>1 DEF Inv, SeedDiscipline, LiveSeeds, ConfirmedSeeds, FileSeeds, BornBefore, NotAhead
  <2>4. SpentSeeds' /\ OnePerSeed'
    BY <2>1 DEF Inv, SeedDiscipline, SpentSeeds, OnePerSeed, BornBefore, Superseded
  <2>5. QED
    BY <2>2, <2>3, <2>4 DEF SeedDiscipline
<1>9. CASE UNCHANGED vars
  BY <1>9 DEF vars, Inv, SeedDiscipline, LiveSeeds, ConfirmedSeeds, FileSeeds, SignedFiles,
              SpentSeeds, OnePerSeed, BornBefore, NotAhead, Superseded
<1>10. QED
  BY <1>1, <1>2, <1>3, <1>4, <1>5, <1>6, <1>7, <1>8, <1>9 DEF Next

(* The invariant holds in every state of every behaviour. *)
THEOREM Invariant == Spec => []Inv
<1>1. QED
  BY InitInv, NextInv, PTL DEF Spec

(* Where every seed comes from and how it stands to the stored one: the    *)
(* discipline replay protection rests on is kept for good.                 *)
THEOREM SeedsDisciplined == Spec => []SeedDiscipline
<1>1. Inv => SeedDiscipline
  BY DEF Inv
<1>2. QED
  BY <1>1, Invariant, PTL

(* Replay protection: one seed and program id allow at most one accepted   *)
(* action, over all deployments, clusters, closes and re-initialisations.  *)
THEOREM ReplayProtection == Spec => []OnePerSeed
<1>1. Inv => OnePerSeed
  BY DEF Inv
<1>2. QED
  BY <1>1, Invariant, PTL

(* The step argument of NoRevival. *)
LEMMA DeadStaysDead ==
    ASSUME Inv, [Next]_vars, NEW g \in signatures, Usable(g)'
    PROVE  Usable(g)
<1>0. TypeOK /\ TypeOK'
  BY NextType DEF Inv
<1>1. PICK p \in Pda : /\ vector'[p] = g.digest.seed
                       /\ p.program = g.digest.program
                       /\ p.authority = g.key
  BY DEF Usable
<1>2. CASE vector'[p] = vector[p]
  BY <1>1, <1>2 DEF Usable
<1>3. CASE vector'[p] # vector[p]
  <2>1. PICK f \in files : g = [key |-> f.pda.authority, digest |-> f.digest]
    BY DEF Inv, SeedDiscipline, SignedFiles
  <2>2. /\ f.pda \in Pda
        /\ f.pda.program = p.program
        /\ f.digest.seed = vector'[p]
        /\ f.digest.seed \in Seed
        /\ BornBefore(f.pda, f.digest.seed, now)
        /\ NotAhead(f.pda, f.digest.seed)
    BY <1>0, <1>1, <2>1 DEF Inv, SeedDiscipline, FileSeeds, TypeOK, File, Digest
  <2>3. vector'[p] # NoAccount
    BY <2>2, DeploymentAssumption
  <2>4. \/ Initialize(p)
        \/ \E data \in SubIxData : Execute(p, data)
        \/ \E to \in Address : Close(p, to)
    <3>1. vector' # vector
      BY <1>3
    <3>2. PICK q \in Pda : \/ Initialize(q)
                           \/ \E data \in SubIxData : Execute(q, data)
                           \/ \E to \in Address : Close(q, to)
      BY <3>1 DEF Next, vars, Tick, Fund, ConstructExecute, ConstructClose, Produce, Sign
    <3>3. \A r \in Pda : r # q => vector'[r] = vector[r]
      BY <1>0, <3>2 DEF Initialize, Execute, Close, TypeOK
    <3>4. QED
      BY <1>3, <3>2, <3>3
  <2>5. ~ \E to \in Address : Close(p, to)
    BY <1>0, <2>3 DEF Close, TypeOK
  <2>6. QED
    BY <2>2, <2>4, <2>5, StoredIsFresh
<1>4. QED
  BY <1>2, <1>3

(* A signature no deployment accepts is never accepted again: closing and  *)
(* re-initialising, executing or waiting cannot bring its seed back.       *)
THEOREM NoResurrection == Spec => NoRevival
<1>1. Inv /\ [Next]_vars =>
        [\A g \in signatures : ~Usable(g) => ~Usable(g)']_vars
  BY DeadStaysDead
<1>2. QED
  BY <1>1, Invariant, PTL DEF Spec, NoRevival

-----------------------------------------------------------------------------
(* The stored seed commits to the history of its account.                  *)

(* The executes since a PDA was created are finitely many entries. *)
LEMMA PastFinite ==
    ASSUME TypeOK, NEW p
    PROVE  /\ Past(p) \subseteq 1..Len(log)
           /\ IsFiniteSet(Past(p))
           /\ Cardinality(Past(p)) \in Nat
           /\ \A i \in Past(p) : Turn(p, i) \in 1..Cardinality(Past(p))
<1>1. Past(p) \subseteq 1..Len(log)
  BY DEF Past
<1>2. IsFiniteSet(1..Len(log))
  BY FS_Interval DEF TypeOK
<1>3. IsFiniteSet(Past(p))
  BY <1>1, <1>2, FS_Subset
<1>4. ASSUME NEW i \in Past(p) PROVE Turn(p, i) \in 1..Cardinality(Past(p))
  <2> DEFINE T == {j \in Past(p) : j <= i}
  <2>1. IsFiniteSet(T) /\ Cardinality(T) <= Cardinality(Past(p))
    BY <1>3, FS_Subset
  <2>2. i \in T
    BY <1>1
  <2>3. Cardinality(T) # 0
    BY <2>1, <2>2, FS_EmptySet
  <2>4. Cardinality(T) \in Nat /\ Cardinality(Past(p)) \in Nat
    BY <1>3, <2>1, FS_CardinalityType
  <2>5. QED
    BY <2>1, <2>3, <2>4 DEF Turn
<1>5. QED
  BY <1>1, <1>3, <1>4, FS_CardinalityType

(* What an accepted action of p does to the executes since creation: an    *)
(* execute is added at the end, a close forgets them, and the other PDAs'  *)
(* stay what they were.                                                    *)
LEMMA PastAfter ==
    ASSUME TypeOK, NEW p \in Pda, NEW d, [pda |-> p, digest |-> d] \in Entry,
           log' = Append(log, [pda |-> p, digest |-> d])
    PROVE  /\ \A q : q # p => Past(q)' = Past(q)
           /\ d.action = ACTION_CLOSE => Past(p)' = {}
           /\ d.action = ACTION_EXECUTE => Past(p)' = Past(p) \union {Len(log) + 1}
<1> DEFINE e == [pda |-> p, digest |-> d]
<1>1. /\ Len(log) \in Nat
      /\ Len(log') = Len(log) + 1
      /\ \A i \in 1..Len(log) + 1 : log'[i] = IF i = Len(log) + 1 THEN e ELSE log[i]
  BY LogAppend DEF TypeOK
<1> DEFINE n == Len(log)
<1>2. /\ \A i \in 1..n : log'[i] = log[i]
      /\ log'[n + 1].pda = p
      /\ log'[n + 1].digest = d
  BY <1>1
<1>3. \A q : Past(q)' = {i \in 1..n + 1 :
                            /\ log'[i].pda = q
                            /\ \A j \in i..n + 1 : log'[j].pda = q =>
                                  log'[j].digest.action # ACTION_CLOSE}
  BY <1>1 DEF Past, ACTION_CLOSE
<1>4. \A i \in 1..n : /\ i..n + 1 = (i..n) \union {n + 1}
                       /\ i..n \subseteq 1..n
  BY <1>1
<1>5. \A i \in 1..n : n + 1 \in i..n + 1
  BY <1>1
<1>6. (n + 1)..(n + 1) = {n + 1} /\ 1..n + 1 = 1..n \union {n + 1} /\ n + 1 \notin 1..n
  BY <1>1
<1>7. \A q : Past(q) = {i \in 1..n :
                            /\ log[i].pda = q
                            /\ \A j \in i..n : log[j].pda = q =>
                                  log[j].digest.action # ACTION_CLOSE}
  BY DEF Past
<1> HIDE DEF n, e
<1>8. ASSUME NEW q, q # p PROVE Past(q)' = Past(q)
  <2>1. ASSUME NEW i \in 1..n PROVE i \in Past(q)' <=> i \in Past(q)
    <3>1. (\A j \in i..n + 1 : log'[j].pda = q => log'[j].digest.action # ACTION_CLOSE)
             <=> (\A j \in i..n : log[j].pda = q => log[j].digest.action # ACTION_CLOSE)
      BY <1>2, <1>4, <1>8
    <3>2. QED
      BY <1>2, <1>3, <1>6, <1>7, <3>1
  <2>2. n + 1 \notin Past(q)'
    BY <1>2, <1>3, <1>8
  <2>3. QED
    BY <1>3, <1>6, <1>7, <2>1, <2>2
<1>9. ASSUME d.action = ACTION_CLOSE PROVE Past(p)' = {}
  BY <1>2, <1>3, <1>5, <1>6, <1>9
<1>10. ASSUME d.action = ACTION_EXECUTE PROVE Past(p)' = Past(p) \union {n + 1}
  <2>0. d.action # ACTION_CLOSE
    BY <1>10 DEF ACTION_CLOSE, ACTION_EXECUTE
  <2>1. ASSUME NEW i \in 1..n PROVE i \in Past(p)' <=> i \in Past(p)
    <3>1. (\A j \in i..n + 1 : log'[j].pda = p => log'[j].digest.action # ACTION_CLOSE)
             <=> (\A j \in i..n : log[j].pda = p => log[j].digest.action # ACTION_CLOSE)
      BY <1>2, <1>4, <2>0
    <3>2. QED
      BY <1>2, <1>3, <1>6, <1>7, <3>1
  <2>2. n + 1 \in Past(p)'
    BY <1>2, <1>3, <1>6, <2>0
  <2>3. QED
    BY <1>3, <1>6, <1>7, <2>1, <2>2
<1>11. QED
  BY <1>8, <1>9, <1>10 DEF n

(* Which actions were accepted is all that matters to the history. *)
LEMMA HistoryKept ==
    ASSUME UNCHANGED log
    PROVE  \A p : Past(p)' = Past(p) /\ \A i : Turn(p, i)' = Turn(p, i)
BY DEF Past, Turn, ACTION_CLOSE

(* An execute adds its link at the end of the chain and of the history. *)
LEMMA ExecuteExtendsHistory ==
    ASSUME TypeOK, SeedCommitsToHistory, NEW p \in Pda, NEW data \in SubIxData,
           Execute(p, data)
    PROVE  /\ Len(vector'[p].chain) = Cardinality(Past(p)')
           /\ \A i \in Past(p)' :
                 vector'[p].chain[Turn(p, i)'] =
                     [program |-> p.program, data |-> log'[i].digest.body]
           /\ \A q : q # p => Past(q)' = Past(q)
<1> DEFINE d == DigestExecute(vector[p], p.program, data)
           l == [program |-> p.program, data |-> data]
           c == vector[p].chain
           n == Len(log)
<1>1. /\ vector[p] # NoAccount /\ vector[p] \in Seed /\ Authorized(p, d)
      /\ log' = Append(log, [pda |-> p, digest |-> d])
      /\ vector'[p] = AdvanceSeed(vector[p], d)
  BY DEF Execute, TypeOK
<1>2. [pda |-> p, digest |-> d] \in Entry
  BY <1>1, AuthorizedEntry
<1>3. vector'[p].chain = Append(c, l) /\ c \in Seq(Link) /\ l \in Link
  BY <1>1, PdaFields DEF AdvanceSeed, DigestExecute, Seed, Link
<1>4. /\ \A q : q # p => Past(q)' = Past(q)
      /\ Past(p)' = Past(p) \union {n + 1}
  BY <1>1, <1>2, PastAfter DEF DigestExecute
<1>5. /\ n \in Nat
      /\ Past(p) \subseteq 1..n
      /\ IsFiniteSet(Past(p))
      /\ Cardinality(Past(p)) \in Nat
      /\ \A i \in Past(p) : Turn(p, i) \in 1..Cardinality(Past(p))
  BY PastFinite DEF TypeOK
<1>6. Cardinality(Past(p)') = Cardinality(Past(p)) + 1
  <2>1. n + 1 \notin Past(p)
    BY <1>5
  <2>2. QED
    BY <1>4, <1>5, <2>1, FS_AddElement
<1>7. /\ Len(c) = Cardinality(Past(p))
      /\ \A i \in Past(p) :
            c[Turn(p, i)] = [program |-> p.program, data |-> log[i].digest.body]
  BY <1>1 DEF SeedCommitsToHistory
<1>8. /\ Len(Append(c, l)) = Len(c) + 1
      /\ \A k \in 1..Len(c) : Append(c, l)[k] = c[k]
      /\ Append(c, l)[Len(c) + 1] = l
  BY <1>3
<1>9. ASSUME NEW i \in Past(p)
      PROVE  Turn(p, i)' = Turn(p, i) /\ log'[i].digest.body = log[i].digest.body
  <2>1. i \in 1..n /\ ~(n + 1 <= i)
    BY <1>5
  <2>2. {j \in Past(p)' : j <= i} = {j \in Past(p) : j <= i}
    BY <1>4, <2>1
  <2>3. log'[i] = log[i]
    BY <1>1, <1>2, <2>1, LogAppend DEF TypeOK
  <2>4. QED
    BY <2>2, <2>3 DEF Turn
<1>10. ASSUME NEW i, i = n + 1
       PROVE  Turn(p, i)' = Cardinality(Past(p)) + 1 /\ log'[i].digest.body = data
  <2>1. {j \in Past(p)' : j <= i} = Past(p)'
    BY <1>4, <1>5, <1>10
  <2>2. log'[i] = [pda |-> p, digest |-> d]
    BY <1>1, <1>2, <1>5, <1>10, LogAppend DEF TypeOK
  <2>3. Turn(p, i)' = Cardinality(Past(p)')
    BY <2>1 DEF Turn
  <2>4. log'[i].digest.body = data
    BY <2>2 DEF DigestExecute
  <2>5. QED
    BY <1>6, <2>3, <2>4
<1> HIDE DEF d, l, c, n
<1>11. ASSUME NEW i \in Past(p)'
       PROVE  vector'[p].chain[Turn(p, i)'] =
                  [program |-> p.program, data |-> log'[i].digest.body]
  <2>1. CASE i \in Past(p)
    BY <1>3, <1>5, <1>7, <1>8, <1>9, <2>1
  <2>2. CASE i = n + 1
    <3>1. Turn(p, i)' = Len(c) + 1 /\ log'[i].digest.body = data
      BY <1>7, <1>10, <2>2
    <3>2. QED
      BY <1>3, <1>8, <3>1 DEF l
  <2>3. QED
    BY <1>4, <2>1, <2>2
<1>12. QED
  BY <1>3, <1>4, <1>6, <1>7, <1>8, <1>11

(* An accepted action leaves the histories of the other PDAs alone. *)
LEMMA OthersUndisturbed ==
    ASSUME TypeOK, NEW q, NEW i \in Past(q), Past(q)' = Past(q), NEW e \in Entry,
           log' = Append(log, e)
    PROVE  Turn(q, i)' = Turn(q, i) /\ log'[i] = log[i]
<1>1. i \in 1..Len(log)
  BY PastFinite
<1>2. log'[i] = log[i]
  BY <1>1, LogAppend DEF TypeOK
<1>3. QED
  BY <1>2 DEF Turn

(* Every step keeps the stored seed the hash of the history. *)
LEMMA HistoryNext ==
    ASSUME TypeOK, TypeOK', SeedCommitsToHistory, ClosedIsForgotten, [Next]_vars
    PROVE  SeedCommitsToHistory' /\ ClosedIsForgotten'
<1>1. CASE UNCHANGED <<vector, log>>
  BY <1>1, HistoryKept DEF SeedCommitsToHistory, ClosedIsForgotten
<1>2. ASSUME NEW p \in Pda, NEW data \in SubIxData, Execute(p, data)
      PROVE  SeedCommitsToHistory' /\ ClosedIsForgotten'
  <2>1. /\ Len(vector'[p].chain) = Cardinality(Past(p)')
        /\ \A i \in Past(p)' :
              vector'[p].chain[Turn(p, i)'] =
                  [program |-> p.program, data |-> log'[i].digest.body]
        /\ \A q : q # p => Past(q)' = Past(q)
    BY <1>2, ExecuteExtendsHistory
  <2>2. /\ vector'[p] # NoAccount
        /\ \A q \in Pda : q # p => vector'[q] = vector[q]
    BY <1>2, ExecuteStores DEF TypeOK
  <2>5. PICK e \in Entry : log' = Append(log, e)
    BY <1>2, AuthorizedEntry DEF Execute
  <2>3. ASSUME NEW q \in Pda, q # p, NEW i \in Past(q)
        PROVE  Turn(q, i)' = Turn(q, i) /\ log'[i] = log[i]
    BY <2>1, <2>3, <2>5, OthersUndisturbed
  <2>4. QED
    BY <2>1, <2>2, <2>3 DEF SeedCommitsToHistory, ClosedIsForgotten
<1>3. ASSUME NEW p \in Pda, NEW to \in Address, Close(p, to)
      PROVE  SeedCommitsToHistory' /\ ClosedIsForgotten'
  <2> DEFINE d == DigestClose(vector[p], p.program, to)
  <2>1. log' = Append(log, [pda |-> p, digest |-> d]) /\ Authorized(p, d)
    BY <1>3 DEF Close
  <2>2. [pda |-> p, digest |-> d] \in Entry
    BY <2>1, AuthorizedEntry
  <2>3. Past(p)' = {} /\ \A q : q # p => Past(q)' = Past(q)
    BY <2>1, <2>2, PastAfter DEF DigestClose
  <2>4. /\ vector'[p] = NoAccount
        /\ \A q \in Pda : q # p => vector'[q] = vector[q]
    BY <1>3 DEF Close, TypeOK
  <2>5. ASSUME NEW q \in Pda, q # p, NEW i \in Past(q)
        PROVE  Turn(q, i)' = Turn(q, i) /\ log'[i] = log[i]
    BY <2>1, <2>2, <2>3, <2>5, OthersUndisturbed
  <2>6. QED
    BY <2>3, <2>4, <2>5 DEF SeedCommitsToHistory, ClosedIsForgotten
<1>4. ASSUME NEW p \in Pda, Initialize(p)
      PROVE  SeedCommitsToHistory' /\ ClosedIsForgotten'
  <2>1. /\ vector[p] = NoAccount /\ log' = log
        /\ vector'[p].chain = <<>> /\ vector'[p] # NoAccount
        /\ \A q \in Pda : q # p => vector'[q] = vector[q]
    BY <1>4, InitializeStores DEF Initialize, InitSeed, TypeOK
  <2>2. Past(p) = {}
    BY <2>1 DEF ClosedIsForgotten
  <2>3. \A q \in Pda : Past(q)' = Past(q) /\ \A i : Turn(q, i)' = Turn(q, i)
    BY <2>1, HistoryKept
  <2>4. Len(vector'[p].chain) = Cardinality(Past(p)')
    <3>1. Past(p)' = {}
      BY <2>2, <2>3
    <3>2. QED
      BY <2>1, <3>1, FS_EmptySet
  <2>5. QED
    BY <2>1, <2>2, <2>3, <2>4 DEF SeedCommitsToHistory, ClosedIsForgotten
<1>5. QED
  BY <1>1, <1>2, <1>3, <1>4
     DEF Next, vars, Tick, Fund, ConstructExecute, ConstructClose, Produce, Sign

(* The stored seed is the hash chain of exactly the executes accepted      *)
(* since initialisation, in order: a signature made for a seed is made for *)
(* the next action after that history.                                     *)
THEOREM SeedIsHistory == Spec => []SeedCommitsToHistory
<1>1. Init => SeedCommitsToHistory /\ ClosedIsForgotten
  BY DEF Init, SeedCommitsToHistory, ClosedIsForgotten, Past
<1>2. TypeOK /\ SeedCommitsToHistory /\ ClosedIsForgotten /\ [Next]_vars =>
         (SeedCommitsToHistory /\ ClosedIsForgotten)'
  BY NextType, HistoryNext
<1>3. QED
  BY <1>1, <1>2, TypeCorrect, PTL DEF Spec

-----------------------------------------------------------------------------
(* The Vector program implements OneShot: how its instructions move the    *)
(* set of epochs entered.                                                  *)

(* Membership in Entered, spelled out. *)
LEMMA EnteredMembers ==
    ASSUME NEW q, NEW e
    PROVE  <<q, e>> \in Entered <=>
              \/ \E i \in 1..Len(log) :
                    q = log[i].pda /\ e = EpochOf(log[i].pda, log[i].digest.seed)
              \/ q \in Pda /\ vector[q] # NoAccount /\ e = EpochOf(q, vector[q])
BY DEF Entered

(* Elements of Entered are pairs of a PDA and an epoch. *)
LEMMA EnteredPairs ==
    ASSUME TypeOK
    PROVE  \A x \in Entered : \E q \in Pda, r \in Seed : x = <<q, EpochOf(q, r)>>
<1>1. \A i \in 1..Len(log) : log[i].pda \in Pda /\ log[i].digest.seed \in Seed
  BY LogFields
<1>2. \A p \in Pda : vector[p] # NoAccount => vector[p] \in Seed
  BY DEF TypeOK
<1>3. QED
  BY <1>1, <1>2 DEF Entered

(* What a step that appends entry (p, d) on the stored seed, or none, does *)
(* to Entered: it adds what p holds afterwards.                            *)
LEMMA EnteredAfter ==
    ASSUME TypeOK, TypeOK', NEW p \in Pda,
           vector' = [vector EXCEPT ![p] = vector'[p]],
           \/ log' = log /\ vector[p] = NoAccount
           \/ \E d \in Digest : /\ log' = Append(log, [pda |-> p, digest |-> d])
                                /\ d.seed = vector[p]
                                /\ vector[p] # NoAccount
    PROVE  Entered' = Entered \union
              (IF vector'[p] = NoAccount THEN {} ELSE {<<p, EpochOf(p, vector'[p])>>})
<1> DEFINE Live(v) == {<<q, EpochOf(q, v[q])>> : q \in {r \in Pda : v[r] # NoAccount}}
           Spent(l) == {<<l[i].pda, EpochOf(l[i].pda, l[i].digest.seed)>> : i \in 1..Len(l)}
           new == IF vector'[p] = NoAccount THEN {} ELSE {<<p, EpochOf(p, vector'[p])>>}
           old == IF vector[p] = NoAccount THEN {} ELSE {<<p, EpochOf(p, vector[p])>>}
           rest == {<<q, EpochOf(q, vector[q])>> :
                        q \in {r \in Pda : r # p /\ vector[r] # NoAccount}}
<1>1. Entered = Spent(log) \union Live(vector)
  BY DEF Entered
<1>2. Entered' = Spent(log') \union Live(vector')
  BY DEF Entered, EpochOf
<1>3. Live(vector) = rest \union old
  OBVIOUS
<1>4. \A q \in Pda : q # p => vector'[q] = vector[q]
  BY DEF TypeOK
<1>5. Live(vector') = rest \union new
  BY <1>4
<1>6. Spent(log') = Spent(log) \union old
  <2>1. CASE log' = log /\ vector[p] = NoAccount
    BY <2>1
  <2>2. ASSUME NEW d \in Digest, log' = Append(log, [pda |-> p, digest |-> d]),
               d.seed = vector[p], vector[p] # NoAccount
        PROVE  Spent(log') = Spent(log) \union old
    <3> DEFINE e == [pda |-> p, digest |-> d]
    <3>1. log \in Seq(Entry) /\ e \in Entry /\ Len(log) \in Nat
      BY DEF TypeOK, Entry
    <3>2. /\ Len(log') = Len(log) + 1
          /\ \A i \in 1..Len(log) + 1 : log'[i] = IF i = Len(log) + 1 THEN e ELSE log[i]
      BY <2>2, <3>1, LogAppend
    <3>3. old = {<<p, EpochOf(p, vector[p])>>}
      BY <2>2
    <3>4. \A i \in 1..Len(log) : i \in 1..Len(log') /\ log'[i] = log[i]
      BY <3>1, <3>2
    <3>5. Len(log') \in 1..Len(log') /\ log'[Len(log')] = e
      BY <3>1, <3>2
    <3>6. \A i \in 1..Len(log') : i \in 1..Len(log) \/ i = Len(log')
      BY <3>1, <3>2
    <3>7. <<log'[Len(log')].pda, EpochOf(log'[Len(log')].pda, log'[Len(log')].digest.seed)>>
            = <<p, EpochOf(p, vector[p])>>
      BY <2>2, <3>5
    <3> HIDE DEF e, old
    <3>8. ASSUME NEW x PROVE x \in Spent(log') <=> x \in Spent(log) \union old
      BY <3>3, <3>4, <3>5, <3>6, <3>7
    <3>9. QED
      BY <3>8
  <2>3. QED
    BY <2>1, <2>2
<1>7. QED
  BY <1>1, <1>2, <1>3, <1>5, <1>6

(* initialize enters the epoch of the seed it stores. *)
LEMMA InitializeEnters ==
    ASSUME Inv, TypeOK', NEW p \in Pda, Initialize(p)
    PROVE  Entered' = Entered \union {<<p, EpochOf(p, vector'[p])>>}
<1>1. TypeOK
  BY DEF Inv
<1>2. vector' = [vector EXCEPT ![p] = vector'[p]] /\ vector'[p] # NoAccount
  BY <1>1, InitializeStores
<1>3. log' = log /\ vector[p] = NoAccount
  BY DEF Initialize
<1>4. QED
  BY <1>1, <1>2, <1>3, EnteredAfter

(* execute enters the epoch of the seed it stores. *)
LEMMA ExecuteEnters ==
    ASSUME Inv, TypeOK', NEW p \in Pda, NEW data \in SubIxData, Execute(p, data)
    PROVE  Entered' = Entered \union {<<p, EpochOf(p, vector'[p])>>}
<1> DEFINE d == DigestExecute(vector[p], p.program, data)
<1>1. TypeOK
  BY DEF Inv
<1>2. /\ vector' = [vector EXCEPT ![p] = vector'[p]]
      /\ vector'[p] # NoAccount
      /\ vector[p] \in Seed
  BY <1>1, ExecuteStores
<1>3. vector[p] # NoAccount /\ log' = Append(log, [pda |-> p, digest |-> d])
  BY DEF Execute
<1>4. d \in Digest /\ d.seed = vector[p]
  BY <1>2, PdaFields, DigestTypes DEF DigestExecute
<1>5. QED
  BY <1>1, <1>2, <1>3, <1>4, EnteredAfter

(* close enters nothing. *)
LEMMA CloseEnters ==
    ASSUME Inv, TypeOK', NEW p \in Pda, NEW to \in Address, Close(p, to)
    PROVE  Entered' = Entered
<1> DEFINE d == DigestClose(vector[p], p.program, to)
<1>1. TypeOK
  BY DEF Inv
<1>2. /\ vector' = [vector EXCEPT ![p] = vector'[p]]
      /\ vector'[p] = NoAccount
      /\ vector[p] \in Seed
  BY <1>1 DEF Close, TypeOK
<1>3. vector[p] # NoAccount /\ log' = Append(log, [pda |-> p, digest |-> d])
  BY DEF Close
<1>4. d \in Digest /\ d.seed = vector[p]
  BY <1>2, PdaFields, DigestTypes DEF DigestClose
<1>5. QED
  BY <1>1, <1>2, <1>3, <1>4, EnteredAfter

(* Steps that are no instruction of the program leave Entered alone. *)
LEMMA OthersEnterNothing ==
    ASSUME UNCHANGED <<vector, log>>
    PROVE  Entered' = Entered
BY DEF Entered, EpochOf

(* Entered only grows. *)
LEMMA EnteredGrows ==
    ASSUME Inv, [Next]_vars
    PROVE  Entered \subseteq Entered'
<1>1. TypeOK'
  BY NextType DEF Inv
<1>2. CASE UNCHANGED <<vector, log>>
  BY <1>2, OthersEnterNothing
<1>3. ASSUME NEW p \in Pda, Initialize(p) PROVE Entered \subseteq Entered'
  BY <1>1, <1>3, InitializeEnters
<1>4. ASSUME NEW p \in Pda, NEW data \in SubIxData, Execute(p, data)
      PROVE  Entered \subseteq Entered'
  BY <1>1, <1>4, ExecuteEnters
<1>5. ASSUME NEW p \in Pda, NEW to \in Address, Close(p, to)
      PROVE  Entered \subseteq Entered'
  BY <1>1, <1>5, CloseEnters
<1>6. QED
  BY <1>2, <1>3, <1>4, <1>5
     DEF Next, vars, Tick, Fund, ConstructExecute, ConstructClose, Produce, Sign

(* Nothing is reported or signed that no PDA ever held. *)
LEMMA KnownEnteredNext ==
    ASSUME Inv, KnownEntered, [Next]_vars
    PROVE  KnownEntered'
<1>0. TypeOK /\ Entered \subseteq Entered'
  BY EnteredGrows DEF Inv
<1>1. ASSUME NEW p \in Pda, confirmed'[p] # NoAccount
      PROVE  <<p, EpochOf(p, confirmed'[p])>> \in Entered
  <2>1. CASE confirmed' = confirmed
    BY <1>1, <2>1 DEF KnownEntered
  <2>2. CASE Tick
    <3>1. confirmed'[p] = vector[p] \/ confirmed'[p] = confirmed[p]
      BY <2>2 DEF Tick
    <3>2. CASE confirmed'[p] = vector[p]
      BY <1>1, <3>2 DEF Entered
    <3>3. CASE confirmed'[p] = confirmed[p]
      BY <1>1, <3>3 DEF KnownEntered
    <3>4. QED
      BY <3>1, <3>2, <3>3
  <2>3. QED
    BY <2>1, <2>2
       DEF Next, vars, Initialize, Fund, Execute, Close, ConstructExecute, ConstructClose,
           Produce, Sign
<1>2. ASSUME NEW f \in files' PROVE <<f.pda, EpochOf(f.pda, f.digest.seed)>> \in Entered
  <2>1. CASE f \in files
    BY <2>1 DEF KnownEntered
  <2>2. ASSUME NEW p \in Pda, confirmed[p] # NoAccount, NEW d,
               d.seed = confirmed[p], files' = files \union {[pda |-> p, digest |-> d]}
        PROVE  <<f.pda, EpochOf(f.pda, f.digest.seed)>> \in Entered
    BY <2>1, <2>2 DEF KnownEntered
  <2>3. ASSUME NEW p \in Pda, NEW data \in SubIxData, ConstructExecute(p, data)
        PROVE  <<f.pda, EpochOf(f.pda, f.digest.seed)>> \in Entered
    <3> DEFINE d == DigestExecute(confirmed[p], p.program, data)
    <3>1. d.seed = confirmed[p]
      BY DEF DigestExecute
    <3>2. confirmed[p] # NoAccount /\ files' = files \union {[pda |-> p, digest |-> d]}
      BY <2>3 DEF ConstructExecute, Produce
    <3> HIDE DEF d
    <3>3. QED
      BY <2>2, <3>1, <3>2
  <2>4. ASSUME NEW p \in Pda, NEW to \in Address, ConstructClose(p, to)
        PROVE  <<f.pda, EpochOf(f.pda, f.digest.seed)>> \in Entered
    <3> DEFINE d == DigestClose(confirmed[p], p.program, to)
    <3>1. d.seed = confirmed[p]
      BY DEF DigestClose
    <3>2. confirmed[p] # NoAccount /\ files' = files \union {[pda |-> p, digest |-> d]}
      BY <2>4 DEF ConstructClose, Produce
    <3> HIDE DEF d
    <3>3. QED
      BY <2>2, <3>1, <3>2
  <2>5. QED
    BY <2>1, <2>3, <2>4
       DEF Next, vars, Tick, Initialize, Fund, Execute, Close, Sign
<1>3. QED
  BY <1>0, <1>1, <1>2 DEF KnownEntered, EpochOf

-----------------------------------------------------------------------------
(* The mapping of each step.                                               *)

(* Two files whose digests one signature covers are one file. *)
LEMMA OneFilePerSignature ==
    ASSUME Inv, NEW f \in files, NEW q \in Pda, NEW d,
           BornBefore(q, d.seed, now), d.program = q.program,
           f.digest = d, f.pda.authority = q.authority
    PROVE  f = [pda |-> q, digest |-> d]
<1>1. f \in File /\ f.pda \in Pda
  BY DEF Inv, TypeOK, File
<1>2. BornBefore(f.pda, d.seed, now) /\ f.pda.program = q.program
  BY DEF Inv, SeedDiscipline, FileSeeds
<1>3. f.pda = q
  BY <1>1, <1>2, SamePda DEF SameOrigin
<1>4. QED
  BY <1>1, <1>3 DEF File

(* A construct command makes no grant: a file that is new is not signed. *)
LEMMA ProduceGrantsNothing ==
    ASSUME Inv, NEW p \in Pda, confirmed[p] # NoAccount, NEW d,
           d.seed = confirmed[p], d.program = p.program, Produce(p, d)
    PROVE  Grants' = Grants
<1> DEFINE new == [pda |-> p, digest |-> d]
           signed(f) == [key |-> f.pda.authority, digest |-> f.digest] \in signatures
<1>1. files' = files \union {new} /\ signatures' = signatures
  BY DEF Produce
<1>2. ASSUME signed(new) PROVE new \in files
  <2>1. PICK f \in files : f.pda.authority = p.authority /\ f.digest = d
    BY <1>2 DEF Inv, SeedDiscipline, SignedFiles
  <2>2. BornBefore(p, d.seed, now)
    BY DEF Inv, SeedDiscipline, ConfirmedSeeds
  <2>3. QED
    BY <2>1, <2>2, OneFilePerSignature
<1>3. {f \in files' : signed(f)} = {f \in files : signed(f)}
  <2> HIDE DEF new, signed
  <2> QED
    BY <1>1, <1>2
<1>4. Grants = {GrantOf(f) : f \in {h \in files : signed(h)}}
  BY DEF Grants
<1>5. Grants' = {GrantOf(f) : f \in {h \in files' : signed(h)}}
  BY <1>1 DEF Grants, GrantOf
<1>6. QED
  BY <1>3, <1>4, <1>5

(* sign makes at most one grant, for an epoch that was entered. *)
LEMMA SignGrants ==
    ASSUME Inv, KnownEntered, NEW f \in files, Sign(f)
    PROVE  /\ Grants' = Grants \union {GrantOf(f)}
           /\ <<GrantOf(f).account, GrantOf(f).epoch>> \in Entered
           /\ GrantOf(f) \in Promise!Grant
<1> DEFINE g == [key |-> f.pda.authority, digest |-> f.digest]
           signature(h) == [key |-> h.pda.authority, digest |-> h.digest]
<1>1. files' = files /\ signatures' = signatures \union {g}
  BY DEF Sign
<1>2. f \in File /\ f.pda \in Pda /\ f.digest \in Digest /\ f.digest.program = f.pda.program
  BY DEF Inv, TypeOK, File, SeedDiscipline, FileSeeds
<1>3. ASSUME NEW h \in files, signature(h) = g PROVE h = f
  <2>1. h.digest = f.digest /\ h.pda.authority = f.pda.authority
    BY <1>3
  <2>2. BornBefore(f.pda, f.digest.seed, now)
    BY DEF Inv, SeedDiscipline, FileSeeds
  <2>3. h = [pda |-> f.pda, digest |-> f.digest]
    BY <1>2, <2>1, <2>2, OneFilePerSignature
  <2>4. QED
    BY <1>2, <2>3 DEF File
<1>4. signature(f) = g
  OBVIOUS
<1>5. {h \in files : signature(h) \in signatures \union {g}} =
         {h \in files : signature(h) \in signatures} \union {f}
  <2> HIDE DEF signature, g
  <2> QED
    BY <1>3, <1>4
<1>6. Grants = {GrantOf(h) : h \in {k \in files : signature(k) \in signatures}}
  BY DEF Grants
<1>7. Grants' = {GrantOf(h) : h \in {k \in files : signature(k) \in signatures \union {g}}}
  BY <1>1 DEF Grants, GrantOf
<1>8. Grants' = Grants \union {GrantOf(f)}
  <2> HIDE DEF signature, g
  <2> QED
    BY <1>5, <1>6, <1>7
<1>9. <<GrantOf(f).account, GrantOf(f).epoch>> \in Entered
  BY <1>2 DEF GrantOf, KnownEntered, EpochOf
<1>10. GrantOf(f) \in Promise!Grant
  BY <1>2, PdaFields DEF GrantOf, Promise!Grant, Digest
<1>11. QED
  BY <1>8, <1>9, <1>10

(* The epoch entered by initialize or execute was never entered before. *)
LEMMA EntersFresh ==
    ASSUME Inv, NEW p \in Pda, vector'[p] \in Seed,
           Initialize(p) \/ \E data \in SubIxData : Execute(p, data)
    PROVE  \A q \in Pda : <<q, EpochOf(p, vector'[p])>> \notin Entered
<1> SUFFICES ASSUME NEW q \in Pda, <<q, EpochOf(p, vector'[p])>> \in Entered PROVE FALSE
  OBVIOUS
<1>0. TypeOK
  BY DEF Inv
<1>1. CASE \E i \in 1..Len(log) : /\ q = log[i].pda
                                   /\ EpochOf(p, vector'[p]) = EpochOf(q, log[i].digest.seed)
  <2>1. PICK i \in 1..Len(log) : /\ q = log[i].pda
                                 /\ EpochOf(p, vector'[p]) = EpochOf(q, log[i].digest.seed)
    BY <1>1
  <2>2. /\ log[i].digest.seed \in Seed
        /\ log[i].digest.seed = vector'[p]
        /\ q.program = p.program
    BY <1>0, <2>1, LogFields DEF EpochOf
  <2>3. BornBefore(q, log[i].digest.seed, now) /\ Superseded(q, log[i].digest.seed)
    BY <2>1 DEF Inv, SeedDiscipline, SpentSeeds
  <2>4. ASSUME vector[q] # NoAccount
        PROVE  Len(log[i].digest.seed.chain) \in Nat /\ Len(vector[q].chain) \in Nat
    <3>1. vector[q] \in Seed
      BY <1>0, <2>4 DEF TypeOK
    <3>2. QED
      BY <2>2, <3>1 DEF Seed
  <2>5. NotAhead(q, log[i].digest.seed)
    <3> SUFFICES ASSUME vector[q] # NoAccount, SameOrigin(log[i].digest.seed, vector[q])
                 PROVE  Len(log[i].digest.seed.chain) <= Len(vector[q].chain)
      BY DEF NotAhead
    <3>1. Len(log[i].digest.seed.chain) < Len(vector[q].chain)
      BY <2>3 DEF Superseded
    <3>2. Len(log[i].digest.seed.chain) \in Nat /\ Len(vector[q].chain) \in Nat
      BY <2>4
    <3>3. QED
      BY <3>1, <3>2
  <2>6. QED
    BY <2>2, <2>3, <2>5, StoredIsFresh
<1>2. CASE vector[q] # NoAccount /\ EpochOf(p, vector'[p]) = EpochOf(q, vector[q])
  <2>1. q.program = p.program /\ vector'[p] = vector[q] /\ vector[q] \in Seed
    BY <1>0, <1>2 DEF EpochOf, TypeOK
  <2>2. QED
    BY <1>2, <2>1, StoredIsFresh
<1>3. QED
  BY <1>1, <1>2, EnteredMembers

(* An accepted digest is a grant, made for the current epoch and not yet   *)
(* acted on; accepting it adds it to those acted on.                       *)
LEMMA AcceptActs ==
    ASSUME Inv, NEW p \in Pda, vector[p] # NoAccount, NEW d \in Digest, Authorized(p, d),
           d.seed = vector[p], d.program = p.program,
           log' = Append(log, [pda |-> p, digest |-> d]),
           UNCHANGED <<files, signatures>>
    PROVE  LET g == GrantOf([pda |-> p, digest |-> d])
           IN  /\ g \in Grants
               /\ g \notin Acted
               /\ g.account = p
               /\ g.epoch = Current(p)
               /\ Acted' = Acted \union {g}
               /\ Grants' = Grants
<1> DEFINE e == [pda |-> p, digest |-> d]
           g == GrantOf(e)
<1>1. PICK f \in files : f.pda = p /\ f.digest = d
  BY AuthorizedFile
<1>2. f = e
  BY <1>1 DEF Inv, TypeOK, File
<1>3. g \in Grants
  BY <1>1, <1>2 DEF Grants, Authorized
<1>4. g \notin Acted
  <2>1. \A i \in 1..Len(log) :
            ~(log[i].digest.seed = d.seed /\ log[i].digest.program = d.program)
    BY CurrentUnspent
  <2>2. \A i \in 1..Len(log) : GrantOf(log[i]) # g
    BY <2>1 DEF GrantOf
  <2>3. QED
    BY <2>2 DEF Acted
<1>5. g.account = p /\ g.epoch = Current(p)
  BY DEF GrantOf, Current, EpochOf
<1>6. Acted' = Acted \union {g}
  <2>1. log \in Seq(Entry) /\ e \in Entry /\ Len(log) \in Nat
    BY DEF Inv, TypeOK, Entry
  <2>2. /\ Len(log') = Len(log) + 1
        /\ \A i \in 1..Len(log) + 1 : log'[i] = IF i = Len(log) + 1 THEN e ELSE log[i]
    BY <2>1, LogAppend
  <2>3. Acted' = {GrantOf(log'[i]) : i \in 1..Len(log')}
    BY DEF Acted, GrantOf
  <2> HIDE DEF g, e
  <2>4. \A i \in 1..Len(log) : i \in 1..Len(log') /\ log'[i] = log[i]
    BY <2>1, <2>2
  <2>5. Len(log') \in 1..Len(log') /\ log'[Len(log')] = e
    BY <2>1, <2>2
  <2>6. \A i \in 1..Len(log') : i \in 1..Len(log) \/ i = Len(log')
    BY <2>1, <2>2
  <2>7. ASSUME NEW x PROVE x \in Acted' <=> x \in Acted \union {g}
    BY <2>3, <2>4, <2>5, <2>6 DEF Acted, g
  <2>8. QED
    BY <2>7
<1>7. Grants' = Grants
  BY DEF Grants, GrantOf
<1>8. QED
  BY <1>3, <1>4, <1>5, <1>6, <1>7

(* The seed p holds after a step is the epoch the abstract account is in.  *)
LEMMA CurrentAfter ==
    ASSUME TypeOK, NEW p \in Pda, vector' = [vector EXCEPT ![p] = vector'[p]]
    PROVE  /\ [q \in Pda |-> Current(q)]'
                 = [[q \in Pda |-> Current(q)] EXCEPT ![p] =
                       IF vector'[p] = NoAccount THEN NoAccount ELSE EpochOf(p, vector'[p])]
           /\ Current(p)' = IF vector'[p] = NoAccount THEN NoAccount
                                                      ELSE EpochOf(p, vector'[p])
<1>1. \A q \in Pda : q # p => vector'[q] = vector[q]
  BY DEF TypeOK
<1>2. \A q \in Pda : Current(q)' = IF vector'[q] = NoAccount THEN NoAccount
                                                             ELSE EpochOf(q, vector'[q])
  BY DEF Current, EpochOf
<1>3. \A q \in Pda : q # p => Current(q)' = Current(q)
  BY <1>1, <1>2 DEF Current
<1>4. QED
  BY <1>2, <1>3

(* The seed stored by p, as an epoch. *)
LEMMA EpochType ==
    ASSUME NEW p \in Pda, NEW s \in Seed
    PROVE  EpochOf(p, s) \in [seed : Seed, program : Program]
BY PdaFields DEF EpochOf

(* Steps that touch neither the accounts nor the log nor the signed files  *)
(* are stuttering steps of OneShot.                                        *)
LEMMA Stutters ==
    ASSUME UNCHANGED <<vector, log>>, Grants' = Grants
    PROVE  UNCHANGED Promise!vars
<1>1. Entered' = Entered
  BY OthersEnterNothing
<1>2. Acted' = Acted
  BY DEF Acted, GrantOf
<1>3. [q \in Pda |-> Current(q)]' = [q \in Pda |-> Current(q)]
  BY DEF Current, EpochOf
<1>4. QED
  BY <1>1, <1>2, <1>3 DEF Promise!vars

(* Every step is a step of OneShot or a stuttering one. *)
LEMMA StepImplements ==
    ASSUME Inv, KnownEntered, [Next]_vars
    PROVE  [Promise!Next]_(Promise!vars)
<1>0. TypeOK /\ TypeOK'
  BY NextType DEF Inv
<1>1. CASE Tick \/ (\E p \in Pda : Fund(p)) \/ UNCHANGED vars
  <2>1. UNCHANGED <<vector, log, files, signatures>>
    BY <1>1 DEF Tick, Fund, vars
  <2>2. Grants' = Grants
    BY <2>1 DEF Grants, GrantOf
  <2>3. QED
    BY <2>1, <2>2, Stutters
<1>2. ASSUME NEW p \in Pda, Initialize(p) PROVE Promise!Next
  <2> DEFINE e == EpochOf(p, vector'[p])
  <2>1. /\ vector' = [vector EXCEPT ![p] = vector'[p]]
        /\ vector'[p] \in Seed
        /\ vector'[p] # NoAccount
    BY <1>0, <1>2, InitializeStores
  <2>2. Current(p)' = e /\ [q \in Pda |-> Current(q)]' =
                              [[q \in Pda |-> Current(q)] EXCEPT ![p] = e]
    BY <1>0, <2>1, CurrentAfter
  <2>3. Entered' = Entered \union {<<p, e>>}
    BY <1>0, <1>2, InitializeEnters
  <2>4. e \in [seed : Seed, program : Program]
    BY <2>1, EpochType
  <2>5. \A q \in Pda : <<q, e>> \notin Entered
    BY <1>2, <2>1, EntersFresh
  <2>6. Current(p) = NoAccount
    BY <1>2 DEF Initialize, Current
  <2>7. Grants' = Grants /\ Acted' = Acted
    BY <1>2 DEF Initialize, Grants, Acted, GrantOf
  <2> HIDE DEF e
  <2>8. Promise!Open(p)
    BY <2>2, <2>3, <2>4, <2>5, <2>6, <2>7 DEF Promise!Open, Promise!Enter, Promise!Fresh
  <2>9. QED
    BY <2>8 DEF Promise!Next
<1>3. ASSUME NEW p \in Pda, NEW data \in SubIxData, Execute(p, data) PROVE Promise!Next
  <2> DEFINE e == EpochOf(p, vector'[p])
             d == DigestExecute(vector[p], p.program, data)
             g == GrantOf([pda |-> p, digest |-> d])
  <2>1. /\ vector' = [vector EXCEPT ![p] = vector'[p]]
        /\ vector[p] \in Seed
        /\ vector'[p] \in Seed
        /\ vector'[p] # NoAccount
    BY <1>0, <1>3, ExecuteStores
  <2>2. Current(p)' = e /\ [q \in Pda |-> Current(q)]' =
                              [[q \in Pda |-> Current(q)] EXCEPT ![p] = e]
    BY <1>0, <2>1, CurrentAfter
  <2>3. Entered' = Entered \union {<<p, e>>}
    BY <1>0, <1>3, ExecuteEnters
  <2>4. e \in [seed : Seed, program : Program]
    BY <2>1, EpochType
  <2>5. \A q \in Pda : <<q, e>> \notin Entered
    BY <1>3, <2>1, EntersFresh
  <2>6. /\ vector[p] # NoAccount /\ Authorized(p, d)
        /\ d \in Digest /\ d.seed = vector[p] /\ d.program = p.program
        /\ log' = Append(log, [pda |-> p, digest |-> d])
        /\ UNCHANGED <<files, signatures>>
    BY <1>3, <2>1, PdaFields, DigestTypes DEF Execute, DigestExecute
  <2> HIDE DEF d
  <2>7. /\ g \in Grants /\ g \notin Acted /\ g.account = p /\ g.epoch = Current(p)
        /\ Acted' = Acted \union {g} /\ Grants' = Grants
    BY <2>6, AcceptActs
  <2> HIDE DEF e, g
  <2>8. Promise!Continue(g)
    BY <2>2, <2>3, <2>4, <2>5, <2>7
       DEF Promise!Continue, Promise!ActOn, Promise!Enter, Promise!Fresh
  <2>9. QED
    BY <2>7, <2>8 DEF Promise!Next
<1>4. ASSUME NEW p \in Pda, NEW to \in Address, Close(p, to) PROVE Promise!Next
  <2> DEFINE d == DigestClose(vector[p], p.program, to)
             g == GrantOf([pda |-> p, digest |-> d])
  <2>1. /\ vector' = [vector EXCEPT ![p] = vector'[p]]
        /\ vector[p] \in Seed
        /\ vector'[p] = NoAccount
    BY <1>0, <1>4 DEF Close, TypeOK
  <2>2. [q \in Pda |-> Current(q)]' = [[q \in Pda |-> Current(q)] EXCEPT ![p] = NoAccount]
    BY <1>0, <2>1, CurrentAfter
  <2>3. Entered' = Entered
    BY <1>0, <1>4, CloseEnters
  <2>4. /\ vector[p] # NoAccount /\ Authorized(p, d)
        /\ d \in Digest /\ d.seed = vector[p] /\ d.program = p.program
        /\ log' = Append(log, [pda |-> p, digest |-> d])
        /\ UNCHANGED <<files, signatures>>
    BY <1>4, <2>1, PdaFields, DigestTypes DEF Close, DigestClose
  <2> HIDE DEF d
  <2>5. /\ g \in Grants /\ g \notin Acted /\ g.account = p /\ g.epoch = Current(p)
        /\ Acted' = Acted \union {g} /\ Grants' = Grants
    BY <2>4, AcceptActs
  <2> HIDE DEF g
  <2>6. Promise!Finish(g)
    BY <2>2, <2>3, <2>5 DEF Promise!Finish, Promise!ActOn
  <2>7. QED
    BY <2>5, <2>6 DEF Promise!Next
<1>5. ASSUME NEW p \in Pda, NEW d, confirmed[p] # NoAccount, Produce(p, d),
             d.seed = confirmed[p], d.program = p.program
      PROVE  UNCHANGED Promise!vars
  <2>1. UNCHANGED <<vector, log>>
    BY <1>5 DEF Produce
  <2>2. Grants' = Grants
    BY <1>5, ProduceGrantsNothing
  <2>3. QED
    BY <2>1, <2>2, Stutters
<1>6. ASSUME NEW p \in Pda, NEW data \in SubIxData, ConstructExecute(p, data)
      PROVE  UNCHANGED Promise!vars
  BY <1>5, <1>6 DEF ConstructExecute, DigestExecute
<1>7. ASSUME NEW p \in Pda, NEW to \in Address, ConstructClose(p, to)
      PROVE  UNCHANGED Promise!vars
  BY <1>5, <1>7 DEF ConstructClose, DigestClose
<1>8. ASSUME NEW f \in files, Sign(f) PROVE [Promise!Next]_(Promise!vars)
  <2>1. UNCHANGED <<vector, log>>
    BY <1>8 DEF Sign
  <2>2. /\ Grants' = Grants \union {GrantOf(f)}
        /\ <<GrantOf(f).account, GrantOf(f).epoch>> \in Entered
        /\ GrantOf(f) \in Promise!Grant
    BY <1>8, SignGrants
  <2>3. CASE GrantOf(f) \in Grants
    BY <2>1, <2>2, <2>3, Stutters
  <2>4. CASE GrantOf(f) \notin Grants
    <3>1. Entered' = Entered
      BY <2>1, OthersEnterNothing
    <3>2. Acted' = Acted
      BY <2>1 DEF Acted, GrantOf
    <3>3. [q \in Pda |-> Current(q)]' = [q \in Pda |-> Current(q)]
      BY <2>1 DEF Current, EpochOf
    <3>4. Promise!MakeGrant
      BY <2>2, <2>4, <3>1, <3>2, <3>3 DEF Promise!MakeGrant
    <3>5. QED
      BY <3>4 DEF Promise!Next
  <2>5. QED
    BY <2>3, <2>4
<1>9. QED
  BY <1>1, <1>2, <1>3, <1>4, <1>6, <1>7, <1>8 DEF Next

(* Whatever a node reports and whatever a file was made for is a seed some *)
(* account once held: no lag of the node, close or re-initialisation lets  *)
(* a command sign for a seed the program never stored.                     *)
THEOREM NothingInvented == Spec => []KnownEntered
<1>1. Init => KnownEntered
  BY DEF Init, KnownEntered
<1>2. Inv /\ KnownEntered /\ [Next]_vars => KnownEntered'
  BY KnownEnteredNext
<1>3. QED
  BY <1>1, <1>2, Invariant, PTL DEF Spec

(* The Vector program keeps the promise of OneShot: replay protection with *)
(* hashes, clocks, lagging views and files behaves like epochs that are    *)
(* never entered twice and grants that are acted on at most once.          *)
THEOREM OneShotImplemented == Spec => ImplementsOneShot
<1>1. Init => Promise!Init
  BY DEF Init, Promise!Init, Current, Entered, Grants, Acted
<1>2. Inv /\ KnownEntered /\ [Next]_vars => [Promise!Next]_(Promise!vars)
  BY StepImplements
<1>3. QED
  BY <1>1, <1>2, NothingInvented, Invariant, PTL DEF Spec, ImplementsOneShot, Promise!Spec
=============================================================================
