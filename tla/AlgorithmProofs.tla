--------------------------- MODULE AlgorithmProofs ---------------------------
(***************************************************************************)
(* Theorems about the parts that work on their own: the look at the        *)
(* precompile instruction, init-authority, what broadcast creates in front *)
(* of a signed list, the bytes of sub-instructions, and amounts.  The      *)
(* modules share no state and each section is about one of them.           *)
(***************************************************************************)
EXTENDS Precompile, InitAuthority, PreInstructions, SubInstructions, Amounts, Induction

-----------------------------------------------------------------------------
(* Precompile.  What the program accepts was signed, for data of any       *)
(* length, any keys and messages, and anything in other instructions: the  *)
(* native program verified the cells its offsets name; if all three are in *)
(* the instruction itself and the message is one cell long, those are the  *)
(* cells the program compares with its own.                                *)

(* The native program has run on an earlier instruction of its own, and    *)
(* "accepted" means that every check was passed.                           *)
VerifiedOnce ==
    /\ offsets \in Offsets
    /\ place = "before" /\ program = "ed25519" =>
          ixData \in Seq({Header} \union Cell) /\ NativeVerifies(offsets, ixData)
    /\ verdict = "accepted" => Accepts(offsets, ixData, expected.authority, expected.digest)

(* A slice of one cell is that cell. *)
LEMMA SliceOfOne ==
    ASSUME NEW S, NEW cells \in Seq(S), NEW i \in Nat, NEW x \in Slice(cells, i, 1)
    PROVE  Len(x) = 1 /\ x = <<cells[i + 1]>>
<1>1. i + 1 <= Len(cells) /\ x = SubSeq(cells, i + 1, i + 1)
  BY DEF Slice
<1>2. /\ SubSeq(cells, i + 1, i + 1) \in Seq(S)
      /\ Len(SubSeq(cells, i + 1, i + 1)) = 1
      /\ SubSeq(cells, i + 1, i + 1)[1] = cells[i + 1]
  <2>1. Len(cells) \in Nat
    OBVIOUS
  <2>2. i + 1 \in 1..Len(cells) + 1
    BY <1>1, <2>1
  <2>3. i + 1 \in (i + 1) - 1..Len(cells)
    BY <1>1, <2>1
  <2>4. QED
    BY <2>2, <2>3, SubSeqProperties
<1>3. <<cells[i + 1]>> \in Seq(S)
  BY <1>1
<1>4. x = <<cells[i + 1]>>
  <2> DEFINE z == <<cells[i + 1]>>
  <2>1. z \in Seq(S) /\ Len(z) = 1 /\ z[1] = cells[i + 1]
    BY <1>3
  <2>2. x \in Seq(S) /\ Len(x) = 1 /\ x[1] = cells[i + 1]
    BY <1>1, <1>2
  <2> HIDE DEF z
  <2>3. Len(x) = Len(z)
    BY <2>1, <2>2
  <2>4. \A j \in 1..Len(x) : x[j] = z[j]
    BY <2>1, <2>2
  <2>5. x = z
    BY <2>1, <2>2, <2>3, <2>4, SeqEqual
  <2>6. QED
    BY <2>5 DEF z
<1>5. QED
  BY <1>1, <1>2, <1>4

(* Before the look. *)
LEMMA PrecompileInitInv == PrecompileInit => VerifiedOnce
<1> SUFFICES ASSUME PrecompileInit PROVE VerifiedOnce
  OBVIOUS
<1>1. CASE place = "before" /\ program = "ed25519"
  <2>1. PICK n \in 0..MaxCells : \E cells \in [1..n -> Cell] : ixData = <<Header>> \o cells
    BY <1>1 DEF PrecompileInit
  <2> PICK cells \in [1..n -> Cell] : ixData = <<Header>> \o cells
    BY <2>1
  <2>2. cells \in Seq(Cell)
    <3>1. n \in Nat
      BY CellsAssumption
    <3>2. QED
      BY <3>1
  <2>3. ixData \in Seq({Header} \union Cell)
    BY <2>2
  <2>4. offsets \in Offsets /\ NativeVerifies(offsets, ixData)
    BY <1>1 DEF PrecompileInit
  <2>5. QED
    BY <2>3, <2>4 DEF PrecompileInit, VerifiedOnce
<1>2. CASE ~(place = "before" /\ program = "ed25519")
  <2>1. PICK k \in Key, m \in Message : offsets = Built(k, m).offsets
    BY <1>2 DEF PrecompileInit
  <2>2. offsets \in Offsets
    BY <2>1, CellsAssumption DEF Built, Offsets, Offset, Ref
  <2>3. QED
    BY <1>2, <2>2 DEF PrecompileInit, VerifiedOnce
<1>3. QED
  BY <1>1, <1>2 DEF PrecompileInit

(* The instruction stays; a verdict is what the checks say. *)
LEMMA PrecompileNextInv == VerifiedOnce /\ [Verify]_precompileVars => VerifiedOnce'
<1> SUFFICES ASSUME VerifiedOnce, [Verify]_precompileVars PROVE VerifiedOnce'
  OBVIOUS
<1>1. CASE Verify
  BY <1>1 DEF Verify, VerifiedOnce, Accepts, InOwnData, Fits, NativeVerifies, Slice, In
<1>2. CASE UNCHANGED precompileVars
  BY <1>2 DEF precompileVars, VerifiedOnce, Accepts, InOwnData, Fits, NativeVerifies, Slice, In
<1>3. QED
  BY <1>1, <1>2

(* What passed every check was signed by the authority. *)
LEMMA AcceptedSigned == VerifiedOnce => AcceptedWasSigned
<1> SUFFICES ASSUME VerifiedOnce, verdict = "accepted"
             PROVE  <<expected.authority, <<expected.digest>>>> \in Signed
  BY DEF AcceptedWasSigned
<1>1. /\ place = "before" /\ program = "ed25519"
      /\ InOwnData(offsets) /\ offsets.msgSize = 1
      /\ ixData[offsets.keyAt + 1] = expected.authority
      /\ ixData[offsets.msgAt + 1] = expected.digest
  BY DEF VerifiedOnce, Accepts
<1>2. ixData \in Seq({Header} \union Cell) /\ NativeVerifies(offsets, ixData)
  BY <1>1 DEF VerifiedOnce
<1>3. PICK s \in Slice(ixData, offsets.sigAt, 1), k \in Slice(ixData, offsets.keyAt, 1),
           m \in Slice(ixData, offsets.msgAt, 1) : <<k[1], m>> \in Signed
  BY <1>1, <1>2 DEF NativeVerifies, InOwnData, In
<1>4. offsets.keyAt \in Nat /\ offsets.msgAt \in Nat
  BY CellsAssumption DEF VerifiedOnce, Offsets, Offset
<1>5. k = <<expected.authority>> /\ m = <<expected.digest>>
  BY <1>1, <1>2, <1>4, SliceOfOne
<1>6. QED
  BY <1>3, <1>5

(* An accepted instruction shows that the authority signed the digest      *)
(* (precompile.rs:52-55), for data of any length.                          *)
THEOREM AcceptanceIsSound == PrecompileSpec => []AcceptedWasSigned
BY PrecompileInitInv, PrecompileNextInv, AcceptedSigned, PTL DEF PrecompileSpec

(* A rejected instruction did not pass every check. *)
Judged == verdict = "rejected" => ~Accepts(offsets, ixData, expected.authority, expected.digest)

(* It keeps so. *)
LEMMA JudgedAlways == PrecompileSpec => []Judged
<1>1. PrecompileInit => Judged
  BY DEF PrecompileInit, Judged
<1>2. Judged /\ [Verify]_precompileVars => Judged'
  BY DEF Judged, Verify, precompileVars, Accepts, Fits, InOwnData
<1>3. QED
  BY <1>1, <1>2, PTL DEF PrecompileSpec

(* The client's instruction for any key and message passes every check. *)
LEMMA BuiltPasses ==
    ASSUME NEW k, NEW m, place = "before", program = "ed25519",
           offsets = Built(k, m).offsets, ixData = Built(k, m).data
    PROVE  Accepts(offsets, ixData, k, m)
<1>1. ixData = <<Header, k, [key |-> k, over |-> <<m>>], m>>
  BY DEF Built
<1>2. Len(ixData) = 4 /\ ixData[2] = k /\ ixData[4] = m
  BY <1>1
<1>3. offsets = [num |-> 1, sigAt |-> 2, sigIn |-> SELF_REF, keyAt |-> 1, keyIn |-> SELF_REF,
                 msgAt |-> 3, msgSize |-> 1, msgIn |-> SELF_REF]
  BY DEF Built
<1>4. InOwnData(offsets) /\ Fits(offsets, ixData)
  BY <1>2, <1>3 DEF InOwnData, Fits
<1>5. QED
  BY <1>2, <1>3, <1>4 DEF Accepts

(* The program accepts what the client builds for a digest                 *)
(* (vector.ts:341-348, precompile.rs:9-93), for any key and message.       *)
THEOREM BuildingIsAccepted == PrecompileSpec => []BuiltIsAccepted
<1>1. Judged => BuiltIsAccepted
  <2> SUFFICES ASSUME Judged, verdict = "rejected", place = "before", program = "ed25519",
                      [offsets |-> offsets, data |-> ixData] = Built(expected.authority, expected.digest)
               PROVE  FALSE
    BY DEF BuiltIsAccepted
  <2>1. /\ offsets = Built(expected.authority, expected.digest).offsets
        /\ ixData = Built(expected.authority, expected.digest).data
    BY DEF Built
  <2>2. QED
    BY <2>1, BuiltPasses DEF Judged
<1>2. QED
  BY <1>1, JudgedAlways, PTL

-----------------------------------------------------------------------------
(* InitAuthority.                                                          *)

(* Whatever has been seen of the account, by a node or by a transaction    *)
(* that went through, there has been one.                                  *)
SeenWasThere ==
    /\ births \in Nat
    /\ tx \in [Operator -> {"none", "pending", "ok", "err", "dropped"}]
    /\ info \in [Operator -> BOOLEAN]
    /\ account # 0 => births > 0
    /\ node => births > 0
    /\ \A o \in Operator : tx[o] = "ok" => births > 0

(* No run yet. *)
LEMMA AuthorityInitInv == AuthorityInit => SeenWasThere
BY DEF AuthorityInit, SeenWasThere

(* What Include does: the account is born if it was not there. *)
LEMMA IncludeInv ==
    ASSUME SeenWasThere, Include
    PROVE  /\ births' \in Nat /\ births' >= births
           /\ account' # 0 => births' > 0
           /\ Succeeds(Exists) => births' > 0
BY DEF SeenWasThere, Include, Succeeds, Exists

(* A run sees what was there, whoever else initialises in between. *)
LEMMA AuthorityNextInv == SeenWasThere /\ [AuthorityNext]_authorityVars => SeenWasThere'
<1> SUFFICES ASSUME SeenWasThere, [AuthorityNext]_authorityVars PROVE SeenWasThere'
  OBVIOUS
<1> USE DEF SeenWasThere
<1>1. ASSUME NEW o \in Operator, Look(o) PROVE SeenWasThere'
  BY <1>1 DEF Look
<1>2. ASSUME NEW o \in Operator, Send(o) PROVE SeenWasThere'
  BY <1>2 DEF Send
<1>3. ASSUME NEW o \in Operator, Confirm(o) PROVE SeenWasThere'
  BY <1>3 DEF Confirm
<1>4. ASSUME NEW o \in Operator, Timeout(o) \/ Again(o) \/ Expire(o) PROVE SeenWasThere'
  BY <1>4 DEF Timeout, Again, Expire
<1>5. ASSUME NEW o \in Operator, Lands(o) PROVE SeenWasThere'
  BY <1>5, IncludeInv DEF Lands
<1>6. CASE LandAdrift
  BY <1>6, IncludeInv DEF LandAdrift
<1>7. CASE ExpireAdrift \/ CatchUp \/ Close
  <2>1. CASE ExpireAdrift
    BY <2>1 DEF ExpireAdrift
  <2>2. CASE CatchUp
    BY <2>2 DEF CatchUp, Exists
  <2>3. CASE Close
    BY <2>3 DEF Close
  <2>4. QED
    BY <1>7, <2>1, <2>2, <2>3
<1>8. CASE Spend
  BY <1>8 DEF Spend
<1>9. CASE Refill
  BY <1>9 DEF Refill
<1>10. CASE UNCHANGED authorityVars
  BY <1>10 DEF authorityVars
<1>11. QED
  BY <1>1, <1>2, <1>3, <1>4, <1>5, <1>6, <1>7, <1>8, <1>9, <1>10 DEF AuthorityNext

(* A file is written by Look, which saw the account, and by Confirm, whose *)
(* transaction went through or failed.                                     *)
LEMMA InfoStep ==
    SeenWasThere /\ [AuthorityNext]_authorityVars
      => [\A o \in Operator :
             info'[o] /\ ~info[o] => births > 0 \/ tx[o] = "err"]_authorityVars
<1> SUFFICES ASSUME SeenWasThere, [AuthorityNext]_authorityVars,
                    NEW o \in Operator, info'[o], ~info[o]
             PROVE  births > 0 \/ tx[o] = "err"
  OBVIOUS
<1>1. ASSUME NEW p \in Operator, Look(p) PROVE births > 0
  <2>1. node
    BY <1>1 DEF Look, SeenWasThere
  <2>2. QED
    BY <2>1 DEF SeenWasThere
<1>2. ASSUME NEW p \in Operator, Confirm(p) PROVE births > 0 \/ tx[o] = "err"
  <2>1. p = o
    BY <1>2 DEF Confirm, SeenWasThere
  <2>2. QED
    BY <1>2, <2>1 DEF Confirm, SeenWasThere
<1>3. CASE info' = info
  BY <1>3
<1>4. QED
  BY <1>1, <1>2, <1>3
     DEF AuthorityNext, Send, Timeout, Again, Lands, Expire, LandAdrift, ExpireAdrift,
         CatchUp, Close, Spend, Refill, authorityVars

(* Whoever writes vector-info.json, the authority has been initialised,    *)
(* unless the operator's own initialize was included and failed            *)
(* (init_authority.ts:40-66), for any number of operators, closes and      *)
(* payments.                                                               *)
THEOREM InfoIsTrue == AuthoritySpec => InfoMeansInitialized
<1>1. QED
  BY AuthorityInitInv, AuthorityNextInv, InfoStep, PTL DEF AuthoritySpec, InfoMeansInitialized

-----------------------------------------------------------------------------
(* PreInstructions.                                                        *)

(* Where broadcast is, and what has become of its transaction. *)
Stations == {"records", "tokens", "source", "threw", "sent", "landed", "failed"}

(* What is created is what the signed list gives to, whatever the meta     *)
(* says: a record because it is compared with the list, a token account    *)
(* because its address is taken from there.                                *)
CreatesSigned ==
    /\ at \in [loop : Stations, i : Nat]
    /\ pre \in Seq([op : {"CreateRecord", "CreateAta"}, account : Targets(unsigned.list)])
    /\ at.loop = "source" => at.i \in DOMAIN unsigned.list
    /\ PaysForSigned

(* Nothing assembled yet. *)
LEMMA PreInitInv == PreInit => CreatesSigned
BY DEF PreInit, CreatesSigned, PaysForSigned, Stations

(* Append keeps a sequence in its set. *)
LEMMA Appended ==
    ASSUME NEW S, NEW s \in Seq(S), NEW x \in S
    PROVE  Append(s, x) \in Seq(S)
OBVIOUS

(* Each instruction assembled is for an account of the signed list. *)
LEMMA PreNextInv == CreatesSigned /\ [PreNext]_preVars => CreatesSigned'
<1> SUFFICES ASSUME CreatesSigned, [PreNext]_preVars PROVE CreatesSigned'
  OBVIOUS
<1> USE DEF Stations
<1> DEFINE Creations == [op : {"CreateRecord", "CreateAta"}, account : Targets(unsigned.list)]
<1>0. /\ at \in [loop : Stations, i : Nat]
      /\ pre \in Seq(Creations) /\ PaysForSigned
  BY DEF CreatesSigned
<1>a. ASSUME UNCHANGED <<unsigned, paid>>, at.loop # "source", Skip PROVE CreatesSigned'
  <2>1. at' \in [loop : Stations, i : Nat] /\ at'.loop # "source" /\ pre' = pre
    BY <1>0, <1>a DEF Skip
  <2>2. QED
    BY <1>0, <1>a, <2>1 DEF CreatesSigned, PaysForSigned
<1>b. ASSUME UNCHANGED <<unsigned, paid>>, Throw PROVE CreatesSigned'
  <2>1. at' \in [loop : Stations, i : Nat] /\ at'.loop # "source" /\ pre' = pre
    BY <1>0, <1>b DEF Throw
  <2>2. QED
    BY <1>0, <1>b, <2>1 DEF CreatesSigned, PaysForSigned
<1>c. ASSUME UNCHANGED <<unsigned, paid>>, at.loop \in {"records", "source"},
             NEW creation \in Creations, Create(creation)
      PROVE  CreatesSigned'
  <2>1. pre' \in Seq(Creations)
    <3> HIDE DEF Creations
    <3>1. pre' = Append(pre, creation)
      BY <1>c DEF Create
    <3>2. QED
      BY <1>0, <1>c, <3>1, Appended
  <2>2. at' \in [loop : Stations, i : Nat] /\ at'.loop # "source"
    BY <1>0, <1>c DEF Create
  <2>3. QED
    BY <1>0, <1>c, <2>1, <2>2 DEF CreatesSigned, PaysForSigned
<1>1. CASE LookRecord
  <2>1. UNCHANGED <<unsigned, paid>> /\ at.loop = "records" /\ at.i \in DOMAIN unsigned.list
    BY <1>1 DEF LookRecord, Within
  <2>2. CASE /\ IsDeposit(sub, meta.program) /\ RecordMatches
             /\ Create([op |-> "CreateRecord", account |-> Record])
    <3>1. Target(sub) = Record
      BY <2>2 DEF IsDeposit, RecordMatches, Target, IsTransfer
    <3>2. Record \in Targets(unsigned.list)
      BY <2>1, <3>1 DEF Targets, sub
    <3>3. [op |-> "CreateRecord", account |-> Record] \in Creations
      BY <3>2
    <3>4. QED
      BY <1>c, <2>1, <2>2, <3>3
  <2>3. QED
    BY <1>1, <1>a, <1>b, <2>1, <2>2 DEF LookRecord
<1>2. CASE RecordsDone \/ TokensDone
  <2>1. UNCHANGED <<unsigned, pre, paid>>
    BY <1>2 DEF RecordsDone, TokensDone
  <2>2. at' \in {[loop |-> "tokens", i |-> 1], [loop |-> "sent", i |-> 0]}
    BY <1>2 DEF RecordsDone, TokensDone
  <2>3. at' \in [loop : Stations, i : Nat] /\ at'.loop # "source"
    BY <2>2
  <2>4. QED
    BY <1>0, <2>1, <2>3 DEF CreatesSigned, PaysForSigned
<1>3. CASE LookToken
  <2>1. UNCHANGED <<unsigned, paid>> /\ at.loop = "tokens" /\ at.i \in DOMAIN unsigned.list
    BY <1>3 DEF LookToken, Within
  <2>2. CASE at' = [at EXCEPT !.loop = "source"] /\ UNCHANGED pre
    <3>1. at' \in [loop : Stations, i : Nat] /\ at'.i = at.i
      BY <1>0, <2>2
    <3>2. QED
      BY <1>0, <2>1, <2>2, <3>1 DEF CreatesSigned, PaysForSigned
  <2>3. QED
    BY <1>3, <1>a, <2>1, <2>2 DEF LookToken
<1>4. CASE LookSource
  <2>1. UNCHANGED <<unsigned, paid>> /\ at.loop = "source" /\ at.i \in DOMAIN unsigned.list
    BY <1>4 DEF LookSource, Within
  <2>2. [op |-> "CreateAta", account |-> Target(sub)] \in Creations
    BY <2>1 DEF Targets, sub
  <2>3. QED
    BY <1>4, <1>b, <1>c, <2>1, <2>2 DEF LookSource
<1>5. CASE Land
  <2>1. \A i \in DOMAIN pre : pre[i].account \in Targets(unsigned.list)
    <3>1. ASSUME NEW i \in DOMAIN pre PROVE pre[i] \in Creations
      <4> HIDE DEF Creations
      <4>1. QED
        BY <1>0
    <3>2. QED
      BY <3>1
  <2>2. UNCHANGED <<unsigned, pre>> /\ at' \in [loop : Stations, i : Nat] /\ at'.loop # "source"
    <3>1. at' \in {[at EXCEPT !.loop = "landed"], [at EXCEPT !.loop = "failed"]}
      BY <1>5 DEF Land
    <3>2. QED
      BY <1>0, <1>5, <3>1 DEF Land
  <2>3. PaysForSigned'
    BY <1>0, <1>5, <2>1 DEF Land, PaysForSigned
  <2>4. QED
    BY <1>0, <2>2, <2>3 DEF CreatesSigned
<1>6. CASE Churn
  BY <1>6 DEF CreatesSigned, PaysForSigned, Churn
<1>7. CASE UNCHANGED preVars
  BY <1>7 DEF CreatesSigned, PaysForSigned, preVars
<1>8. QED
  BY <1>1, <1>2, <1>3, <1>4, <1>5, <1>6, <1>7 DEF PreNext

(* The hot wallet pays for no account that the signed list does not give   *)
(* to (broadcast.ts:186-190, 299-302), for any meta and however often      *)
(* accounts come and go.                                                   *)
THEOREM NothingElsePaid == PreSpec => []PaysForSigned
<1>1. CreatesSigned => PaysForSigned
  BY DEF CreatesSigned
<1>2. QED
  BY <1>1, PreInitInv, PreNextInv, PTL DEF PreSpec

-----------------------------------------------------------------------------
(* PreInstructions, a file as a command built it.                          *)

(* The one instruction of such a file, and the account it gives to. *)
Only == unsigned.list[1]
Receiver == Target(Only)

(* The file and its meta fit: one instruction, and what the meta says is   *)
(* what the accounts were derived from.                                    *)
TransferFits ==
    /\ IsTransfer(Only)
    /\ meta.program = Default
    /\ meta.recipient # Default
    /\ Ata(MintOf(Source(Only)), meta.recipient) = Receiver

DepositFits ==
    /\ ~IsTransfer(Only)
    /\ IsDeposit(Only, meta.program)
    /\ Default \notin {meta.program, meta.realm, meta.mint}
    /\ Tor(meta.program, meta.realm, meta.mint, Only.keys[4].key) = Only.keys[6].key

(* The accounts a written list names are the ones broadcast looks for. *)
LEMMA WrittenFits ==
    ASSUME unsigned \in Written
    PROVE  /\ Len(unsigned.list) = 1 /\ DOMAIN unsigned.list = {1}
           /\ Sources(unsigned.list) = {Source(Only)}
           /\ Targets(unsigned.list) = {Receiver}
           /\ TransferFits \/ DepositFits
<1>1. CASE unsigned \in TransferFiles
  <2>1. PICK m \in Mint, o \in Owner :
           unsigned = [list |-> TokenTransfer(m, o, 1), meta |-> [NoMeta EXCEPT !.recipient = o]]
    BY <1>1 DEF TransferFiles
  <2>2. /\ Len(unsigned.list) = 1 /\ DOMAIN unsigned.list = {1}
        /\ Only = Ix(Token, "Transfer", <<1>>,
                     <<Meta(Ata(m, Vault), TRUE, FALSE), Meta(Ata(m, o), TRUE, FALSE),
                       Meta(Vault, FALSE, TRUE)>>)
    BY <2>1 DEF TokenTransfer, Only
  <2>3. IsTransfer(Only) /\ Source(Only) = Ata(m, Vault) /\ Receiver = Ata(m, o)
    BY <2>2 DEF IsTransfer, Source, Receiver, Target, Ix, Meta
  <2>4. meta.program = Default /\ meta.recipient = o /\ o # Default
    BY <2>1, PreAssumption DEF meta, NoMeta
  <2>5. MintOf(Ata(m, Vault)) = m
    BY DEF MintOf, Ata
  <2>6. TransferFits
    BY <2>3, <2>4, <2>5 DEF TransferFits
  <2>7. QED
    BY <2>2, <2>6 DEF Sources, Targets, Only, Receiver
<1>2. CASE unsigned \in DepositFiles
  <2> DEFINE made(p, r, m) == [list |-> GovernanceDeposit(p, r, m, 1),
                 meta |-> [NoMeta EXCEPT !.program = p, !.realm = r, !.mint = m]]
  <2>0. DepositFiles = {made(p, r, m) : p \in GovernanceProgram, r \in Realm, m \in Mint}
    BY DEF DepositFiles
  <2>1. PICK p \in GovernanceProgram, r \in Realm, m \in Mint : unsigned = made(p, r, m)
    <3> HIDE DEF made
    <3>1. QED
      BY <1>2, <2>0
  <2> DEFINE keys == <<Meta(r, FALSE, FALSE), Meta(Holding(p, r, m), TRUE, FALSE),
                       Meta(Ata(m, Vault), TRUE, FALSE), Meta(Vault, FALSE, TRUE),
                       Meta(Vault, FALSE, TRUE), Meta(Tor(p, r, m, Vault), TRUE, FALSE),
                       Meta(Payer, TRUE, TRUE)>>
             deposit == Ix(p, "Deposit", <<1>>, keys)
  <2>2. /\ Len(unsigned.list) = 1 /\ DOMAIN unsigned.list = {1}
        /\ Only = StripNonVaultSigners(deposit)
    BY <2>1 DEF GovernanceDeposit, Only, TakeIx, Last
  <2>3. /\ Only.program = p /\ Only.op = "Deposit"
        /\ Only.keys = [i \in DOMAIN keys |-> Meta(keys[i].key, keys[i].w, keys[i].s /\ keys[i].key = Vault)]
    BY <2>2 DEF StripNonVaultSigners, Ix
  <2>4. /\ DOMAIN keys = 1..7
        /\ keys[4].key = Vault /\ keys[6].key = Tor(p, r, m, Vault)
    BY DEF Meta
  <2>5. /\ Len(Only.keys) = 7
        /\ Only.keys[4].key = Vault /\ Only.keys[6].key = Tor(p, r, m, Vault)
    <3> HIDE DEF keys
    <3>1. QED
      BY <2>3, <2>4 DEF Meta
  <2>6. /\ meta.program = p /\ meta.realm = r /\ meta.mint = m
        /\ Default \notin {meta.program, meta.realm, meta.mint}
    BY <2>1, PreAssumption DEF meta, NoMeta
  <2>7. DepositFits
    BY <2>3, <2>5, <2>6 DEF DepositFits, IsTransfer, IsDeposit
  <2>8. QED
    BY <2>2, <2>7 DEF Sources, Targets, Only, Receiver
<1>3. QED
  BY <1>1, <1>2 DEF Written

(* While accounts neither come nor go, a file that fits is on its way:     *)
(* what it gives to is there, or is created, once, by the loop whose       *)
(* business it is.                                                         *)
Created == {<<[op |-> op, account |-> Receiver]>> : op \in {"CreateRecord", "CreateAta"}}

Provided ==
    IF Receiver \in accounts THEN pre = <<>> ELSE pre \in Created

OnItsWay ==
    /\ at \in [loop : Stations \ {"threw", "failed"}, i : Nat]
    /\ at.loop \in {"records", "tokens"} => at.i \in {1, 2}
    /\ at.loop = "records" /\ at.i = 1 => pre = <<>>
    /\ \/ at.loop = "records" /\ at.i = 2
       \/ at.loop = "tokens" /\ at.i = 1
       => IF IsTransfer(Only) THEN pre = <<>> ELSE Provided
    /\ at.loop = "source" =>
          at.i = 1 /\ pre = <<>> /\ IsTransfer(Only) /\ Receiver \notin accounts
    /\ at.loop = "tokens" /\ at.i = 2 => Provided
    /\ at.loop = "sent" => Provided

Undisturbed ==
    unsigned \in Written /\ Sources(unsigned.list) \subseteq accounts /\ churn = 0

HonestOnItsWay == churn \in Nat /\ (Undisturbed => OnItsWay)

(* Nothing was sent yet. *)
LEMMA OnItsWayInit == PreInit => HonestOnItsWay
BY DEF PreInit, HonestOnItsWay, OnItsWay, Stations

(* The instructions in front, then the execute. *)
LEMMA Assembly ==
    ASSUME NEW x, NEW y, NEW z
    PROVE  /\ Append(<<>>, y) \o <<z>> = <<y, z>>
           /\ Append(<<x>>, y) \o <<z>> = <<x, y, z>>
<1> DEFINE S == {x, y, z}
<1>1. <<>> \in Seq(S) /\ <<x>> \in Seq(S) /\ <<z>> \in Seq(S)
  OBVIOUS
<1>2. ASSUME NEW s \in Seq(S), NEW t \in Seq(S), t = Append(s, y) \o <<z>>
      PROVE  /\ Len(t) = Len(s) + 2
             /\ \A i \in 1..Len(s) : t[i] = s[i]
             /\ t[Len(s) + 1] = y /\ t[Len(s) + 2] = z
  <2>1. /\ Append(s, y) \in Seq(S) /\ Len(Append(s, y)) = Len(s) + 1
        /\ \A i \in 1..Len(s) : Append(s, y)[i] = s[i]
        /\ Append(s, y)[Len(s) + 1] = y
    BY <1>2, AppendProperties
  <2>2. Len(<<z>>) = 1 /\ <<z>>[1] = z
    OBVIOUS
  <2>3. QED
    BY <1>1, <1>2, <2>1, <2>2, ConcatProperties
<1>3. Append(<<>>, y) \o <<z>> = <<y, z>>
  <2> DEFINE t == Append(<<>>, y) \o <<z>>
  <2>1. t \in Seq(S)
    OBVIOUS
  <2>2. Len(t) = 2 /\ t[1] = y /\ t[2] = z
    <3> HIDE DEF t
    <3>1. t = Append(<<>>, y) \o <<z>>
      BY DEF t
    <3>2. QED
      BY <1>1, <1>2, <2>1, <3>1
  <2> HIDE DEF t
  <2>3. t = <<y, z>>
    BY <2>1, <2>2
  <2>4. QED
    BY <2>3 DEF t
<1>4. Append(<<x>>, y) \o <<z>> = <<x, y, z>>
  <2> DEFINE t == Append(<<x>>, y) \o <<z>>
  <2>1. t \in Seq(S)
    OBVIOUS
  <2>2. Len(t) = 3 /\ t[1] = x /\ t[2] = y /\ t[3] = z
    <3> HIDE DEF t
    <3>1. t = Append(<<x>>, y) \o <<z>>
      BY DEF t
    <3>2. Len(<<x>>) = 1 /\ <<x>>[1] = x
      OBVIOUS
    <3>3. QED
      BY <1>1, <1>2, <2>1, <3>1, <3>2
  <2> HIDE DEF t
  <2>3. t = <<x, y, z>>
    BY <2>1, <2>2
  <2>4. QED
    BY <2>3 DEF t
<1>5. QED
  BY <1>3, <1>4

(* What is sent runs: the account is created once if at all, and the       *)
(* program is pointed to the precompile instruction behind it.             *)
LEMMA ProvidedRuns ==
    ASSUME Undisturbed, Provided
    PROVE  Runs
<1> DEFINE created == {pre[i].account : i \in DOMAIN pre}
<1>1. Sources(unsigned.list) \subseteq accounts /\ Targets(unsigned.list) = {Receiver}
  BY WrittenFits DEF Undisturbed
<1>2. CASE Receiver \in accounts
  <2>1. pre = <<>>
    BY <1>2 DEF Provided
  <2>2. created = {} /\ Cardinality(created) = 0 /\ Len(pre) = 0
    BY <2>1, FS_EmptySet
  <2>3. Assembled = <<[op |-> "Ed25519"], [op |-> "Execute", index |-> 0]>>
    BY <2>1, Assembly DEF Assembled, Ed25519Index
  <2>4. Assembled[Last(Assembled).index + 1].op = "Ed25519"
    BY <2>3 DEF Last
  <2>5. QED
    BY <1>1, <1>2, <2>2, <2>4 DEF Runs
<1>3. CASE Receiver \notin accounts
  <2>1. PICK op \in {"CreateRecord", "CreateAta"} : pre = <<[op |-> op, account |-> Receiver]>>
    BY <1>3 DEF Provided, Created
  <2>2. created = {Receiver} /\ Cardinality(created) = 1 /\ Len(pre) = 1
    BY <2>1, FS_Singleton
  <2>3. Assembled = <<[op |-> op, account |-> Receiver], [op |-> "Ed25519"],
                      [op |-> "Execute", index |-> 1]>>
    BY <2>1, Assembly DEF Assembled, Ed25519Index
  <2>4. Assembled[Last(Assembled).index + 1].op = "Ed25519"
    BY <2>3 DEF Last
  <2>5. QED
    BY <1>1, <1>3, <2>2, <2>4 DEF Runs
<1>4. QED
  BY <1>2, <1>3

(* The steps of an undisturbed broadcast, one station after the other. *)
LEMMA OnItsWayNext ==
    CreatesSigned /\ HonestOnItsWay /\ [PreNext]_preVars => HonestOnItsWay'
<1> SUFFICES ASSUME CreatesSigned, HonestOnItsWay, [PreNext]_preVars PROVE HonestOnItsWay'
  OBVIOUS
<1> USE DEF Stations
<1>0. at \in [loop : Stations, i : Nat]
  BY DEF CreatesSigned
<1>1. CASE Churn
  BY <1>1 DEF Churn, HonestOnItsWay, Undisturbed
<1>2. CASE UNCHANGED preVars
  BY <1>2 DEF preVars, HonestOnItsWay, Undisturbed, OnItsWay, Provided, Created, Receiver, Only
<1>3. CASE Land
  <2>1. SUFFICES ASSUME Undisturbed' PROVE OnItsWay'
    BY <1>3 DEF Land, HonestOnItsWay
  <2>2. Runs
    <3>1. SUFFICES ASSUME ~Runs PROVE FALSE
      OBVIOUS
    <3>2. Undisturbed
      BY <1>3, <2>1, <3>1 DEF Land, Undisturbed
    <3>3. Provided
      BY <1>3, <3>2 DEF HonestOnItsWay, OnItsWay, Land
    <3>4. QED
      BY <3>1, <3>2, <3>3, ProvidedRuns
  <2>3. at' = [at EXCEPT !.loop = "landed"]
    BY <1>3, <2>2 DEF Land
  <2>4. at' \in [loop : {"landed"}, i : Nat]
    BY <1>0, <2>3
  <2>5. QED
    BY <2>4 DEF OnItsWay
<1>4. CASE LookRecord \/ RecordsDone \/ LookToken \/ LookSource \/ TokensDone
  <2>1. UNCHANGED <<unsigned, accounts, churn>>
    BY <1>4 DEF LookRecord, RecordsDone, LookToken, LookSource, TokensDone
  <2>2. SUFFICES ASSUME Undisturbed PROVE OnItsWay'
    BY <2>1 DEF Undisturbed, HonestOnItsWay
  <2>3. OnItsWay
    BY <2>2 DEF HonestOnItsWay
  <2>4. /\ Len(unsigned.list) = 1 /\ DOMAIN unsigned.list = {1}
        /\ Source(Only) \in accounts
        /\ TransferFits \/ DepositFits
    BY <2>2, WrittenFits DEF Undisturbed
  <2>5. Receiver' = Receiver /\ Only' = Only
    BY <2>1 DEF Receiver, Only
  <2>6. Provided' <=> IF Receiver \in accounts THEN pre' = <<>> ELSE pre' \in Created
    BY <2>1, <2>5 DEF Provided, Created
  <2>7. ASSUME NEW op \in {"CreateRecord", "CreateAta"}, pre = <<>>,
               Create([op |-> op, account |-> Receiver])
        PROVE  pre' \in Created
    BY <2>7 DEF Create, Created
  <2>8. CASE LookRecord
    <3>1. at.loop = "records" /\ at.i = 1 /\ sub = Only /\ pre = <<>>
      BY <2>3, <2>4, <2>8 DEF LookRecord, Within, sub, Only, OnItsWay
    <3>2. ASSUME Skip, IsTransfer(Only) \/ Receiver \in accounts PROVE OnItsWay'
      <4>1. at' = [at EXCEPT !.i = 2] /\ pre' = <<>>
        BY <3>1, <3>2 DEF Skip
      <4>2. at' \in [loop : {"records"}, i : {2}]
        BY <1>0, <3>1, <4>1
      <4>3. QED
        BY <2>5, <2>6, <3>2, <4>1, <4>2 DEF OnItsWay
    <3>3. CASE TransferFits
      BY <2>8, <3>1, <3>2, <3>3 DEF LookRecord, TransferFits
    <3>4. CASE DepositFits /\ Receiver \in accounts
      BY <2>8, <3>1, <3>2, <3>4 DEF LookRecord, DepositFits, Receiver, Target
    <3>5. CASE DepositFits /\ Receiver \notin accounts
      <4>1. Record = Receiver /\ RecordMatches
        BY <3>1, <3>5 DEF DepositFits, Record, RecordMatches, Receiver, Target
      <4>2. Create([op |-> "CreateRecord", account |-> Receiver])
        BY <2>8, <3>1, <3>5, <4>1 DEF LookRecord, DepositFits, Receiver, Target
      <4>3. pre' \in Created
        BY <2>7, <3>1, <4>2
      <4>4. at' \in [loop : {"records"}, i : {2}]
        BY <3>1, <4>2 DEF Create
      <4>5. QED
        BY <2>5, <2>6, <3>5, <4>3, <4>4 DEF OnItsWay, DepositFits
    <3>6. QED
      BY <2>4, <3>3, <3>4, <3>5
  <2>9. CASE RecordsDone
    <3>1. at.loop = "records" /\ at.i = 2 /\ at' = [loop |-> "tokens", i |-> 1] /\ pre' = pre
      BY <2>4, <2>9 DEF RecordsDone
    <3>2. IF IsTransfer(Only) THEN pre = <<>> ELSE Provided
      BY <2>3, <3>1 DEF OnItsWay
    <3>3. Provided <=> Provided'
      BY <2>6, <3>1 DEF Provided
    <3>4. QED
      BY <2>5, <3>1, <3>2, <3>3 DEF OnItsWay
  <2>10. CASE LookToken
    <3>1. at.loop = "tokens" /\ at.i = 1 /\ sub = Only
      BY <2>3, <2>4, <2>10 DEF LookToken, Within, sub, Only, OnItsWay
    <3>2. IF IsTransfer(Only) THEN pre = <<>> ELSE Provided
      BY <2>3, <3>1 DEF OnItsWay
    <3>3. CASE ~IsTransfer(Only) \/ Receiver \in accounts
      <4>1. at' = [at EXCEPT !.i = 2] /\ pre' = pre
        BY <2>10, <3>1, <3>3 DEF LookToken, Receiver, Skip
      <4>2. at' \in [loop : {"tokens"}, i : {2}]
        BY <1>0, <3>1, <4>1
      <4>3. Provided'
        BY <2>6, <3>2, <3>3, <4>1 DEF Provided
      <4>4. QED
        BY <4>2, <4>3 DEF OnItsWay
    <3>4. CASE IsTransfer(Only) /\ Receiver \notin accounts
      <4>1. at' = [at EXCEPT !.loop = "source"] /\ pre' = pre
        BY <2>10, <3>1, <3>4 DEF LookToken, Receiver
      <4>2. at' \in [loop : {"source"}, i : {1}]
        BY <1>0, <3>1, <4>1
      <4>3. QED
        BY <2>1, <2>5, <3>2, <3>4, <4>1, <4>2 DEF OnItsWay
    <3>5. QED
      BY <3>3, <3>4
  <2>11. CASE LookSource
    <3>1. /\ at.loop = "source" /\ at.i = 1 /\ sub = Only /\ pre = <<>>
          /\ IsTransfer(Only) /\ Receiver \notin accounts
      BY <2>3, <2>11 DEF LookSource, Within, OnItsWay, sub, Only
    <3>2. TransferFits
      BY <2>4, <3>1 DEF DepositFits
    <3>3. Create([op |-> "CreateAta", account |-> Receiver])
      BY <2>4, <2>11, <3>1, <3>2 DEF LookSource, TransferFits, Receiver
    <3>4. pre' \in Created
      BY <2>7, <3>1, <3>3
    <3>5. at' \in [loop : {"tokens"}, i : {2}]
      BY <3>1, <3>3 DEF Create
    <3>6. QED
      BY <2>6, <3>1, <3>4, <3>5 DEF OnItsWay
  <2>12. CASE TokensDone
    <3>1. at.loop = "tokens" /\ at.i = 2 /\ at' = [loop |-> "sent", i |-> 0] /\ pre' = pre
      BY <2>4, <2>12 DEF TokensDone
    <3>2. Provided /\ Provided'
      BY <2>3, <2>6, <3>1 DEF OnItsWay, Provided
    <3>3. QED
      BY <3>1, <3>2 DEF OnItsWay
  <2>13. QED
    BY <1>4, <2>8, <2>9, <2>10, <2>11, <2>12
<1>5. QED
  BY <1>1, <1>2, <1>3, <1>4 DEF PreNext

(* A file as a command built it goes through, unless an account comes or   *)
(* goes meanwhile (broadcast.ts:152-162, 211-221), for any mints, owners,  *)
(* realms and deployments of SPL Governance.                               *)
THEOREM HonestFilesLand == PreSpec => []HonestLands
<1>1. HonestOnItsWay => HonestLands
  BY DEF HonestOnItsWay, Undisturbed, OnItsWay, HonestLands, Stations
<1>2. QED
  BY <1>1, PreInitInv, PreNextInv, OnItsWayInit, OnItsWayNext, PTL DEF PreSpec

-----------------------------------------------------------------------------
(* SubInstructions.  The decoder stays within its input, whatever the      *)
(* input: bytes of any width, keys of any length, data of any length and   *)
(* content.  From a cursor within the data the check in front of a read    *)
(* covers the bytes it takes (ReadFits), and the read leaves the cursor    *)
(* within the data; what the data says (counts, lengths) only has to be a  *)
(* natural number.                                                         *)
(*                                                                         *)
(* That decoding and encoding are inverse takes two more invariants.       *)
(* Reread: what has been read, encoded again, is what stood there but for  *)
(* the spare bits of flags.  Replayed: what has been read of an encoded    *)
(* list is the beginning of that list.                                     *)

Reads == {"num_ixs", "program", "num_accounts", "account", "data_len", "data"}

(* The cursor is within the data; so are the lengths that move it naturals. *)
WithinData ==
    /\ data \in Seq(Byte)
    /\ cur \in Nat
    /\ cur <= Len(data)
    /\ next \in Reads \union {"end", "ok", "error"}
    /\ todo \in [ixs : Int, accounts : Int, data : Nat]

(* A check that passes covers the read behind it. *)
LEMMA ReadFits ==
    ASSUME WithinData, next \in Reads, Room
    PROVE  Readable
<1>1. /\ data \in Seq(Byte) /\ Len(data) \in Nat /\ cur \in Nat /\ KEY \in Nat
      /\ todo.data \in Nat /\ DOMAIN data = 1..Len(data)
  BY KeyAssumption DEF WithinData
<1>2. CASE next \in {"num_ixs", "num_accounts"}
  BY <1>1, <1>2 DEF Room, Checked, Readable, Taken
<1>3. CASE next = "program"
  BY <1>1, <1>3 DEF Room, Checked, Readable, Taken
<1>4. CASE next = "account"
  BY <1>1, <1>4 DEF Room, Checked, Readable, Taken
<1>5. CASE next = "data_len"
  BY <1>1, <1>5 DEF Room, Checked, Readable, Taken
<1>6. CASE next = "data"
  BY <1>1, <1>6 DEF Room, Checked, Readable, Taken
<1>7. QED
  BY <1>2, <1>3, <1>4, <1>5, <1>6 DEF Reads

(* A byte that a read takes is a byte. *)
LEMMA TakenByte ==
    ASSUME WithinData, Readable, NEW i \in Taken
    PROVE  data[i] \in Byte /\ data[i] \in Nat
<1>1. i \in 1..Len(data) /\ data \in Seq(Byte)
  BY DEF WithinData, Readable
<1>2. data[i] \in Byte
  BY <1>1, ElementOfSeq
<1>3. QED
  BY <1>2, ByteAssumption DEF Byte

(* Nothing read yet. *)
LEMMA DecoderInitInv == DecoderInit => WithinData
<1> SUFFICES ASSUME DecoderInit PROVE WithinData
  OBVIOUS
<1>1. data \in Seq(Byte)
  BY ReceivedAssumption DEF DecoderInit
<1>2. Len(data) \in Nat
  BY <1>1
<1>3. QED
  BY <1>1, <1>2 DEF DecoderInit, WithinData, Reads

(* No read moves the cursor past the end. *)
LEMMA DecoderNextInv == WithinData /\ [DecoderNext]_decoderVars => WithinData'
<1> SUFFICES ASSUME WithinData, [DecoderNext]_decoderVars PROVE WithinData'
  OBVIOUS
<1> USE DEF Reads
<1>0. /\ data \in Seq(Byte) /\ Len(data) \in Nat /\ cur \in Nat /\ KEY \in Nat
      /\ todo \in [ixs : Int, accounts : Int, data : Nat]
  BY KeyAssumption DEF WithinData
<1>1. CASE NumIxs
  <2>1. cur + 1 <= Len(data) /\ cur' = cur + 1 /\ data' = data
    BY <1>1 DEF NumIxs, Readable, Room, Checked
  <2>2. data[cur + 1] \in Nat
    BY <1>1, TakenByte DEF NumIxs, Taken
  <2>3. QED
    BY <1>0, <1>1, <2>1, <2>2 DEF NumIxs, WithinData
<1>2. CASE Program
  <2>1. cur + KEY <= Len(data) /\ cur' = cur + KEY /\ data' = data
    BY <1>2 DEF Program, Readable, Room, Checked
  <2>2. QED
    BY <1>0, <1>2, <2>1 DEF Program, WithinData
<1>3. CASE NumAccounts
  <2>1. cur + 1 <= Len(data) /\ cur' = cur + 1 /\ data' = data
    BY <1>3 DEF NumAccounts, Readable, Room, Checked
  <2>2. data[cur + 1] \in Nat
    BY <1>3, TakenByte DEF NumAccounts, Taken
  <2>3. QED
    BY <1>0, <1>3, <2>1, <2>2 DEF NumAccounts, WithinData
<1>4. CASE Account
  <2>1. cur + (KEY + 1) <= Len(data) /\ cur' = cur + KEY + 1 /\ data' = data
    BY <1>4 DEF Account, Readable, Room, Checked
  <2>2. todo' = [todo EXCEPT !.accounts = @ - 1] /\ next' \in Reads
    BY <1>4 DEF Account
  <2>3. QED
    BY <1>0, <2>1, <2>2 DEF WithinData
<1>5. CASE DataLen
  <2>1. cur + 2 <= Len(data) /\ cur' = cur + 2 /\ data' = data
    BY <1>5 DEF DataLen, Readable, Room, Checked
  <2>2. data[cur + 1] \in Nat /\ data[cur + 2] \in Nat
    BY <1>5, TakenByte DEF DataLen, Taken
  <2>3. data[cur + 1] + BYTE * data[cur + 2] \in Nat
    <3> DEFINE high == data[cur + 2]
    <3>1. high \in Nat /\ BYTE \in Nat
      BY <2>2, ByteAssumption
    <3> HIDE DEF high
    <3>2. BYTE * high \in Nat
      BY <3>1
    <3>3. BYTE * data[cur + 2] \in Nat
      BY <3>2 DEF high
    <3>4. QED
      BY <2>2, <3>3
  <2>4. QED
    BY <1>0, <1>5, <2>1, <2>3 DEF DataLen, WithinData
<1>6. CASE Data
  <2>1. cur + todo.data <= Len(data) /\ cur' = cur + todo.data /\ data' = data
    BY <1>6 DEF Data, Readable, Room, Checked
  <2>2. todo' \in [ixs : Int, accounts : Int, data : Nat]
    <3>1. todo' = [todo EXCEPT !.ixs = todo.ixs - 1, !.data = 0]
      BY <1>6 DEF Data
    <3>2. todo.ixs - 1 \in Int
      BY <1>0
    <3>3. QED
      BY <1>0, <3>1, <3>2
  <2>3. next' \in {"end", "program"}
    BY <1>6 DEF Data
  <2>4. QED
    BY <1>0, <2>1, <2>2, <2>3 DEF WithinData
<1>7. CASE Abort
  <2>1. next \in Reads /\ ~Readable
    BY <1>7 DEF Abort, WithinData
  <2>2. ~Room
    BY <2>1, ReadFits
  <2>3. QED
    BY <1>7, <2>2 DEF Abort, WithinData
<1>8. CASE End
  BY <1>8 DEF End, WithinData
<1>9. CASE UNCHANGED decoderVars
  BY <1>9 DEF decoderVars, WithinData
<1>10. QED
  BY <1>1, <1>2, <1>3, <1>4, <1>5, <1>6, <1>7, <1>8, <1>9 DEF DecoderNext

(* Whatever bytes arrive, no read of the decoder panics                    *)
(* (sub_instructions.rs:36-71).                                            *)
THEOREM DecoderNeverPanics == DecoderSpec => []NeverPanics
<1>1. WithinData => NeverPanics
  BY DEF WithinData, Reads, NeverPanics
<1>2. QED
  BY <1>1, DecoderInitInv, DecoderNextInv, PTL DEF DecoderSpec

-----------------------------------------------------------------------------
(* The bytes a stand at an offset, and they stand there but for the spare  *)
(* bits of a flag byte.                                                    *)
Lies(bytes, a, from) ==
    /\ from + Len(a) <= Len(bytes)
    /\ \A i \in 1..Len(a) : bytes[from + i] = a[i]

Agrees(bytes, a, from) ==
    /\ from + Len(a) <= Len(bytes)
    /\ \A i \in 1..Len(a) : a[i] \in {bytes[from + i], bytes[from + i] % 4}

(* Two pieces that stand one after the other. *)
LEMMA LiesConcat ==
    ASSUME NEW bytes \in Seq(Byte), NEW from \in Nat, NEW a \in Seq(Nat), NEW b \in Seq(Nat),
           Lies(bytes, a \o b, from)
    PROVE  Lies(bytes, a, from) /\ Lies(bytes, b, from + Len(a))
<1> DEFINE ab == a \o b
<1>1. /\ Len(a) \in Nat /\ Len(b) \in Nat /\ Len(bytes) \in Nat
      /\ Len(ab) = Len(a) + Len(b)
      /\ \A i \in 1..Len(a) + Len(b) : ab[i] = IF i <= Len(a) THEN a[i] ELSE b[i - Len(a)]
  BY ConcatProperties
<1>2. from + Len(ab) <= Len(bytes) /\ \A i \in 1..Len(ab) : bytes[from + i] = ab[i]
  BY DEF Lies
<1> HIDE DEF ab
<1>3. ASSUME NEW i \in 1..Len(a) PROVE bytes[from + i] = a[i]
  <2>1. i \in 1..Len(a) + Len(b) /\ i <= Len(a)
    BY <1>1
  <2>2. QED
    BY <1>1, <1>2, <2>1
<1>4. ASSUME NEW i \in 1..Len(b) PROVE bytes[(from + Len(a)) + i] = b[i]
  <2>1. /\ Len(a) + i \in 1..Len(a) + Len(b) /\ ~(Len(a) + i <= Len(a))
        /\ (Len(a) + i) - Len(a) = i /\ from + (Len(a) + i) = (from + Len(a)) + i
    BY <1>1
  <2>2. bytes[from + (Len(a) + i)] = ab[Len(a) + i] /\ ab[Len(a) + i] = b[i]
    BY <1>1, <1>2, <2>1
  <2>3. QED
    BY <2>1, <2>2
<1>5. from + Len(a) <= Len(bytes) /\ (from + Len(a)) + Len(b) <= Len(bytes)
  BY <1>1, <1>2
<1>6. QED
  BY <1>3, <1>4, <1>5 DEF Lies

(* The same up to spare bits. *)
LEMMA AgreesConcat ==
    ASSUME NEW bytes \in Seq(Byte), NEW from \in Nat, NEW a \in Seq(Nat), NEW b \in Seq(Nat),
           Agrees(bytes, a, from), Agrees(bytes, b, from + Len(a))
    PROVE  Agrees(bytes, a \o b, from)
<1> DEFINE ab == a \o b
           like(n, j) == n \in {bytes[j], bytes[j] % 4}
<1>1. /\ Len(a) \in Nat /\ Len(b) \in Nat /\ Len(bytes) \in Nat
      /\ Len(ab) = Len(a) + Len(b)
      /\ \A i \in 1..Len(a) + Len(b) : ab[i] = IF i <= Len(a) THEN a[i] ELSE b[i - Len(a)]
  BY ConcatProperties
<1>2. /\ (from + Len(a)) + Len(b) <= Len(bytes)
      /\ \A i \in 1..Len(a) : like(a[i], from + i)
      /\ \A i \in 1..Len(b) : like(b[i], (from + Len(a)) + i)
  BY DEF Agrees
<1> HIDE DEF ab, like
<1>3. ASSUME NEW i \in 1..Len(ab) PROVE like(ab[i], from + i)
  <2>1. CASE i <= Len(a)
    BY <1>1, <1>2, <2>1
  <2>2. CASE ~(i <= Len(a))
    <3>1. /\ i \in 1..Len(a) + Len(b) /\ i - Len(a) \in 1..Len(b)
          /\ (from + Len(a)) + (i - Len(a)) = from + i
      BY <1>1, <2>2
    <3>2. ab[i] = b[i - Len(a)] /\ like(b[i - Len(a)], (from + Len(a)) + (i - Len(a)))
      BY <1>1, <1>2, <2>2, <3>1
    <3>3. QED
      BY <3>1, <3>2
  <2>3. QED
    BY <2>1, <2>2
<1>4. from + Len(ab) <= Len(bytes)
  BY <1>1, <1>2
<1>5. QED
  BY <1>3, <1>4 DEF Agrees, ab, like

(* One of a sequence of pieces stands where the ones before it end.        *)
LEMMA LiesInside ==
    ASSUME NEW bytes \in Seq(Byte), NEW from \in Nat,
           NEW T, NEW f \in [T -> Seq(Nat)], NEW seq \in Seq(T),
           Lies(bytes, FlatMap(f, seq), from), NEW k \in 1..Len(seq)
    PROVE  /\ Lies(bytes, f[seq[k]], from + Len(FlatMap(f, SubSeq(seq, 1, k - 1))))
           /\ FlatMap(f, SubSeq(seq, 1, k - 1)) \in Seq(Nat)
           /\ f[seq[k]] \in Seq(Nat)
<1> DEFINE before == FlatMap(f, SubSeq(seq, 1, k - 1))
           this == f[seq[k]]
<1>1. /\ SubSeq(seq, 1, k - 1) \in Seq(T)
      /\ SubSeq(seq, 1, k) = Append(SubSeq(seq, 1, k - 1), seq[k])
      /\ seq[k] \in T /\ k \in 0..Len(seq)
  <2>1. seq[k] \in T /\ k \in 0..Len(seq)
    BY ElementOfSeq
  <2>2. QED
    BY <2>1, TakeOneMore
<1>2. FlatMap(f, SubSeq(seq, 1, k)) = before \o this
  BY <1>1, FlatMapAppend
<1>3. before \in Seq(Nat) /\ this \in Seq(Nat)
  BY <1>1, FlatMapType
<1>4. Begins(Nat, FlatMap(f, seq), FlatMap(f, SubSeq(seq, 1, k)))
  BY <1>1, FlatMapBegins
<1>5. PICK rest \in Seq(Nat) : FlatMap(f, seq) = (before \o this) \o rest
  BY <1>2, <1>4 DEF Begins
<1> HIDE DEF before, this
<1>6. before \o this \in Seq(Nat)
  BY <1>3, ConcatProperties
<1>7. Lies(bytes, (before \o this) \o rest, from)
  BY <1>5
<1>8. Lies(bytes, before \o this, from)
  BY <1>6, <1>7, LiesConcat
<1>9. Lies(bytes, this, from + Len(before))
  BY <1>3, <1>8, LiesConcat
<1>10. QED
  BY <1>3, <1>9 DEF before, this

-----------------------------------------------------------------------------
(* A length is two bytes, the lower one first. *)
LEMMA LengthBytes ==
    ASSUME NEW n \in Nat
    PROVE  n % BYTE \in Nat /\ n \div BYTE \in Nat /\ n = (n % BYTE) + BYTE * (n \div BYTE)
<1>1. BYTE \in Nat \ {0}
  BY ByteAssumption
<1>2. QED
  BY <1>1

(* The length in two bytes gives the bytes back. *)
LEMMA BytesLength ==
    ASSUME NEW low \in Byte, NEW high \in Byte
    PROVE  (low + BYTE * high) % BYTE = low /\ (low + BYTE * high) \div BYTE = high
<1>1. BYTE \in Nat \ {0} /\ low \in 0..BYTE - 1 /\ high \in Nat
  BY ByteAssumption DEF Byte
<1>2. QED
  BY <1>1

(* Lengths add up. *)
LEMMA ConcatLength ==
    ASSUME NEW S, NEW a \in Seq(S), NEW b \in Seq(S)
    PROVE  /\ a \o b \in Seq(S) /\ Len(a \o b) = Len(a) + Len(b)
           /\ Len(a) \in Nat /\ Len(b) \in Nat
BY ConcatProperties

(* What the encoder writes for an account, for accounts one after the      *)
(* other, and for instructions.                                            *)
MetaBytes == [acc \in AccountMeta |-> EncodeMeta(acc)]
Metas(accs) == FlatMap(MetaBytes, accs)

IxBytes == [i \in Instruction |-> EncodeIx(i)]
Bodies(l) == FlatMap(IxBytes, l)

Size(x) == <<Len(x.data) % BYTE, Len(x.data) \div BYTE>>

(* What the encoder writes for one account: its key and a flag byte. *)
LEMMA MetaType ==
    ASSUME NEW acc \in AccountMeta
    PROVE  /\ Flags(acc) \in 0..3
           /\ acc.pubkey \in Seq(Nat) /\ Len(acc.pubkey) = KEY
           /\ EncodeMeta(acc) \in Seq(Nat) /\ Len(EncodeMeta(acc)) = KEY + 1
<1>1. Flags(acc) \in 0..3
  BY DEF Flags
<1>2. acc.pubkey \in [1..KEY -> Nat] /\ KEY \in Nat
  BY KeyAssumption DEF AccountMeta, PublicKey, Byte
<1>3. acc.pubkey \in Seq(Nat) /\ Len(acc.pubkey) = KEY
  BY <1>2
<1> DEFINE last == <<Flags(acc)>>
<1>4. last \in Seq(Nat) /\ Len(last) = 1
  BY <1>1
<1> HIDE DEF last
<1>5. /\ acc.pubkey \o last \in Seq(Nat)
      /\ Len(acc.pubkey \o last) = Len(acc.pubkey) + Len(last)
  BY <1>3, <1>4, ConcatLength
<1>6. QED
  BY <1>1, <1>3, <1>5 DEF EncodeMeta, last

(* For accounts: bytes. *)
LEMMA MetasType ==
    /\ MetaBytes \in [AccountMeta -> Seq(Nat)]
    /\ \A accs \in Seq(AccountMeta) : Metas(accs) \in Seq(Nat)
<1>1. MetaBytes \in [AccountMeta -> Seq(Nat)]
  BY MetaType DEF MetaBytes
<1>2. QED
  BY <1>1, FlatMapType DEF Metas

(* The encoder writes them one after the other. *)
LEMMA MetasEncoded ==
    ASSUME NEW accs \in Seq(AccountMeta)
    PROVE  Metas(accs) = FlattenSeq([i \in 1..Len(accs) |-> EncodeMeta(accs[i])])
<1>1. \A i \in 1..Len(accs) : MetaBytes[accs[i]] = EncodeMeta(accs[i])
  BY ElementOfSeq DEF MetaBytes
<1>2. [i \in 1..Len(accs) |-> MetaBytes[accs[i]]] = [i \in 1..Len(accs) |-> EncodeMeta(accs[i])]
  BY <1>1
<1>3. QED
  BY <1>2 DEF Metas, FlatMap

(* An instruction is encoded in five pieces. *)
LEMMA IxPieces ==
    ASSUME NEW x \in Instruction
    PROVE  /\ x.program_id \in Seq(Nat) /\ Len(x.program_id) = KEY
           /\ Len(x.accounts) \in Nat /\ x.accounts \in Seq(AccountMeta)
           /\ <<Len(x.accounts)>> \in Seq(Nat) /\ Len(<<Len(x.accounts)>>) = 1
           /\ Metas(x.accounts) \in Seq(Nat)
           /\ Size(x) \in Seq(Nat) /\ Len(Size(x)) = 2
           /\ x.data \in Seq(Nat) /\ Len(x.data) \in Nat
           /\ EncodeIx(x) = (((x.program_id \o <<Len(x.accounts)>>) \o Metas(x.accounts))
                                \o Size(x)) \o x.data
<1>1. x.program_id \in [1..KEY -> Nat] /\ KEY \in Nat
  BY KeyAssumption DEF Instruction, PublicKey, Byte
<1>2. x.program_id \in Seq(Nat) /\ Len(x.program_id) = KEY
  BY <1>1
<1>3. x.accounts \in Seq(AccountMeta) /\ x.data \in Seq(Byte)
  BY DEF Instruction
<1>4. Len(x.accounts) \in Nat /\ Len(x.data) \in Nat
  BY <1>3
<1>5. x.data \in Seq(Nat)
  <2>1. Byte \subseteq Nat
    BY ByteAssumption DEF Byte
  <2>2. QED
    BY <1>3, <2>1, SeqMonotonic
<1>6. Metas(x.accounts) \in Seq(Nat)
  BY <1>3, MetasType
<1>7. Size(x) \in Seq(Nat) /\ Len(Size(x)) = 2
  <2> SUFFICES ASSUME NEW n \in Nat, n = Len(x.data)
               PROVE  <<n % BYTE, n \div BYTE>> \in Seq(Nat) /\ Len(<<n % BYTE, n \div BYTE>>) = 2
    BY <1>4 DEF Size
  <2>1. n % BYTE \in Nat /\ n \div BYTE \in Nat
    BY LengthBytes
  <2>2. QED
    BY <2>1
<1>8. EncodeIx(x) = (((x.program_id \o <<Len(x.accounts)>>) \o Metas(x.accounts))
                       \o Size(x)) \o x.data
  BY <1>3, MetasEncoded DEF EncodeIx, Size
<1>9. QED
  BY <1>2, <1>3, <1>4, <1>5, <1>6, <1>7, <1>8

(* How they add up. *)
LEMMA IxType ==
    ASSUME NEW x \in Instruction
    PROVE  /\ EncodeIx(x) \in Seq(Nat)
           /\ Len(EncodeIx(x)) = KEY + 1 + Len(Metas(x.accounts)) + 2 + Len(x.data)
<1> DEFINE p == x.program_id
           c == <<Len(x.accounts)>>
           m == Metas(x.accounts)
           z == Size(x)
           d == x.data
<1>1. /\ p \in Seq(Nat) /\ Len(p) = KEY /\ c \in Seq(Nat) /\ Len(c) = 1
      /\ m \in Seq(Nat) /\ z \in Seq(Nat) /\ Len(z) = 2
      /\ d \in Seq(Nat) /\ Len(d) \in Nat
      /\ EncodeIx(x) = (((p \o c) \o m) \o z) \o d
  BY IxPieces
<1> HIDE DEF p, c, m, z, d
<1>2. p \o c \in Seq(Nat) /\ Len(p \o c) = Len(p) + Len(c)
  BY <1>1, ConcatLength
<1>3. /\ (p \o c) \o m \in Seq(Nat) /\ Len(m) \in Nat
      /\ Len((p \o c) \o m) = Len(p \o c) + Len(m)
  BY <1>1, <1>2, ConcatLength
<1>4. /\ ((p \o c) \o m) \o z \in Seq(Nat)
      /\ Len(((p \o c) \o m) \o z) = Len((p \o c) \o m) + Len(z)
  BY <1>1, <1>3, ConcatLength
<1>5. /\ (((p \o c) \o m) \o z) \o d \in Seq(Nat)
      /\ Len((((p \o c) \o m) \o z) \o d) = Len(((p \o c) \o m) \o z) + Len(d)
  BY <1>1, <1>4, ConcatLength
<1>6. EncodeIx(x) \in Seq(Nat)
  BY <1>1, <1>5
<1>7. Len(EncodeIx(x)) = KEY + 1 + Len(m) + 2 + Len(d)
  BY <1>1, <1>2, <1>3, <1>4, <1>5
<1>8. QED
  BY <1>6, <1>7 DEF m, d

(* For instructions: bytes. *)
LEMMA BodiesType ==
    /\ IxBytes \in [Instruction -> Seq(Nat)]
    /\ \A l \in Seq(Instruction) : Bodies(l) \in Seq(Nat)
<1>1. IxBytes \in [Instruction -> Seq(Nat)]
  BY IxType DEF IxBytes
<1>2. QED
  BY <1>1, FlatMapType DEF Bodies

(* The encoding is the number of instructions and their bodies. *)
LEMMA Encoding ==
    ASSUME NEW l \in Seq(Instruction)
    PROVE  /\ Encode(l) = <<Len(l)>> \o Bodies(l)
           /\ Len(l) \in Nat /\ <<Len(l)>> \in Seq(Nat) /\ Len(<<Len(l)>>) = 1
           /\ Encode(l) \in Seq(Nat)
           /\ Len(Encode(l)) = 1 + Len(Bodies(l))
<1>1. \A i \in 1..Len(l) : IxBytes[l[i]] = EncodeIx(l[i])
  BY ElementOfSeq DEF IxBytes
<1>2. [i \in 1..Len(l) |-> IxBytes[l[i]]] = [i \in 1..Len(l) |-> EncodeIx(l[i])]
  BY <1>1
<1>3. Encode(l) = <<Len(l)>> \o Bodies(l)
  BY <1>2 DEF Encode, Bodies, FlatMap
<1>4. Len(l) \in Nat
  OBVIOUS
<1> DEFINE first == <<Len(l)>>
<1>5. first \in Seq(Nat) /\ Len(first) = 1
  BY <1>4
<1> HIDE DEF first
<1>6. first \o Bodies(l) \in Seq(Nat) /\ Len(first \o Bodies(l)) = Len(first) + Len(Bodies(l))
  BY <1>5, BodiesType, ConcatLength
<1>7. QED
  BY <1>3, <1>4, <1>5, <1>6 DEF first

(* Five pieces one after the other. *)
LEMMA FiveLengths ==
    ASSUME NEW a \in Seq(Nat), NEW b \in Seq(Nat), NEW c \in Seq(Nat), NEW d \in Seq(Nat)
    PROVE  /\ a \o b \in Seq(Nat) /\ (a \o b) \o c \in Seq(Nat)
           /\ ((a \o b) \o c) \o d \in Seq(Nat)
           /\ \A from \in Nat :
                 /\ from + Len(a) \in Nat
                 /\ from + Len(a \o b) = (from + Len(a)) + Len(b)
                 /\ from + Len((a \o b) \o c) = ((from + Len(a)) + Len(b)) + Len(c)
                 /\ from + Len(((a \o b) \o c) \o d) =
                        (((from + Len(a)) + Len(b)) + Len(c)) + Len(d)
<1>1. a \o b \in Seq(Nat) /\ Len(a \o b) = Len(a) + Len(b) /\ Len(a) \in Nat /\ Len(b) \in Nat
  BY ConcatLength
<1> DEFINE ab == a \o b
<1> HIDE DEF ab
<1>2. ab \in Seq(Nat) /\ Len(ab) = Len(a) + Len(b)
  BY <1>1 DEF ab
<1>3. ab \o c \in Seq(Nat) /\ Len(ab \o c) = Len(ab) + Len(c) /\ Len(c) \in Nat
  BY <1>2, ConcatLength
<1> DEFINE abc == ab \o c
<1> HIDE DEF abc
<1>4. abc \in Seq(Nat) /\ Len(abc) = Len(ab) + Len(c)
  BY <1>3 DEF abc
<1>5. abc \o d \in Seq(Nat) /\ Len(abc \o d) = Len(abc) + Len(d) /\ Len(d) \in Nat
  BY <1>4, ConcatLength
<1>6. ASSUME NEW from \in Nat
      PROVE  /\ from + Len(a) \in Nat
             /\ from + Len(ab) = (from + Len(a)) + Len(b)
             /\ from + Len(abc) = ((from + Len(a)) + Len(b)) + Len(c)
             /\ from + Len(abc \o d) = (((from + Len(a)) + Len(b)) + Len(c)) + Len(d)
  BY <1>1, <1>2, <1>3, <1>4, <1>5
<1>7. QED
  BY <1>2, <1>4, <1>5, <1>6 DEF abc, ab

(* The five pieces of an instruction stand one after the other. *)
LEMMA FiveLie ==
    ASSUME NEW bytes \in Seq(Byte), NEW from \in Nat,
           NEW a \in Seq(Nat), NEW b \in Seq(Nat), NEW c \in Seq(Nat),
           NEW d \in Seq(Nat), NEW e \in Seq(Nat),
           Lies(bytes, (((a \o b) \o c) \o d) \o e, from)
    PROVE  /\ Lies(bytes, a, from)
           /\ Lies(bytes, b, from + Len(a))
           /\ Lies(bytes, c, (from + Len(a)) + Len(b))
           /\ Lies(bytes, d, ((from + Len(a)) + Len(b)) + Len(c))
           /\ Lies(bytes, e, (((from + Len(a)) + Len(b)) + Len(c)) + Len(d))
<1> DEFINE ab == a \o b
           abc == (a \o b) \o c
           abcd == ((a \o b) \o c) \o d
<1>1. /\ ab \in Seq(Nat) /\ abc \in Seq(Nat) /\ abcd \in Seq(Nat)
      /\ from + Len(ab) = (from + Len(a)) + Len(b)
      /\ from + Len(abc) = ((from + Len(a)) + Len(b)) + Len(c)
      /\ from + Len(abcd) = (((from + Len(a)) + Len(b)) + Len(c)) + Len(d)
  BY FiveLengths
<1>2. Lies(bytes, abcd \o e, from) /\ abcd = abc \o d /\ abc = ab \o c /\ ab = a \o b
  OBVIOUS
<1> HIDE DEF ab, abc, abcd
<1>3. Lies(bytes, abcd, from) /\ Lies(bytes, e, from + Len(abcd))
  BY <1>1, <1>2, LiesConcat
<1>4. Lies(bytes, abc \o d, from)
  BY <1>2, <1>3
<1>5. Lies(bytes, abc, from) /\ Lies(bytes, d, from + Len(abc))
  BY <1>1, <1>4, LiesConcat
<1>6. Lies(bytes, ab \o c, from)
  BY <1>2, <1>5
<1>7. Lies(bytes, ab, from) /\ Lies(bytes, c, from + Len(ab))
  BY <1>1, <1>6, LiesConcat
<1>8. Lies(bytes, a \o b, from)
  BY <1>2, <1>7
<1>9. Lies(bytes, a, from) /\ Lies(bytes, b, from + Len(a))
  BY <1>8, LiesConcat
<1>10. QED
  BY <1>1, <1>3, <1>5, <1>7, <1>9

(* And the other way round. *)
LEMMA FiveAgree ==
    ASSUME NEW bytes \in Seq(Byte), NEW from \in Nat,
           NEW a \in Seq(Nat), NEW b \in Seq(Nat), NEW c \in Seq(Nat),
           NEW d \in Seq(Nat), NEW e \in Seq(Nat),
           Agrees(bytes, a, from),
           Agrees(bytes, b, from + Len(a)),
           Agrees(bytes, c, (from + Len(a)) + Len(b)),
           Agrees(bytes, d, ((from + Len(a)) + Len(b)) + Len(c)),
           Agrees(bytes, e, (((from + Len(a)) + Len(b)) + Len(c)) + Len(d))
    PROVE  Agrees(bytes, (((a \o b) \o c) \o d) \o e, from)
<1> DEFINE ab == a \o b
           abc == (a \o b) \o c
           abcd == ((a \o b) \o c) \o d
<1>1. /\ ab \in Seq(Nat) /\ abc \in Seq(Nat) /\ abcd \in Seq(Nat)
      /\ from + Len(ab) = (from + Len(a)) + Len(b)
      /\ from + Len(abc) = ((from + Len(a)) + Len(b)) + Len(c)
      /\ from + Len(abcd) = (((from + Len(a)) + Len(b)) + Len(c)) + Len(d)
  BY FiveLengths
<1>2. abcd = abc \o d /\ abc = ab \o c /\ ab = a \o b
  OBVIOUS
<1>3. Agrees(bytes, ab, from)
  BY AgreesConcat
<1> HIDE DEF ab, abc, abcd
<1>4. Agrees(bytes, abc, from)
  BY <1>1, <1>2, <1>3, AgreesConcat
<1>5. Agrees(bytes, abcd, from)
  BY <1>1, <1>2, <1>4, AgreesConcat
<1>6. Agrees(bytes, abcd \o e, from)
  BY <1>1, <1>5, AgreesConcat
<1>7. QED
  BY <1>6 DEF abcd

(* Where the pieces of an instruction stand. *)
LEMMA IxLies ==
    ASSUME NEW bytes \in Seq(Byte), NEW base \in Nat, NEW x \in Instruction,
           NEW k, k = base + KEY + 1,
           NEW k2, k2 = k + Len(Metas(x.accounts)),
           Lies(bytes, EncodeIx(x), base)
    PROVE  /\ Lies(bytes, x.program_id, base)
           /\ k <= Len(bytes) /\ bytes[k] = Len(x.accounts)
           /\ Lies(bytes, Metas(x.accounts), k)
           /\ k2 + 2 <= Len(bytes)
           /\ bytes[k2 + 1] = Len(x.data) % BYTE /\ bytes[k2 + 2] = Len(x.data) \div BYTE
           /\ Lies(bytes, x.data, k2 + 2)
<1> DEFINE p == x.program_id
           c == <<Len(x.accounts)>>
           m == Metas(x.accounts)
           z == Size(x)
           d == x.data
<1>1. /\ p \in Seq(Nat) /\ Len(p) = KEY /\ c \in Seq(Nat) /\ Len(c) = 1
      /\ m \in Seq(Nat) /\ z \in Seq(Nat) /\ Len(z) = 2
      /\ d \in Seq(Nat) /\ Len(d) \in Nat
      /\ EncodeIx(x) = (((p \o c) \o m) \o z) \o d
  BY IxPieces
<1>2. c[1] = Len(x.accounts) /\ z[1] = Len(x.data) % BYTE /\ z[2] = Len(x.data) \div BYTE
  BY DEF Size
<1>3. KEY \in Nat
  BY KeyAssumption
<1>4. k2 = k + Len(m)
  OBVIOUS
<1>5. Lies(bytes, (((p \o c) \o m) \o z) \o d, base)
  BY <1>1
<1> HIDE DEF p, c, m, z, d
<1>6. /\ base + Len(p) = base + KEY
      /\ (base + Len(p)) + Len(c) = k
      /\ ((base + Len(p)) + Len(c)) + Len(m) = k2
      /\ (((base + Len(p)) + Len(c)) + Len(m)) + Len(z) = k2 + 2
  BY <1>1, <1>3, <1>4
<1>7. /\ Lies(bytes, p, base) /\ Lies(bytes, c, base + KEY) /\ Lies(bytes, m, k)
      /\ Lies(bytes, z, k2) /\ Lies(bytes, d, k2 + 2)
  <2>1. /\ Lies(bytes, p, base)
        /\ Lies(bytes, c, base + Len(p))
        /\ Lies(bytes, m, (base + Len(p)) + Len(c))
        /\ Lies(bytes, z, ((base + Len(p)) + Len(c)) + Len(m))
        /\ Lies(bytes, d, (((base + Len(p)) + Len(c)) + Len(m)) + Len(z))
    BY <1>1, <1>5, FiveLie
  <2>2. QED
    BY <1>6, <2>1
<1>8. k <= Len(bytes) /\ bytes[k] = c[1]
  <2>1. 1 \in 1..Len(c) /\ (base + KEY) + Len(c) = k /\ (base + KEY) + 1 = k
    BY <1>1, <1>3
  <2>2. QED
    BY <1>7, <2>1 DEF Lies
<1>9. k2 + 2 <= Len(bytes) /\ bytes[k2 + 1] = z[1] /\ bytes[k2 + 2] = z[2]
  <2>1. 1 \in 1..Len(z) /\ 2 \in 1..Len(z)
    BY <1>1
  <2>2. QED
    BY <1>1, <1>7, <2>1 DEF Lies
<1>10. QED
  BY <1>2, <1>7, <1>8, <1>9 DEF p, m, d

(* An instruction is encoded as it was read if each of its pieces is. *)
LEMMA IxAgrees ==
    ASSUME NEW bytes \in Seq(Byte), NEW base \in Nat, NEW x \in Instruction,
           NEW k, k = base + KEY + 1,
           NEW k2, k2 = k + Len(Metas(x.accounts)),
           Agrees(bytes, x.program_id, base),
           k <= Len(bytes), bytes[k] = Len(x.accounts),
           Agrees(bytes, Metas(x.accounts), k),
           k2 + 2 <= Len(bytes),
           bytes[k2 + 1] = Len(x.data) % BYTE, bytes[k2 + 2] = Len(x.data) \div BYTE,
           Agrees(bytes, x.data, k2 + 2)
    PROVE  Agrees(bytes, EncodeIx(x), base)
<1> DEFINE p == x.program_id
           c == <<Len(x.accounts)>>
           m == Metas(x.accounts)
           z == Size(x)
           d == x.data
<1>1. /\ p \in Seq(Nat) /\ Len(p) = KEY /\ c \in Seq(Nat) /\ Len(c) = 1
      /\ m \in Seq(Nat) /\ z \in Seq(Nat) /\ Len(z) = 2
      /\ d \in Seq(Nat) /\ Len(d) \in Nat
      /\ EncodeIx(x) = (((p \o c) \o m) \o z) \o d
  BY IxPieces
<1>2. c[1] = Len(x.accounts) /\ z[1] = Len(x.data) % BYTE /\ z[2] = Len(x.data) \div BYTE
  BY DEF Size
<1>3. KEY \in Nat
  BY KeyAssumption
<1>4. k2 = k + Len(m) /\ bytes[k] = c[1] /\ bytes[k2 + 1] = z[1] /\ bytes[k2 + 2] = z[2]
  BY <1>2
<1>5. Agrees(bytes, p, base) /\ Agrees(bytes, m, k) /\ Agrees(bytes, d, k2 + 2)
  OBVIOUS
<1> HIDE DEF p, c, m, z, d
<1>6. /\ base + Len(p) = base + KEY
      /\ (base + Len(p)) + Len(c) = k
      /\ ((base + Len(p)) + Len(c)) + Len(m) = k2
      /\ (((base + Len(p)) + Len(c)) + Len(m)) + Len(z) = k2 + 2
  BY <1>1, <1>3, <1>4
<1>7. Agrees(bytes, c, base + KEY)
  <2>1. (base + KEY) + Len(c) = k /\ \A i \in 1..Len(c) : i = 1 /\ (base + KEY) + i = k
    BY <1>1, <1>3
  <2>2. QED
    BY <1>4, <2>1 DEF Agrees
<1>8. Agrees(bytes, z, k2)
  <2>1. \A i \in 1..Len(z) : i = 1 \/ i = 2
    BY <1>1
  <2>2. QED
    BY <1>1, <1>4, <2>1 DEF Agrees
<1>9. Agrees(bytes, (((p \o c) \o m) \o z) \o d, base)
  BY <1>1, <1>5, <1>6, <1>7, <1>8, FiveAgree
<1>10. QED
  BY <1>1, <1>9

-----------------------------------------------------------------------------
(* What has been read so far, encoded again, stands at the beginning of    *)
(* the data but for the spare bits.                                        *)
Open == {"account", "data_len", "data"}

Begun == {"program", "num_accounts", "end", "ok"} \union Open

Base == 1 + Len(Bodies(out))

ReadOfIx ==
    /\ ix \in Instruction
    /\ Agrees(data, ix.program_id, Base)
    /\ Base + KEY + 1 <= Len(data)
    /\ data[Base + KEY + 1] = Len(ix.accounts) + todo.accounts
    /\ Agrees(data, Metas(ix.accounts), Base + KEY + 1)
    /\ IF next = "account" THEN todo.accounts > 0 ELSE todo.accounts = 0
    /\ cur = Base + KEY + 1 + Len(Metas(ix.accounts)) + (IF next = "data" THEN 2 ELSE 0)
    /\ next = "data" => todo.data = data[cur - 1] + BYTE * data[cur]

ReadOfProgram ==
    /\ ix \in Instruction
    /\ ix.accounts = <<>>
    /\ Agrees(data, ix.program_id, Base)
    /\ cur = Base + KEY

Reread ==
    /\ out \in Seq(Instruction)
    /\ next = "num_ixs" => cur = 0 /\ out = <<>>
    /\ next \in Begun =>
          /\ Len(data) > 0
          /\ data[1] = Len(out) + todo.ixs
          /\ Agrees(data, Bodies(out), 1)
    /\ next \in {"program", "end", "ok"} => cur = Base
    /\ next \in {"program", "num_accounts"} \union Open => todo.ixs > 0
    /\ next \in {"end", "ok"} => todo.ixs = 0
    /\ next = "ok" => cur = Len(data)
    /\ next = "num_accounts" => ReadOfProgram
    /\ next \in Open => ReadOfIx

(* From what the client encoded, its instructions are read one by one.     *)
Replayed ==
    /\ list \in Seq(Instruction)
    /\ data = Encode(list) =>
          /\ next # "error"
          /\ Len(out) <= Len(list)
          /\ out = SubSeq(list, 1, Len(out))
          /\ next = "num_accounts" =>
                Len(out) < Len(list) /\ ix.program_id = list[Len(out) + 1].program_id
          /\ next \in Open =>
                LET x == list[Len(out) + 1]
                IN  /\ Len(out) < Len(list)
                    /\ ix.program_id = x.program_id
                    /\ Len(ix.accounts) <= Len(x.accounts)
                    /\ ix.accounts = SubSeq(x.accounts, 1, Len(ix.accounts))

-----------------------------------------------------------------------------
(* Bytes of the data, where there are any. *)
LEMMA BytesOfData ==
    ASSUME data \in Seq(Byte), NEW from \in Nat, NEW n \in Nat, from + n <= Len(data)
    PROVE  /\ Bytes(from, n) \in [1..n -> Byte] /\ Bytes(from, n) \in Seq(Byte)
           /\ Len(Bytes(from, n)) = n
           /\ \A i \in 1..n : Bytes(from, n)[i] = data[from + i]
           /\ Agrees(data, Bytes(from, n), from)
<1>1. Len(data) \in Nat /\ \A i \in 1..n : from + i \in 1..Len(data)
  OBVIOUS
<1>2. \A i \in 1..n : data[from + i] \in Byte
  BY <1>1, ElementOfSeq
<1> DEFINE b == Bytes(from, n)
<1>3. b \in [1..n -> Byte] /\ \A i \in 1..n : b[i] = data[from + i]
  BY <1>2 DEF Bytes
<1> HIDE DEF b
<1>4. b \in Seq(Byte) /\ Len(b) = n
  BY <1>3
<1>5. Agrees(data, b, from)
  BY <1>3, <1>4 DEF Agrees
<1>6. QED
  BY <1>3, <1>4, <1>5 DEF b

(* Bytes that stand in the data are read there. *)
LEMMA BytesThatLie ==
    ASSUME data \in Seq(Byte), NEW from \in Nat, NEW S, NEW a \in Seq(S), Lies(data, a, from)
    PROVE  Bytes(from, Len(a)) = a /\ from + Len(a) <= Len(data)
<1>1. /\ Len(a) \in Nat /\ from + Len(a) <= Len(data)
      /\ \A i \in 1..Len(a) : data[from + i] = a[i]
  BY DEF Lies
<1>2. /\ Bytes(from, Len(a)) \in [1..Len(a) -> Byte]
      /\ \A i \in 1..Len(a) : Bytes(from, Len(a))[i] = data[from + i]
  BY <1>1, BytesOfData
<1>3. a = [i \in 1..Len(a) |-> a[i]]
  OBVIOUS
<1>4. Bytes(from, Len(a)) = [i \in 1..Len(a) |-> a[i]]
  BY <1>1, <1>2
<1>5. QED
  BY <1>1, <1>3, <1>4

(* The two flags, from a byte and back. *)
LEMMA FlagsOfByte ==
    ASSUME NEW byte \in Byte, NEW acc,
           acc.is_writable = FlagsOf(byte).is_writable,
           acc.is_signer = FlagsOf(byte).is_signer
    PROVE  Flags(acc) = byte % 4
<1>1. byte \in Nat
  BY ByteAssumption DEF Byte
<1>2. /\ acc.is_writable = (byte % 2 = 1)
      /\ acc.is_signer = ((byte \div 2) % 2 = 1)
  BY DEF FlagsOf
<1>3. (IF byte % 2 = 1 THEN 1 ELSE 0) + (IF (byte \div 2) % 2 = 1 THEN 2 ELSE 0) = byte % 4
  BY <1>1
<1>4. Flags(acc) = (IF byte % 2 = 1 THEN 1 ELSE 0) + (IF (byte \div 2) % 2 = 1 THEN 2 ELSE 0)
  BY <1>2 DEF Flags
<1>5. QED
  BY <1>3, <1>4

(* The flag byte gives the flags back. *)
LEMMA FlagsOfFlags ==
    ASSUME NEW acc \in AccountMeta
    PROVE  /\ FlagsOf(Flags(acc)).is_writable = acc.is_writable
           /\ FlagsOf(Flags(acc)).is_signer = acc.is_signer
<1>1. acc.is_writable \in BOOLEAN /\ acc.is_signer \in BOOLEAN
  BY DEF AccountMeta
<1>2. /\ (Flags(acc) % 2 = 1) <=> acc.is_writable
      /\ ((Flags(acc) \div 2) % 2 = 1) <=> acc.is_signer
  <2>1. CASE acc.is_writable /\ acc.is_signer
    BY <2>1 DEF Flags
  <2>2. CASE acc.is_writable /\ ~acc.is_signer
    BY <2>2 DEF Flags
  <2>3. CASE ~acc.is_writable /\ acc.is_signer
    BY <2>3 DEF Flags
  <2>4. CASE ~acc.is_writable /\ ~acc.is_signer
    BY <2>4 DEF Flags
  <2>5. QED
    BY <1>1, <2>1, <2>2, <2>3, <2>4
<1> DEFINE f == Flags(acc)
<1> HIDE DEF f
<1>3. (f % 2 = 1) = acc.is_writable /\ ((f \div 2) % 2 = 1) = acc.is_signer
  BY <1>1, <1>2, Zenon DEF f
<1>4. /\ FlagsOf(f).is_writable = (f % 2 = 1)
      /\ FlagsOf(f).is_signer = ((f \div 2) % 2 = 1)
  BY DEF FlagsOf
<1>5. QED
  BY <1>3, <1>4, Zenon DEF f

(* An account is a key and a byte of flags. *)
LEMMA MetaAgrees ==
    ASSUME NEW bytes \in Seq(Byte), NEW from \in Nat, NEW acc \in AccountMeta,
           Agrees(bytes, acc.pubkey, from),
           NEW k, k = from + KEY + 1, k <= Len(bytes), Flags(acc) = bytes[k] % 4
    PROVE  /\ Agrees(bytes, EncodeMeta(acc), from)
           /\ EncodeMeta(acc) \in Seq(Nat) /\ Len(EncodeMeta(acc)) = KEY + 1
<1> DEFINE p == acc.pubkey
           f == <<Flags(acc)>>
<1>1. p \in Seq(Nat) /\ Len(p) = KEY /\ f \in Seq(Nat) /\ Len(f) = 1 /\ f[1] = Flags(acc)
  <2>1. p \in Seq(Nat) /\ Len(p) = KEY /\ Flags(acc) \in 0..3
    BY MetaType
  <2>2. f \in Seq(Nat) /\ Len(f) = 1 /\ f[1] = Flags(acc)
    BY <2>1
  <2>3. QED
    BY <2>1, <2>2
<1>2. KEY \in Nat
  BY KeyAssumption
<1> HIDE DEF p, f
<1>3. Agrees(bytes, f, from + Len(p))
  <2>1. (from + Len(p)) + Len(f) = k /\ \A i \in 1..Len(f) : i = 1 /\ (from + Len(p)) + i = k
    BY <1>1, <1>2
  <2>2. QED
    BY <1>1, <2>1 DEF Agrees
<1>4. Agrees(bytes, p \o f, from)
  BY <1>1, <1>3, AgreesConcat DEF p
<1>5. QED
  BY <1>4, MetaType DEF EncodeMeta, p, f

(* Where the pieces of an account stand. *)
LEMMA MetaLies ==
    ASSUME NEW bytes \in Seq(Byte), NEW from \in Nat, NEW acc \in AccountMeta,
           Lies(bytes, EncodeMeta(acc), from),
           NEW k, k = from + KEY + 1
    PROVE  Lies(bytes, acc.pubkey, from) /\ k <= Len(bytes) /\ bytes[k] = Flags(acc)
<1> DEFINE p == acc.pubkey
           f == <<Flags(acc)>>
<1>1. p \in Seq(Nat) /\ Len(p) = KEY /\ f \in Seq(Nat) /\ Len(f) = 1 /\ f[1] = Flags(acc)
  <2>1. p \in Seq(Nat) /\ Len(p) = KEY /\ Flags(acc) \in 0..3
    BY MetaType
  <2>2. f \in Seq(Nat) /\ Len(f) = 1 /\ f[1] = Flags(acc)
    BY <2>1
  <2>3. QED
    BY <2>1, <2>2
<1>2. KEY \in Nat
  BY KeyAssumption
<1>3. Lies(bytes, p \o f, from)
  BY DEF EncodeMeta
<1> HIDE DEF p, f
<1>4. Lies(bytes, p, from) /\ Lies(bytes, f, from + Len(p))
  BY <1>1, <1>3, LiesConcat
<1>5. (from + Len(p)) + Len(f) = k /\ 1 \in 1..Len(f) /\ (from + Len(p)) + 1 = k
  BY <1>1, <1>2
<1>6. k <= Len(bytes) /\ bytes[k] = f[1]
  BY <1>4, <1>5 DEF Lies
<1>7. QED
  BY <1>1, <1>4, <1>6 DEF p

(* Nothing is written for no accounts and for no instructions; one more is *)
(* written at the end.                                                     *)
LEMMA WrittenBytes ==
    /\ Metas(<<>>) = <<>> /\ Bodies(<<>>) = <<>>
    /\ \A accs \in Seq(AccountMeta), acc \in AccountMeta :
          Metas(Append(accs, acc)) = Metas(accs) \o EncodeMeta(acc)
    /\ \A l \in Seq(Instruction), x \in Instruction :
          Bodies(Append(l, x)) = Bodies(l) \o EncodeIx(x)
<1>1. Metas(<<>>) = <<>> /\ Bodies(<<>>) = <<>>
  BY FlatMapEmpty DEF Metas, Bodies
<1>2. ASSUME NEW accs \in Seq(AccountMeta), NEW acc \in AccountMeta
      PROVE  Metas(Append(accs, acc)) = Metas(accs) \o EncodeMeta(acc)
  <2>1. MetaBytes[acc] = EncodeMeta(acc)
    BY DEF MetaBytes
  <2>2. QED
    BY <2>1, MetasType, FlatMapAppend DEF Metas
<1>3. ASSUME NEW l \in Seq(Instruction), NEW x \in Instruction
      PROVE  Bodies(Append(l, x)) = Bodies(l) \o EncodeIx(x)
  <2>1. IxBytes[x] = EncodeIx(x)
    BY DEF IxBytes
  <2>2. QED
    BY <2>1, BodiesType, FlatMapAppend DEF Bodies
<1>4. QED
  BY <1>1, <1>2, <1>3

(* Of nothing there is nothing to agree. *)
LEMMA EmptyAgrees ==
    ASSUME NEW bytes \in Seq(Byte), NEW from \in Nat, from <= Len(bytes)
    PROVE  Agrees(bytes, <<>>, from)
BY DEF Agrees

-----------------------------------------------------------------------------
(* What holds while an instruction is read. *)
LEMMA WhileOpen ==
    ASSUME WithinData, Reread, next \in Open
    PROVE  /\ data \in Seq(Byte) /\ Len(data) \in Nat /\ out \in Seq(Instruction)
           /\ Len(data) > 0 /\ data[1] = Len(out) + todo.ixs /\ Agrees(data, Bodies(out), 1)
           /\ todo.ixs > 0 /\ todo \in [ixs : Int, accounts : Int, data : Nat]
           /\ Base \in Nat /\ KEY \in Nat /\ ReadOfIx /\ cur \in Nat /\ cur <= Len(data)
<1>1. Base \in Nat
  <2>1. Bodies(out) \in Seq(Nat)
    BY BodiesType DEF Reread
  <2>2. QED
    BY <2>1 DEF Base
<1>2. data \in Seq(Byte) /\ Len(data) \in Nat
  BY DEF WithinData
<1>3. QED
  BY <1>1, <1>2, KeyAssumption DEF WithinData, Reread, Begun

(* Nothing read, nothing to encode. *)
LEMMA RereadInit == DecoderInit => Reread
<1> SUFFICES ASSUME DecoderInit PROVE Reread
  OBVIOUS
<1>1. out = <<>> /\ cur = 0 /\ next = "num_ixs"
  BY DEF DecoderInit
<1>2. QED
  BY <1>1 DEF Reread, Open, Begun

(* The count is one byte. *)
LEMMA RereadNumIxs == WithinData /\ Reread /\ NumIxs => Reread'
<1> SUFFICES ASSUME WithinData, Reread, NumIxs PROVE Reread'
  OBVIOUS
<1>1. data \in Seq(Byte) /\ cur = 0 /\ out = <<>> /\ out \in Seq(Instruction)
  BY DEF WithinData, Reread, NumIxs
<1>2. Len(data) \in Nat /\ Len(data) > 0 /\ cur' = 1 /\ cur + 1 = 1
  BY <1>1 DEF NumIxs, Readable, Checked, Room
<1>3. data[1] \in Nat
  BY <1>2, TakenByte DEF NumIxs, Taken
<1>4. /\ data' = data /\ out' = out /\ todo'.ixs = data[1]
      /\ next' = IF data[1] = 0 THEN "end" ELSE "program"
  BY <1>2 DEF NumIxs, WithinData
<1>5. Bodies(out) = <<>> /\ Len(out) = 0 /\ Base = 1
  BY <1>1, WrittenBytes DEF Base
<1>6. Agrees(data, Bodies(out), 1)
  BY <1>1, <1>2, <1>5, EmptyAgrees
<1>7. Base' = 1 /\ Agrees(data, Bodies(out), 1)'
  BY <1>4, <1>5, <1>6 DEF Base
<1>8. QED
  BY <1>1, <1>2, <1>3, <1>4, <1>5, <1>7 DEF Reread, Open, Begun

(* An instruction begins with its program. *)
LEMMA RereadProgram == WithinData /\ Reread /\ Program => Reread'
<1> SUFFICES ASSUME WithinData, Reread, Program PROVE Reread'
  OBVIOUS
<1>1. /\ data \in Seq(Byte) /\ Len(data) \in Nat /\ cur = Base /\ out \in Seq(Instruction)
      /\ Len(data) > 0 /\ data[1] = Len(out) + todo.ixs /\ Agrees(data, Bodies(out), 1)
      /\ todo.ixs > 0 /\ Base \in Nat /\ KEY \in Nat
  BY KeyAssumption DEF WithinData, Reread, Program, Begun
<1>2. Base + KEY <= Len(data) /\ cur' = Base + KEY
  BY <1>1 DEF Program, Readable, Checked, Room
<1>3. /\ data' = data /\ out' = out /\ todo' = todo /\ next' = "num_accounts"
      /\ ix' = [NoIx EXCEPT !.program_id = Bytes(Base, KEY)]
  BY <1>1 DEF Program
<1>4. Bytes(Base, KEY) \in PublicKey /\ Agrees(data, Bytes(Base, KEY), Base)
  BY <1>1, <1>2, BytesOfData DEF PublicKey
<1>5. /\ ix'.program_id = Bytes(Base, KEY) /\ ix'.accounts = <<>>
      /\ ix' = [program_id |-> Bytes(Base, KEY), accounts |-> <<>>, data |-> <<>>]
  BY <1>3 DEF NoIx
<1>6. ix' \in Instruction
  BY <1>4, <1>5 DEF Instruction
<1>7. /\ Base' = Base /\ Agrees(data, Bodies(out), 1)'
      /\ Agrees(data, ix.program_id, Base)'
  BY <1>1, <1>3, <1>4, <1>5 DEF Base
<1>8. ReadOfProgram'
  BY <1>2, <1>5, <1>6, <1>7 DEF ReadOfProgram
<1>9. QED
  BY <1>1, <1>3, <1>7, <1>8 DEF Reread, Open, Begun

(* The number of accounts follows. *)
LEMMA RereadNumAccounts == WithinData /\ Reread /\ NumAccounts => Reread'
<1> SUFFICES ASSUME WithinData, Reread, NumAccounts PROVE Reread'
  OBVIOUS
<1> DEFINE k == Base + KEY + 1
<1>1. /\ data \in Seq(Byte) /\ Len(data) \in Nat /\ out \in Seq(Instruction)
      /\ Len(data) > 0 /\ data[1] = Len(out) + todo.ixs /\ Agrees(data, Bodies(out), 1)
      /\ todo.ixs > 0 /\ todo \in [ixs : Int, accounts : Int, data : Nat] /\ KEY \in Nat
      /\ ReadOfProgram
  BY KeyAssumption DEF WithinData, Reread, NumAccounts, Begun
<1>2. Base \in Nat
  <2>1. Bodies(out) \in Seq(Nat)
    BY <1>1, BodiesType
  <2>2. QED
    BY <2>1 DEF Base
<1>3. /\ ix \in Instruction /\ ix.accounts = <<>> /\ Agrees(data, ix.program_id, Base)
      /\ cur + 1 = k
  BY <1>1, <1>2 DEF ReadOfProgram
<1>4. k <= Len(data) /\ cur' = k
  BY <1>3 DEF NumAccounts, Readable, Checked, Room
<1>5. data[k] \in Nat
  BY <1>3, TakenByte DEF NumAccounts, Taken
<1>6. /\ data' = data /\ out' = out /\ ix' = ix
      /\ todo' = [todo EXCEPT !.accounts = data[k]]
      /\ next' = IF data[k] = 0 THEN "data_len" ELSE "account"
  BY <1>3 DEF NumAccounts
<1>7. todo'.accounts = data[k] /\ todo'.ixs = todo.ixs
  BY <1>1, <1>6
<1>8. Base' = Base /\ Agrees(data, Bodies(out), 1)' /\ Agrees(data, ix.program_id, Base)'
  BY <1>1, <1>3, <1>6 DEF Base
<1>9. Metas(ix.accounts)' = <<>> /\ Agrees(data, <<>>, k)
  <2>1. Metas(ix.accounts)' = <<>>
    BY <1>3, <1>6, WrittenBytes
  <2>2. k \in Nat
    BY <1>1, <1>2
  <2> HIDE DEF k
  <2>3. QED
    BY <1>1, <1>4, <2>1, <2>2, EmptyAgrees
<1>10. Agrees(data, Metas(ix.accounts), Base + KEY + 1)'
  BY <1>6, <1>8, <1>9
<1>11. Len(Metas(ix.accounts)') = 0 /\ Len(ix'.accounts) = 0
  BY <1>3, <1>6, <1>9
<1>12. ReadOfIx'
  BY <1>1, <1>2, <1>3, <1>4, <1>5, <1>6, <1>7, <1>8, <1>10, <1>11 DEF ReadOfIx
<1>13. QED
  BY <1>1, <1>6, <1>7, <1>8, <1>12 DEF Reread, Open, Begun

(* One account more. *)
LEMMA RereadAccount == WithinData /\ Reread /\ Account => Reread'
<1> SUFFICES ASSUME WithinData, Reread, Account PROVE Reread'
  OBVIOUS
<1> DEFINE k == Base + KEY + 1
           here == k + Len(Metas(ix.accounts))
           acc == [pubkey |-> Bytes(here, KEY),
                   is_writable |-> FlagsOf(data[here + KEY + 1]).is_writable,
                   is_signer |-> FlagsOf(data[here + KEY + 1]).is_signer]
<1>1. /\ data \in Seq(Byte) /\ Len(data) \in Nat /\ out \in Seq(Instruction)
      /\ Len(data) > 0 /\ data[1] = Len(out) + todo.ixs /\ Agrees(data, Bodies(out), 1)
      /\ todo.ixs > 0 /\ todo \in [ixs : Int, accounts : Int, data : Nat] /\ Base \in Nat
      /\ KEY \in Nat /\ next = "account" /\ ReadOfIx
  <2>1. next = "account" /\ next \in Open
    BY DEF Account, Open
  <2>2. QED
    BY <2>1, WhileOpen
<1>2. /\ ix \in Instruction /\ Agrees(data, ix.program_id, Base) /\ k <= Len(data)
      /\ data[k] = Len(ix.accounts) + todo.accounts /\ todo.accounts > 0
      /\ Agrees(data, Metas(ix.accounts), k)
      /\ cur = here
  <2>1. cur = here
    <3>1. Metas(ix.accounts) \in Seq(Nat)
      BY <1>1, MetasType DEF ReadOfIx, Instruction
    <3>2. Len(Metas(ix.accounts)) \in Nat
      BY <3>1
    <3>3. QED
      BY <1>1, <3>2 DEF ReadOfIx
  <2>2. QED
    BY <1>1, <2>1 DEF ReadOfIx
<1>3. /\ ix.accounts \in Seq(AccountMeta) /\ Len(ix.accounts) \in Nat
      /\ Metas(ix.accounts) \in Seq(Nat) /\ Len(Metas(ix.accounts)) \in Nat
      /\ ix.program_id \in PublicKey /\ ix.data \in Seq(Byte)
  <2>1. ix.accounts \in Seq(AccountMeta) /\ ix.program_id \in PublicKey /\ ix.data \in Seq(Byte)
    BY <1>2 DEF Instruction
  <2>2. Metas(ix.accounts) \in Seq(Nat)
    BY <2>1, MetasType
  <2>3. QED
    BY <2>1, <2>2
<1>4. here \in Nat /\ k \in Nat
  BY <1>1, <1>3
<1>5. here + KEY + 1 <= Len(data) /\ cur' = here + (KEY + 1)
  <2> HIDE DEF here
  <2>1. here + (KEY + 1) <= Len(data) /\ cur' = here + KEY + 1
    BY <1>1, <1>2 DEF Account, Readable, Room, Checked
  <2>2. QED
    BY <1>1, <1>4, <2>1
<1>6. here + KEY + 1 \in 1..Len(data) /\ here + KEY <= Len(data)
  <2> HIDE DEF here
  <2>1. QED
    BY <1>1, <1>4, <1>5
<1>7. data[here + KEY + 1] \in Byte
  <2> HIDE DEF here
  <2>1. QED
    BY <1>1, <1>6, ElementOfSeq
<1>8. Bytes(here, KEY) \in PublicKey /\ Agrees(data, Bytes(here, KEY), here)
  <2> HIDE DEF here
  <2>1. QED
    BY <1>1, <1>4, <1>6, BytesOfData DEF PublicKey
<1>9. acc \in AccountMeta /\ acc.pubkey = Bytes(here, KEY) /\ Flags(acc) = data[here + KEY + 1] % 4
  <2> HIDE DEF here
  <2>1. acc \in AccountMeta
    <3>1. /\ FlagsOf(data[here + KEY + 1]).is_writable \in BOOLEAN
          /\ FlagsOf(data[here + KEY + 1]).is_signer \in BOOLEAN
      BY DEF FlagsOf
    <3>2. QED
      BY <1>8, <3>1, Zenon DEF AccountMeta
  <2>2. /\ acc.is_writable = FlagsOf(data[here + KEY + 1]).is_writable
        /\ acc.is_signer = FlagsOf(data[here + KEY + 1]).is_signer
    BY Zenon
  <2>3. acc.pubkey = Bytes(here, KEY)
    BY Zenon
  <2> HIDE DEF acc
  <2>4. QED
    BY <1>7, <2>1, <2>2, <2>3, FlagsOfByte
<1>10. /\ data' = data /\ out' = out
       /\ todo' = [todo EXCEPT !.accounts = todo.accounts - 1]
       /\ ix' = [ix EXCEPT !.accounts = Append(ix.accounts, acc)]
       /\ next' = IF todo.accounts = 1 THEN "data_len" ELSE "account"
  BY <1>2, Zenon DEF Account
<1> HIDE DEF acc
<1>11. Metas(Append(ix.accounts, acc)) = Metas(ix.accounts) \o EncodeMeta(acc)
  BY <1>3, <1>9, WrittenBytes
<1>12. /\ Agrees(data, EncodeMeta(acc), here) /\ EncodeMeta(acc) \in Seq(Nat)
       /\ Len(EncodeMeta(acc)) = KEY + 1
  <2> HIDE DEF here
  <2>1. QED
    BY <1>1, <1>4, <1>6, <1>8, <1>9, MetaAgrees
<1>13. Agrees(data, Metas(Append(ix.accounts, acc)), k)
  <2> HIDE DEF k
  <2>1. QED
    BY <1>1, <1>2, <1>3, <1>4, <1>11, <1>12, AgreesConcat
<1>14. Len(Metas(Append(ix.accounts, acc))) = Len(Metas(ix.accounts)) + (KEY + 1)
  BY <1>3, <1>11, <1>12, ConcatLength
<1>15. /\ ix'.accounts = Append(ix.accounts, acc) /\ ix'.program_id = ix.program_id
       /\ ix' \in Instruction /\ Len(ix'.accounts) = Len(ix.accounts) + 1
  <2>1. Append(ix.accounts, acc) \in Seq(AccountMeta)
        /\ Len(Append(ix.accounts, acc)) = Len(ix.accounts) + 1
    BY <1>3, <1>9
  <2>2. QED
    BY <1>2, <1>10, <2>1 DEF Instruction
<1>16. todo'.accounts = todo.accounts - 1 /\ todo'.ixs = todo.ixs
  BY <1>1, <1>10
<1>17. Base' = Base /\ Agrees(data, Bodies(out), 1)'
  BY <1>1, <1>10 DEF Base
<1>18. /\ Agrees(data, ix.program_id, Base)' /\ Agrees(data, Metas(ix.accounts), Base + KEY + 1)'
       /\ Len(Metas(ix.accounts)') = Len(Metas(ix.accounts)) + (KEY + 1)
  BY <1>2, <1>10, <1>13, <1>14, <1>15, <1>17
<1>19. ReadOfIx'
  <2>1. cur' = k + Len(Metas(ix.accounts)')
    <3> DEFINE m == Len(Metas(ix.accounts))
               n == Len(Metas(ix.accounts)')
    <3>1. /\ m \in Nat /\ k \in Nat /\ KEY \in Nat
          /\ n = m + (KEY + 1) /\ cur' = (k + m) + (KEY + 1)
      BY <1>1, <1>3, <1>4, <1>5, <1>18
    <3> HIDE DEF m, n, k
    <3>2. cur' = k + n
      BY <3>1
    <3>3. QED
      BY <3>2 DEF n
  <2>2. data'[k] = Len(ix'.accounts) + todo'.accounts
    BY <1>1, <1>2, <1>3, <1>10, <1>15, <1>16
  <2>3. IF next' = "account" THEN todo'.accounts > 0 ELSE todo'.accounts = 0
    BY <1>1, <1>2, <1>10, <1>16
  <2>4. next' # "data" /\ k + Len(Metas(ix.accounts)') + 0 = k + Len(Metas(ix.accounts)')
    BY <1>3, <1>1, <1>4, <1>10, <1>18
  <2>5. QED
    BY <1>2, <1>10, <1>15, <1>17, <1>18, <2>1, <2>2, <2>3, <2>4 DEF ReadOfIx
<1>20. QED
  BY <1>1, <1>10, <1>16, <1>17, <1>19 DEF Reread, Open, Begun

(* The length of the data. *)
LEMMA RereadDataLen == WithinData /\ Reread /\ DataLen => Reread'
<1> SUFFICES ASSUME WithinData, Reread, DataLen PROVE Reread'
  OBVIOUS
<1> DEFINE k == Base + KEY + 1
           here == k + Len(Metas(ix.accounts))
<1>1. /\ data \in Seq(Byte) /\ Len(data) \in Nat /\ out \in Seq(Instruction)
      /\ Len(data) > 0 /\ data[1] = Len(out) + todo.ixs /\ Agrees(data, Bodies(out), 1)
      /\ todo.ixs > 0 /\ todo \in [ixs : Int, accounts : Int, data : Nat] /\ Base \in Nat
      /\ KEY \in Nat /\ next = "data_len" /\ ReadOfIx
  <2>1. next = "data_len" /\ next \in Open
    BY DEF DataLen, Open
  <2>2. QED
    BY <2>1, WhileOpen
<1>2. Metas(ix.accounts) \in Seq(Nat) /\ Len(Metas(ix.accounts)) \in Nat
  <2>1. Metas(ix.accounts) \in Seq(Nat)
    BY <1>1, MetasType DEF ReadOfIx, Instruction
  <2>2. QED
    BY <2>1
<1>3. cur = here /\ here \in Nat
  BY <1>1, <1>2 DEF ReadOfIx
<1>4. here + 2 <= Len(data) /\ cur' = here + 2
  <2> HIDE DEF here
  <2>1. QED
    BY <1>1, <1>3 DEF DataLen, Readable, Room, Checked
<1>6. /\ data' = data /\ out' = out /\ ix' = ix /\ next' = "data"
      /\ todo' = [todo EXCEPT !.data = data[here + 1] + BYTE * data[here + 2]]
  BY <1>3, Zenon DEF DataLen
<1>7. /\ todo'.accounts = todo.accounts /\ todo'.ixs = todo.ixs
      /\ todo'.data = data[here + 1] + BYTE * data[here + 2]
  BY <1>1, <1>6
<1>8. Base' = Base /\ Agrees(data, Bodies(out), 1)' /\ Metas(ix.accounts)' = Metas(ix.accounts)
  BY <1>1, <1>6 DEF Base
<1>9. cur' - 1 = here + 1 /\ cur' = here + 2
  <2> HIDE DEF here
  <2>1. QED
    BY <1>3, <1>4
<1>10. ReadOfIx'
  BY <1>1, <1>6, <1>7, <1>8, <1>9 DEF ReadOfIx
<1>11. QED
  BY <1>1, <1>6, <1>7, <1>8, <1>10 DEF Reread, Open, Begun

(* The data, and the instruction is whole. *)
LEMMA RereadData == WithinData /\ Reread /\ Data => Reread'
<1> SUFFICES ASSUME WithinData, Reread, Data PROVE Reread'
  OBVIOUS
<1> DEFINE k == Base + KEY + 1
           k2 == k + Len(Metas(ix.accounts))
           n == todo.data
           x == [ix EXCEPT !.data = Bytes(k2 + 2, n)]
<1>1. /\ data \in Seq(Byte) /\ Len(data) \in Nat /\ out \in Seq(Instruction)
      /\ Len(data) > 0 /\ data[1] = Len(out) + todo.ixs /\ Agrees(data, Bodies(out), 1)
      /\ todo.ixs > 0 /\ todo \in [ixs : Int, accounts : Int, data : Nat] /\ Base \in Nat
      /\ KEY \in Nat /\ next = "data" /\ ReadOfIx /\ n \in Nat /\ cur \in Nat
      /\ cur <= Len(data)
  <2>1. next = "data" /\ next \in Open
    BY DEF Data, Open
  <2>2. n \in Nat
    BY DEF WithinData
  <2>3. QED
    BY <2>1, <2>2, WhileOpen
<1>2. Metas(ix.accounts) \in Seq(Nat) /\ Len(Metas(ix.accounts)) \in Nat
  <2>1. Metas(ix.accounts) \in Seq(Nat)
    BY <1>1, MetasType DEF ReadOfIx, Instruction
  <2>2. QED
    BY <2>1
<1>3. cur = k2 + 2 /\ k2 \in Nat /\ cur - 1 = k2 + 1 /\ k \in Nat
  BY <1>1, <1>2 DEF ReadOfIx
<1>4. /\ ix \in Instruction /\ Agrees(data, ix.program_id, Base) /\ k <= Len(data)
      /\ data[k] = Len(ix.accounts) /\ Agrees(data, Metas(ix.accounts), k)
      /\ n = data[k2 + 1] + BYTE * data[k2 + 2]
  <2>1. /\ ix \in Instruction /\ Agrees(data, ix.program_id, Base) /\ k <= Len(data)
        /\ data[k] = Len(ix.accounts) + 0 /\ Agrees(data, Metas(ix.accounts), k)
        /\ n = data[cur - 1] + BYTE * data[cur]
    BY <1>1 DEF ReadOfIx
  <2>2. Len(ix.accounts) \in Nat
    BY <2>1 DEF Instruction
  <2>3. QED
    BY <1>3, <2>1, <2>2
<1> HIDE DEF k2, n
<1>5. data[k2 + 1] \in Byte /\ data[k2 + 2] \in Byte /\ k2 + 2 <= Len(data)
  <2>1. k2 + 1 \in 1..Len(data) /\ k2 + 2 \in 1..Len(data)
    BY <1>1, <1>3
  <2>2. QED
    BY <1>1, <2>1, ElementOfSeq
<1>6. data[k2 + 1] = n % BYTE /\ data[k2 + 2] = n \div BYTE
  BY <1>4, <1>5, BytesLength
<1>7. (k2 + 2) + n <= Len(data) /\ cur' = (k2 + 2) + n
  BY <1>1, <1>3 DEF Data, Readable, Room, Checked, n
<1>8. /\ Bytes(k2 + 2, n) \in Seq(Byte) /\ Len(Bytes(k2 + 2, n)) = n
      /\ Agrees(data, Bytes(k2 + 2, n), k2 + 2)
  BY <1>1, <1>3, <1>7, BytesOfData
<1>9. /\ x \in Instruction /\ x.program_id = ix.program_id /\ x.accounts = ix.accounts
      /\ x.data = Bytes(k2 + 2, n)
  BY <1>4, <1>8 DEF Instruction
<1>10. /\ data' = data /\ out' = Append(out, x) /\ ix' = NoIx
       /\ todo' = [todo EXCEPT !.ixs = todo.ixs - 1, !.data = 0]
       /\ next' = IF todo.ixs = 1 THEN "end" ELSE "program"
  BY <1>3, Zenon DEF Data, n
<1> HIDE DEF x
<1>11. Agrees(data, EncodeIx(x), Base)
  <2>1. k2 = k + Len(Metas(x.accounts))
    BY <1>9 DEF k2
  <2>2. /\ Agrees(data, x.program_id, Base) /\ data[k] = Len(x.accounts)
        /\ Agrees(data, Metas(x.accounts), k)
        /\ data[k2 + 1] = Len(x.data) % BYTE /\ data[k2 + 2] = Len(x.data) \div BYTE
        /\ Agrees(data, x.data, k2 + 2)
    BY <1>4, <1>6, <1>8, <1>9
  <2>3. QED
    BY <1>1, <1>4, <1>5, <1>9, <2>1, <2>2, IxAgrees
<1>12. /\ EncodeIx(x) \in Seq(Nat)
       /\ Len(EncodeIx(x)) = KEY + 1 + Len(Metas(ix.accounts)) + 2 + n
  BY <1>8, <1>9, IxType
<1>13. Bodies(out') = Bodies(out) \o EncodeIx(x) /\ out' \in Seq(Instruction)
       /\ Len(out') = Len(out) + 1 /\ Len(out) \in Nat
  <2>1. Bodies(Append(out, x)) = Bodies(out) \o EncodeIx(x)
    BY <1>1, <1>9, WrittenBytes
  <2>2. QED
    BY <1>1, <1>9, <1>10, <2>1
<1>14. Bodies(out) \in Seq(Nat) /\ Len(Bodies(out)) \in Nat
  <2>1. Bodies(out) \in Seq(Nat)
    BY <1>1, BodiesType
  <2>2. QED
    BY <2>1
<1>15. Agrees(data, Bodies(out'), 1)
  <2>1. Agrees(data, EncodeIx(x), 1 + Len(Bodies(out)))
    BY <1>11 DEF Base
  <2>2. QED
    BY <1>1, <1>12, <1>13, <1>14, <2>1, AgreesConcat
<1>16. cur' = 1 + Len(Bodies(out'))
  <2>1. Len(Bodies(out')) = Len(Bodies(out)) + Len(EncodeIx(x))
    BY <1>12, <1>13, <1>14, ConcatLength
  <2>2. k2 = 1 + Len(Bodies(out)) + KEY + 1 + Len(Metas(ix.accounts))
    BY DEF k2, Base
  <2>3. QED
    BY <1>1, <1>2, <1>7, <1>12, <1>14, <2>1, <2>2
<1>17. todo'.ixs = todo.ixs - 1
  BY <1>1, <1>10
<1>18. Base' = 1 + Len(Bodies(out')) /\ Agrees(data, Bodies(out), 1)'
  BY <1>10, <1>15 DEF Base
<1>19. /\ next' \in {"program", "end"} /\ todo'.ixs \in Int
       /\ next' = "program" => todo'.ixs > 0
       /\ next' = "end" => todo'.ixs = 0
  BY <1>1, <1>10, <1>17
<1>20. data'[1] = Len(out') + todo'.ixs /\ Len(data') > 0
  BY <1>1, <1>10, <1>13, <1>17
<1>21. QED
  BY <1>13, <1>16, <1>18, <1>19, <1>20 DEF Reread, Open, Begun

(* All is read, or bytes are left over. *)
LEMMA RereadEnd == WithinData /\ Reread /\ End => Reread'
<1> SUFFICES ASSUME WithinData, Reread, End PROVE Reread'
  OBVIOUS
<1>1. /\ data' = data /\ out' = out /\ todo' = todo /\ cur' = cur
      /\ next = "end" /\ next' \in {"ok", "error"} /\ (next' = "ok" => cur = Len(data))
  BY DEF End, Consumed
<1>2. Base' = Base /\ Agrees(data, Bodies(out), 1)' = Agrees(data, Bodies(out), 1)
  BY <1>1 DEF Base
<1>3. QED
  BY <1>1, <1>2 DEF Reread, Open, Begun

(* Every read. *)
LEMMA RereadNext == WithinData /\ Reread /\ [DecoderNext]_decoderVars => Reread'
<1> SUFFICES ASSUME WithinData, Reread, [DecoderNext]_decoderVars PROVE Reread'
  OBVIOUS
<1>1. CASE Abort
  <2>1. next \in Reads /\ ~Readable
    BY <1>1 DEF Abort, WithinData, Reads
  <2>2. ~Room
    BY <2>1, ReadFits
  <2>3. QED
    BY <1>1, <2>2 DEF Abort, Reread, Open, Begun
<1>2. CASE UNCHANGED decoderVars
  BY <1>2 DEF decoderVars, Reread, Open, Begun, ReadOfIx, ReadOfProgram, Base
<1>3. QED
  BY <1>1, <1>2, RereadNumIxs, RereadProgram, RereadNumAccounts, RereadAccount, RereadDataLen,
     RereadData, RereadEnd DEF DecoderNext

(* At the end, everything given was read. *)
LEMMA RereadCounts == Reread /\ WithinData => EveryByteCounts
<1> SUFFICES ASSUME Reread, WithinData, next = "ok" PROVE EveryByteCounts
  BY DEF EveryByteCounts
<1>1. /\ data \in Seq(Byte) /\ Len(data) \in Nat /\ out \in Seq(Instruction) /\ Len(data) > 0
      /\ data[1] = Len(out) + todo.ixs /\ todo.ixs = 0 /\ Agrees(data, Bodies(out), 1)
      /\ Len(data) = 1 + Len(Bodies(out))
  BY DEF Reread, Begun, WithinData, Base
<1> DEFINE first == <<Len(out)>>
<1>2. /\ Encode(out) = first \o Bodies(out) /\ Len(out) \in Nat
      /\ first \in Seq(Nat) /\ Len(first) = 1 /\ first[1] = Len(out)
      /\ Encode(out) \in Seq(Nat) /\ Len(Encode(out)) = 1 + Len(Bodies(out))
  BY <1>1, Encoding
<1>3. data[1] = Len(out)
  BY <1>1, <1>2
<1> HIDE DEF first
<1>4. Agrees(data, first, 0) /\ 0 + Len(first) = 1
  <2>1. 0 + Len(first) = 1 /\ \A i \in 1..Len(first) : i = 1 /\ 0 + i = 1
    BY <1>2
  <2>2. QED
    BY <1>1, <1>2, <1>3, <2>1 DEF Agrees
<1>5. Agrees(data, Encode(out), 0)
  <2>1. Agrees(data, Bodies(out), 0 + Len(first)) /\ Bodies(out) \in Seq(Nat)
    BY <1>1, <1>4, BodiesType
  <2>2. QED
    BY <1>1, <1>2, <1>4, <2>1, AgreesConcat
<1>6. /\ Len(Encode(out)) = Len(data)
      /\ \A i \in 1..Len(data) : Encode(out)[i] \in {data[i], data[i] % 4}
  <2>1. Len(Encode(out)) = Len(data) /\ \A i \in 1..Len(data) : 0 + i = i
    BY <1>1, <1>2
  <2>2. QED
    BY <1>5, <2>1 DEF Agrees
<1>7. QED
  BY <1>6 DEF EveryByteCounts

(* Two byte strings that decode to one list of instructions differ in      *)
(* spare flag bits only (sub_instructions.rs:79).                          *)
THEOREM BytesAreCounted == DecoderSpec => []EveryByteCounts
<1>1. DecoderInit => WithinData /\ Reread
  BY DecoderInitInv, RereadInit
<1>2. WithinData /\ Reread /\ [DecoderNext]_decoderVars => (WithinData /\ Reread)'
  BY DecoderNextInv, RereadNext
<1>3. WithinData /\ Reread => EveryByteCounts
  BY RereadCounts
<1>4. QED
  BY <1>1, <1>2, <1>3, PTL DEF DecoderSpec

-----------------------------------------------------------------------------
(* Where the next instruction of an encoded list stands. *)
LEMMA NextStands ==
    ASSUME data \in Seq(Byte), list \in Seq(Instruction), data = Encode(list),
           Len(out) < Len(list), Len(out) \in Nat, out = SubSeq(list, 1, Len(out))
    PROVE  /\ list[Len(out) + 1] \in Instruction
           /\ Lies(data, EncodeIx(list[Len(out) + 1]), Base)
           /\ Base \in Nat
<1> DEFINE k == Len(out) + 1
<1>1. k \in 1..Len(list) /\ k - 1 = Len(out)
  OBVIOUS
<1> HIDE DEF k
<1>2. list[k] \in Instruction /\ IxBytes[list[k]] = EncodeIx(list[k])
  BY <1>1, ElementOfSeq DEF IxBytes
<1> DEFINE first == <<Len(list)>>
<1>3. data = first \o Bodies(list) /\ first \in Seq(Nat) /\ Len(first) = 1 /\ data \in Seq(Nat)
  BY Encoding
<1> HIDE DEF first
<1>4. Bodies(list) \in Seq(Nat)
  BY BodiesType
<1>5. Lies(data, first \o Bodies(list), 0)
  <2>1. Len(data) \in Nat /\ 0 + Len(data) <= Len(data) /\ \A i \in 1..Len(data) : 0 + i = i
    OBVIOUS
  <2>2. QED
    BY <1>3, <2>1 DEF Lies
<1>6. Lies(data, Bodies(list), 1)
  <2>1. Lies(data, Bodies(list), 0 + Len(first))
    BY <1>3, <1>4, <1>5, LiesConcat
  <2>2. 0 + Len(first) = 1
    BY <1>3
  <2>3. QED
    BY <2>1, <2>2
<1>7. /\ Lies(data, IxBytes[list[k]], 1 + Len(Bodies(SubSeq(list, 1, k - 1))))
      /\ Bodies(SubSeq(list, 1, k - 1)) \in Seq(Nat)
  BY <1>1, <1>6, BodiesType, LiesInside DEF Bodies
<1>8. SubSeq(list, 1, k - 1) = out
  BY <1>1
<1>9. Lies(data, EncodeIx(list[k]), Base) /\ Base \in Nat
  <2>1. Lies(data, EncodeIx(list[k]), 1 + Len(Bodies(out))) /\ Bodies(out) \in Seq(Nat)
    BY ONLY <1>2, <1>7, <1>8
  <2>2. 1 + Len(Bodies(out)) \in Nat
    BY <2>1
  <2>3. QED
    BY <2>1, <2>2 DEF Base
<1>10. QED
  BY <1>2, <1>9 DEF k

(* Where the next account of an instruction stands. *)
LEMMA NextMetaStands ==
    ASSUME NEW bytes \in Seq(Byte), NEW from \in Nat, NEW accs \in Seq(AccountMeta),
           Lies(bytes, Metas(accs), from),
           NEW n \in Nat, n < Len(accs)
    PROVE  /\ accs[n + 1] \in AccountMeta
           /\ Lies(bytes, EncodeMeta(accs[n + 1]), from + Len(Metas(SubSeq(accs, 1, n))))
<1> DEFINE k == n + 1
<1>1. k \in 1..Len(accs) /\ k - 1 = n
  OBVIOUS
<1> HIDE DEF k
<1>2. accs[k] \in AccountMeta /\ MetaBytes[accs[k]] = EncodeMeta(accs[k])
  BY <1>1, ElementOfSeq DEF MetaBytes
<1>3. Lies(bytes, MetaBytes[accs[k]], from + Len(Metas(SubSeq(accs, 1, k - 1))))
  BY <1>1, MetasType, LiesInside DEF Metas
<1>4. QED
  BY <1>1, <1>2, <1>3 DEF k

-----------------------------------------------------------------------------
(* What the decoder meets next in what the client encoded, state by state. *)
OfClient ==
    /\ WithinData /\ Reread /\ Replayed
    /\ data = Encode(list)

(* The number of instructions. *)
LEMMA ClientCount ==
    ASSUME OfClient
    PROVE  /\ data \in Seq(Byte) /\ Len(data) \in Nat /\ list \in Seq(Instruction)
           /\ out \in Seq(Instruction) /\ Len(out) \in Nat /\ Len(list) \in Nat
           /\ Len(data) = 1 + Len(Bodies(list)) /\ Len(data) > 0
           /\ data[1] = Len(list)
           /\ out = SubSeq(list, 1, Len(out)) /\ Len(out) <= Len(list)
<1>1. /\ data \in Seq(Byte) /\ list \in Seq(Instruction) /\ out \in Seq(Instruction)
      /\ out = SubSeq(list, 1, Len(out)) /\ Len(out) <= Len(list)
  BY DEF OfClient, WithinData, Reread, Replayed
<1>2. Len(data) \in Nat /\ Len(out) \in Nat /\ Len(list) \in Nat
  BY <1>1
<1> DEFINE first == <<Len(list)>>
<1>3. /\ data = first \o Bodies(list) /\ first \in Seq(Nat) /\ Len(first) = 1
      /\ Len(data) = 1 + Len(Bodies(list)) /\ first[1] = Len(list)
  BY <1>1, Encoding DEF OfClient
<1> HIDE DEF first
<1>4. Bodies(list) \in Seq(Nat)
  BY <1>1, BodiesType
<1>5. Len(Bodies(list)) \in Nat
  BY <1>4
<1>6. Lies(data, first, 0)
  <2>1. Lies(data, first \o Bodies(list), 0)
    <3>1. 0 + Len(data) <= Len(data) /\ \A i \in 1..Len(data) : 0 + i = i
      BY <1>2
    <3>2. QED
      BY <1>3, <3>1 DEF Lies
  <2>2. QED
    BY <1>1, <1>3, <1>4, <2>1, LiesConcat
<1>7. data[1] = Len(list)
  <2>1. 1 \in 1..Len(first) /\ 0 + 1 = 1
    BY <1>3
  <2>2. QED
    BY <1>3, <1>6, <2>1 DEF Lies
<1>8. QED
  BY ONLY <1>1, <1>2, <1>3, <1>5, <1>7

(* The count is there. *)
LEMMA ClientNumIxs ==
    ASSUME OfClient, next = "num_ixs"
    PROVE  Room
<1>1. cur = 0 /\ Checked = 1
  BY DEF OfClient, Reread, Checked
<1>2. Len(data) \in Nat /\ Len(data) > 0
  BY ClientCount
<1>3. QED
  BY <1>1, <1>2 DEF Room

(* So is the program, and it is that of the next instruction. *)
LEMMA ClientProgram ==
    ASSUME OfClient, next = "program"
    PROVE  /\ Room /\ Len(out) < Len(list)
           /\ Bytes(cur, KEY) = list[Len(out) + 1].program_id
<1>1. /\ data \in Seq(Byte) /\ Len(data) \in Nat /\ list \in Seq(Instruction)
      /\ Len(out) \in Nat /\ Len(list) \in Nat /\ out = SubSeq(list, 1, Len(out))
      /\ data[1] = Len(list)
  BY ClientCount
<1>2. data[1] = Len(out) + todo.ixs /\ todo.ixs > 0 /\ todo.ixs \in Int /\ cur = Base
  BY DEF OfClient, Reread, Begun, WithinData
<1>3. Len(out) < Len(list)
  BY ONLY <1>1, <1>2
<1> DEFINE x == list[Len(out) + 1]
<1>4. x \in Instruction /\ Lies(data, EncodeIx(x), Base) /\ Base \in Nat
  <2>1. data = Encode(list)
    BY DEF OfClient
  <2>2. QED
    BY <1>1, <1>3, <2>1, NextStands
<1>5. /\ Lies(data, x.program_id, Base) /\ Base + KEY + 1 <= Len(data)
      /\ x.program_id \in Seq(Nat) /\ Len(x.program_id) = KEY
  <2> HIDE DEF x
  <2>1. QED
    BY <1>1, <1>4, IxLies, IxPieces
<1> HIDE DEF x
<1>6. Bytes(Base, KEY) = x.program_id
  BY <1>1, <1>4, <1>5, BytesThatLie
<1>7. Room
  <2>1. Checked = KEY
    BY DEF Checked
  <2>2. QED
    BY <1>1, <1>2, <1>4, <1>5, <2>1, KeyAssumption DEF Room
<1>8. QED
  BY <1>2, <1>3, <1>6, <1>7 DEF x

(* So is the number of its accounts. *)
LEMMA ClientNumAccounts ==
    ASSUME OfClient, next = "num_accounts"
    PROVE  Room /\ Len(list[Len(out) + 1].accounts) \in Nat
<1>1. /\ data \in Seq(Byte) /\ Len(data) \in Nat /\ list \in Seq(Instruction)
      /\ Len(out) \in Nat /\ Len(list) \in Nat /\ out = SubSeq(list, 1, Len(out))
  BY ClientCount
<1>2. data = Encode(list) /\ Len(out) < Len(list) /\ ReadOfProgram
  BY DEF OfClient, Replayed, Reread
<1> DEFINE x == list[Len(out) + 1]
<1>3. x \in Instruction /\ Lies(data, EncodeIx(x), Base) /\ Base \in Nat
  BY <1>1, <1>2, NextStands
<1>4. Base + KEY + 1 <= Len(data) /\ Len(x.accounts) \in Nat
  <2> HIDE DEF x
  <2>1. QED
    BY <1>1, <1>3, IxLies, IxPieces
<1>5. cur = Base + KEY /\ Checked = 1
  BY <1>2 DEF ReadOfProgram, Checked
<1>6. Room
  BY <1>1, <1>3, <1>4, <1>5, KeyAssumption DEF Room
<1>7. QED
  BY <1>4, <1>6

(* While an instruction is read. *)
LEMMA ClientOpen ==
    ASSUME OfClient, next \in Open,
           NEW x, x = list[Len(out) + 1], NEW k, k = Base + KEY + 1,
           NEW k2, k2 = k + Len(Metas(x.accounts))
    PROVE  /\ x \in Instruction /\ Len(out) < Len(list) /\ k \in Nat /\ k2 \in Nat
           /\ ix.program_id = x.program_id
           /\ Len(ix.accounts) \in Nat /\ Len(x.accounts) \in Nat
           /\ ix.accounts = SubSeq(x.accounts, 1, Len(ix.accounts))
           /\ Len(x.accounts) = Len(ix.accounts) + todo.accounts
           /\ Lies(data, Metas(x.accounts), k)
           /\ k2 + 2 <= Len(data)
           /\ data[k2 + 1] = Len(x.data) % BYTE /\ data[k2 + 2] = Len(x.data) \div BYTE
           /\ Lies(data, x.data, k2 + 2)
<1>1. /\ data \in Seq(Byte) /\ Len(data) \in Nat /\ list \in Seq(Instruction)
      /\ Len(out) \in Nat /\ Len(list) \in Nat /\ out = SubSeq(list, 1, Len(out))
  BY ClientCount
<1>2. /\ Len(out) < Len(list) /\ ix.program_id = x.program_id
      /\ ix.accounts = SubSeq(x.accounts, 1, Len(ix.accounts))
  BY DEF OfClient, Replayed
<1>3. x \in Instruction /\ Lies(data, EncodeIx(x), Base) /\ Base \in Nat
  <2>1. data = Encode(list)
    BY DEF OfClient
  <2>2. QED
    BY <1>1, <1>2, <2>1, NextStands
<1>4. /\ k <= Len(data) /\ data[k] = Len(x.accounts) /\ Lies(data, Metas(x.accounts), k)
      /\ k2 + 2 <= Len(data)
      /\ data[k2 + 1] = Len(x.data) % BYTE /\ data[k2 + 2] = Len(x.data) \div BYTE
      /\ Lies(data, x.data, k2 + 2)
  BY ONLY <1>1, <1>3, IxLies, k = Base + KEY + 1, k2 = k + Len(Metas(x.accounts))
<1>5. ReadOfIx /\ KEY \in Nat
  BY WhileOpen DEF OfClient
<1>6. data[k] = Len(ix.accounts) + todo.accounts /\ ix \in Instruction
  BY <1>5 DEF ReadOfIx
<1>7. /\ Len(ix.accounts) \in Nat /\ Len(x.accounts) \in Nat /\ Len(Metas(x.accounts)) \in Nat
  <2>1. ix.accounts \in Seq(AccountMeta)
    BY <1>6 DEF Instruction
  <2>2. Len(ix.accounts) \in Nat
    BY <2>1
  <2>3. Len(x.accounts) \in Nat /\ Metas(x.accounts) \in Seq(Nat)
    BY <1>3, IxPieces
  <2>4. QED
    BY <2>2, <2>3
<1>8. k \in Nat /\ k2 \in Nat
  BY <1>3, <1>5, <1>7
<1>9. QED
  BY <1>2, <1>3, <1>4, <1>6, <1>7, <1>8

(* So is the account. *)
LEMMA ClientAccount ==
    ASSUME OfClient, next = "account",
           NEW x, x = list[Len(out) + 1], NEW n, n = Len(ix.accounts)
    PROVE  /\ Room /\ n \in Nat /\ n < Len(x.accounts) /\ x.accounts \in Seq(AccountMeta)
           /\ x.accounts[n + 1] \in AccountMeta
           /\ Bytes(cur, KEY) = x.accounts[n + 1].pubkey
           /\ data[cur + KEY + 1] = Flags(x.accounts[n + 1])
<1> DEFINE k == Base + KEY + 1
           acc == x.accounts[n + 1]
<1>1. next \in Open
  BY DEF Open
<1>2. /\ x \in Instruction /\ k \in Nat /\ Len(ix.accounts) \in Nat /\ Len(x.accounts) \in Nat
      /\ ix.accounts = SubSeq(x.accounts, 1, Len(ix.accounts))
      /\ Len(x.accounts) = Len(ix.accounts) + todo.accounts
      /\ Lies(data, Metas(x.accounts), k)
  BY <1>1, ClientOpen
<1>3. /\ data \in Seq(Byte) /\ Len(data) \in Nat /\ KEY \in Nat /\ ReadOfIx
      /\ todo.accounts \in Int
  <2>1. WithinData /\ Reread
    BY DEF OfClient
  <2>2. QED
    BY <1>1, <2>1, WhileOpen
<1>4. n \in Nat /\ n < Len(x.accounts)
  <2>1. todo.accounts > 0
    BY <1>3 DEF ReadOfIx
  <2>2. QED
    BY <1>2, <1>3, <2>1
<1>5. x.accounts \in Seq(AccountMeta)
  BY <1>2 DEF Instruction
<1>6. acc \in AccountMeta /\ Lies(data, EncodeMeta(acc), k + Len(Metas(SubSeq(x.accounts, 1, n))))
  <2> HIDE DEF k
  <2>1. QED
    BY <1>2, <1>3, <1>4, <1>5, NextMetaStands
<1>7. Metas(ix.accounts) \in Seq(Nat) /\ Len(Metas(ix.accounts)) \in Nat
  <2>1. Metas(ix.accounts) \in Seq(Nat)
    BY <1>3, MetasType DEF ReadOfIx, Instruction
  <2>2. QED
    BY <2>1
<1>8. cur = k + Len(Metas(ix.accounts)) /\ cur \in Nat
  BY <1>2, <1>3, <1>7 DEF ReadOfIx
<1> HIDE DEF k, acc
<1>9. Lies(data, EncodeMeta(acc), cur)
  <2>1. SubSeq(x.accounts, 1, n) = ix.accounts
    BY <1>2
  <2>2. QED
    BY ONLY <1>6, <1>8, <2>1
<1>10. Lies(data, acc.pubkey, cur) /\ cur + KEY + 1 <= Len(data) /\ data[cur + KEY + 1] = Flags(acc)
  BY <1>3, <1>6, <1>8, <1>9, MetaLies
<1>11. Bytes(cur, KEY) = acc.pubkey
  <2>1. acc.pubkey \in Seq(Nat) /\ Len(acc.pubkey) = KEY
    BY <1>6, MetaType
  <2>2. QED
    BY <1>3, <1>8, <1>10, <2>1, BytesThatLie
<1>12. Room
  <2>1. Checked = KEY + 1
    BY DEF Checked
  <2>2. QED
    BY <1>3, <1>8, <1>10, <2>1 DEF Room
<1>13. QED
  BY <1>4, <1>5, <1>6, <1>10, <1>11, <1>12 DEF acc

(* After the accounts. *)
LEMMA ClientAccounts ==
    ASSUME OfClient, next \in {"data_len", "data"}, NEW x, x = list[Len(out) + 1]
    PROVE  ix.accounts = x.accounts /\ x \in Instruction
<1>1. next \in Open /\ next # "account"
  BY DEF Open
<1>2. /\ x \in Instruction /\ Len(ix.accounts) \in Nat /\ Len(x.accounts) \in Nat
      /\ ix.accounts = SubSeq(x.accounts, 1, Len(ix.accounts))
      /\ Len(x.accounts) = Len(ix.accounts) + todo.accounts
  BY <1>1, ClientOpen
<1>3. todo.accounts = 0
  <2>1. WithinData /\ Reread
    BY DEF OfClient
  <2>2. ReadOfIx
    BY <1>1, <2>1, WhileOpen
  <2>3. QED
    BY <1>1, <2>2 DEF ReadOfIx
<1>4. Len(ix.accounts) = Len(x.accounts)
  BY <1>2, <1>3
<1>5. x.accounts \in Seq(AccountMeta)
  BY <1>2 DEF Instruction
<1>6. SubSeq(x.accounts, 1, Len(x.accounts)) = x.accounts
  BY <1>5, SubSeqFull
<1>7. QED
  BY ONLY <1>2, <1>4, <1>6

(* So is the length. *)
LEMMA ClientDataLen ==
    ASSUME OfClient, next = "data_len"
    PROVE  Room
<1> DEFINE x == list[Len(out) + 1]
           k == Base + KEY + 1
           k2 == k + Len(Metas(x.accounts))
<1>1. next \in Open
  BY DEF Open
<1>2. k2 \in Nat /\ k2 + 2 <= Len(data)
  <2>1. x = list[Len(out) + 1] /\ k = Base + KEY + 1 /\ k2 = k + Len(Metas(x.accounts))
    OBVIOUS
  <2> HIDE DEF x, k, k2
  <2>2. QED
    BY <1>1, <2>1, ClientOpen
<1>3. ix.accounts = x.accounts
  BY ClientAccounts
<1>4. ReadOfIx
  BY <1>1, WhileOpen DEF OfClient
<1>5. cur = k2 + 0
  BY <1>3, <1>4 DEF ReadOfIx
<1> HIDE DEF k2
<1>6. QED
  BY <1>2, <1>5 DEF Room, Checked

(* So is the data. *)
LEMMA ClientData ==
    ASSUME OfClient, next = "data"
    PROVE  Room /\ [ix EXCEPT !.data = Bytes(cur, todo.data)] = list[Len(out) + 1]
<1> DEFINE x == list[Len(out) + 1]
           k == Base + KEY + 1
           k2 == k + Len(Metas(x.accounts))
<1>1. next \in Open
  BY DEF Open
<1>2. /\ k2 \in Nat /\ k2 + 2 <= Len(data) /\ Lies(data, x.data, k2 + 2)
      /\ data[k2 + 1] = Len(x.data) % BYTE /\ data[k2 + 2] = Len(x.data) \div BYTE
      /\ x \in Instruction /\ ix.program_id = x.program_id
  <2>1. x = list[Len(out) + 1] /\ k = Base + KEY + 1 /\ k2 = k + Len(Metas(x.accounts))
    OBVIOUS
  <2> HIDE DEF x, k, k2
  <2>2. QED
    BY <1>1, <2>1, ClientOpen
<1>3. ix.accounts = x.accounts
  BY ClientAccounts
<1>4. ReadOfIx /\ data \in Seq(Byte) /\ Len(data) \in Nat
  BY <1>1, WhileOpen DEF OfClient
<1>5. cur = k2 + 2 /\ todo.data = data[cur - 1] + BYTE * data[cur] /\ ix \in Instruction
  BY <1>3, <1>4 DEF ReadOfIx
<1> HIDE DEF k2, x
<1>6. cur - 1 = k2 + 1 /\ cur \in Nat
  BY <1>2, <1>5
<1>7. x.data \in Seq(Byte) /\ Len(x.data) \in Nat
  <2>1. x.data \in Seq(Byte)
    BY <1>2 DEF Instruction
  <2>2. QED
    BY <2>1
<1>8. todo.data = Len(x.data)
  <2>1. todo.data = (Len(x.data) % BYTE) + BYTE * (Len(x.data) \div BYTE)
    BY <1>2, <1>5, <1>6
  <2>2. QED
    BY <1>7, <2>1, LengthBytes
<1>9. Bytes(cur, todo.data) = x.data /\ cur + todo.data <= Len(data)
  BY <1>2, <1>4, <1>5, <1>6, <1>7, <1>8, BytesThatLie
<1>10. Room
  BY <1>9 DEF Room, Checked
<1>11. [ix EXCEPT !.data = Bytes(cur, todo.data)] = x
  BY <1>2, <1>3, <1>5, <1>9 DEF Instruction
<1>12. QED
  BY <1>10, <1>11 DEF x

(* Nothing is left over. *)
LEMMA ClientEnd ==
    ASSUME OfClient, next \in {"end", "ok"}
    PROVE  out = list /\ cur = Len(data)
<1>1. /\ Len(out) \in Nat /\ Len(list) \in Nat /\ out = SubSeq(list, 1, Len(out))
      /\ data[1] = Len(list) /\ list \in Seq(Instruction) /\ Len(data) \in Nat
      /\ Len(data) = 1 + Len(Bodies(list))
  BY ClientCount
<1>2. data[1] = Len(out) + todo.ixs /\ todo.ixs = 0 /\ cur = Base
  BY DEF OfClient, Reread, Begun
<1>3. Len(out) = Len(list)
  BY ONLY <1>1, <1>2
<1>4. out = list
  <2>1. SubSeq(list, 1, Len(list)) = list
    BY <1>1, SubSeqFull
  <2>2. QED
    BY ONLY <1>1, <1>3, <2>1
<1>5. cur = Len(data)
  BY <1>1, <1>2, <1>4 DEF Base
<1>6. QED
  BY <1>4, <1>5

(* No read of what the client wrote is refused. *)
LEMMA ClientRoom ==
    ASSUME OfClient, next \in Reads
    PROVE  Room
BY ClientNumIxs, ClientProgram, ClientNumAccounts, ClientAccount, ClientDataLen, ClientData
DEF Reads

-----------------------------------------------------------------------------
(* What is read is what was encoded, one instruction after the other.      *)
LEMMA ReplayedInit == DecoderInit => Replayed
<1> SUFFICES ASSUME DecoderInit PROVE Replayed
  OBVIOUS
<1>1. list \in Seq(Instruction) /\ out = <<>> /\ next = "num_ixs"
  BY ReceivedAssumption DEF DecoderInit
<1>2. Len(list) \in Nat /\ Len(out) = 0 /\ SubSeq(list, 1, 0) = <<>>
  BY <1>1, SubSeqEmpty
<1>3. QED
  BY <1>1, <1>2 DEF Replayed, Open

(* The program read is the one written. *)
LEMMA ReplayedProgram == OfClient /\ Program => Replayed'
<1> SUFFICES ASSUME OfClient, Program PROVE Replayed'
  OBVIOUS
<1>1. /\ next = "program" /\ list' = list /\ data' = data /\ out' = out
      /\ next' = "num_accounts" /\ ix' = [NoIx EXCEPT !.program_id = Bytes(cur, KEY)]
  BY DEF Program
<1>2. Len(out) < Len(list) /\ Bytes(cur, KEY) = list[Len(out) + 1].program_id
  BY <1>1, ClientProgram
<1>3. /\ list \in Seq(Instruction) /\ out = SubSeq(list, 1, Len(out)) /\ Len(out) <= Len(list)
      /\ Len(out) \in Nat
  BY ClientCount
<1>4. ix'.program_id = list[Len(out) + 1].program_id
  BY <1>1, <1>2 DEF NoIx
<1>5. QED
  BY <1>1, <1>2, <1>3, <1>4 DEF Replayed, Open

(* No account of it has been read. *)
LEMMA ReplayedNumAccounts == OfClient /\ NumAccounts => Replayed'
<1> SUFFICES ASSUME OfClient, NumAccounts PROVE Replayed'
  OBVIOUS
<1>1. /\ next = "num_accounts" /\ list' = list /\ data' = data /\ out' = out /\ ix' = ix
      /\ next' \in {"data_len", "account"}
  BY DEF NumAccounts
<1>2. /\ Len(out) < Len(list) /\ ix.program_id = list[Len(out) + 1].program_id
      /\ ix.accounts = <<>>
  BY <1>1 DEF OfClient, Replayed, Reread, ReadOfProgram
<1>3. /\ list \in Seq(Instruction) /\ out = SubSeq(list, 1, Len(out)) /\ Len(out) <= Len(list)
      /\ Len(out) \in Nat
  BY ClientCount
<1> DEFINE accs == list[Len(out) + 1].accounts
<1>4. Len(accs) \in Nat
  BY <1>1, ClientNumAccounts
<1> HIDE DEF accs
<1>5. Len(ix.accounts) = 0 /\ Len(ix.accounts) <= Len(accs)
      /\ ix.accounts = SubSeq(accs, 1, Len(ix.accounts))
  BY <1>2, <1>4, SubSeqEmpty
<1>6. QED
  BY <1>1, <1>2, <1>3, <1>5 DEF Replayed, accs

(* So is the account. *)
LEMMA ReplayedAccount == OfClient /\ Account => Replayed'
<1> SUFFICES ASSUME OfClient, Account PROVE Replayed'
  OBVIOUS
<1> DEFINE x == list[Len(out) + 1]
           n == Len(ix.accounts)
           acc == [pubkey |-> Bytes(cur, KEY),
                   is_writable |-> FlagsOf(data[cur + KEY + 1]).is_writable,
                   is_signer |-> FlagsOf(data[cur + KEY + 1]).is_signer]
<1>1. /\ next = "account" /\ list' = list /\ data' = data /\ out' = out
      /\ ix' = [ix EXCEPT !.accounts = Append(ix.accounts, acc)]
      /\ next' \in {"data_len", "account"}
  BY Zenon DEF Account
<1>2. /\ n \in Nat /\ n < Len(x.accounts) /\ x.accounts \in Seq(AccountMeta)
      /\ x.accounts[n + 1] \in AccountMeta
      /\ Bytes(cur, KEY) = x.accounts[n + 1].pubkey
      /\ data[cur + KEY + 1] = Flags(x.accounts[n + 1])
  BY <1>1, ClientAccount
<1>3. acc = x.accounts[n + 1]
  <2> DEFINE y == x.accounts[n + 1]
  <2>1. /\ y \in AccountMeta /\ Bytes(cur, KEY) = y.pubkey /\ data[cur + KEY + 1] = Flags(y)
    BY <1>2
  <2> HIDE DEF y
  <2>2. /\ FlagsOf(Flags(y)).is_writable = y.is_writable
        /\ FlagsOf(Flags(y)).is_signer = y.is_signer
    BY <2>1, FlagsOfFlags
  <2>3. y = [pubkey |-> y.pubkey, is_writable |-> y.is_writable, is_signer |-> y.is_signer]
    BY <2>1, Zenon DEF AccountMeta
  <2>4. acc = y
    BY <2>1, <2>2, <2>3, Zenon
  <2>5. QED
    BY <2>4 DEF y
<1>4. next \in Open
  BY <1>1 DEF Open
<1>5. /\ Len(out) < Len(list) /\ ix.program_id = x.program_id
      /\ ix.accounts = SubSeq(x.accounts, 1, n)
  BY <1>4 DEF OfClient, Replayed
<1>6. ix \in Instruction
  <2>1. ReadOfIx
    BY <1>4, WhileOpen DEF OfClient
  <2>2. QED
    BY <2>1 DEF ReadOfIx
<1> HIDE DEF acc, n, x
<1>7. /\ ix'.program_id = x.program_id /\ ix'.accounts = Append(SubSeq(x.accounts, 1, n), x.accounts[n + 1])
  BY <1>1, <1>3, <1>5, <1>6 DEF Instruction
<1>8. SubSeq(x.accounts, 1, n + 1) = Append(SubSeq(x.accounts, 1, n), x.accounts[n + 1])
  <2>1. n + 1 \in 1..Len(x.accounts) /\ (n + 1) - 1 = n
    BY <1>2
  <2>2. SubSeq(x.accounts, 1, n + 1) = Append(SubSeq(x.accounts, 1, (n + 1) - 1), x.accounts[n + 1])
    BY <1>2, <2>1, TakeOneMore
  <2>3. QED
    BY <2>1, <2>2
<1>9. Len(ix'.accounts) = n + 1
  <2>1. ix.accounts \in Seq(AccountMeta) /\ ix'.accounts = Append(ix.accounts, acc)
        /\ acc \in AccountMeta
    BY <1>1, <1>2, <1>3, <1>6 DEF Instruction
  <2>2. QED
    BY <2>1 DEF n
<1>10. /\ Len(ix'.accounts) <= Len(x.accounts)
       /\ ix'.accounts = SubSeq(x.accounts, 1, Len(ix'.accounts))
  <2>1. Len(x.accounts) \in Nat
    BY <1>2
  <2>2. QED
    BY <1>2, <1>7, <1>8, <1>9, <2>1
<1>11. /\ list \in Seq(Instruction) /\ out = SubSeq(list, 1, Len(out)) /\ Len(out) <= Len(list)
  BY ClientCount
<1>12. QED
  BY <1>1, <1>5, <1>7, <1>10, <1>11 DEF Replayed, x

(* So is the data. *)
LEMMA ReplayedData == OfClient /\ Data => Replayed'
<1> SUFFICES ASSUME OfClient, Data PROVE Replayed'
  OBVIOUS
<1> DEFINE n == Len(out)
           x == [ix EXCEPT !.data = Bytes(cur, todo.data)]
<1>1. /\ next = "data" /\ list' = list /\ data' = data /\ out' = Append(out, x)
      /\ next' \in {"end", "program"}
  BY DEF Data
<1>2. x = list[n + 1]
  BY <1>1, ClientData
<1>3. n < Len(list)
  <2>1. next \in Open
    BY <1>1 DEF Open
  <2>2. QED
    BY <2>1 DEF OfClient, Replayed
<1>4. /\ list \in Seq(Instruction) /\ out = SubSeq(list, 1, n) /\ n \in Nat
      /\ Len(list) \in Nat /\ out \in Seq(Instruction)
  BY ClientCount
<1> HIDE DEF n, x
<1>5. n + 1 \in 1..Len(list) /\ (n + 1) - 1 = n
  BY <1>3, <1>4
<1>6. SubSeq(list, 1, n + 1) = Append(SubSeq(list, 1, (n + 1) - 1), list[n + 1])
  BY <1>4, <1>5, TakeOneMore
<1>7. out' = SubSeq(list, 1, n + 1)
  BY <1>1, <1>2, <1>4, <1>5, <1>6
<1>8. Len(out') = n + 1
  <2>1. x \in Instruction
    BY <1>2, <1>4, <1>5, ElementOfSeq
  <2>2. QED
    BY <1>1, <1>4, <2>1 DEF n
<1>9. QED
  BY <1>1, <1>4, <1>5, <1>7, <1>8 DEF Replayed, Open

(* Every read gives back what was written. *)
LEMMA ReplayedNext ==
    WithinData /\ Reread /\ Replayed /\ [DecoderNext]_decoderVars => Replayed'
<1> SUFFICES ASSUME WithinData, Reread, Replayed, [DecoderNext]_decoderVars PROVE Replayed'
  OBVIOUS
<1>1. list' = list /\ data' = data /\ list \in Seq(Instruction)
  BY DEF Replayed, DecoderNext, decoderVars, NumIxs, Program, NumAccounts, Account, DataLen,
         Data, Abort, End
<1>2. CASE data # Encode(list)
  BY <1>1, <1>2 DEF Replayed
<1>3. CASE data = Encode(list)
  <2>1. OfClient
    BY <1>3 DEF OfClient
  <2>2. /\ next # "error" /\ Len(out) <= Len(list) /\ out = SubSeq(list, 1, Len(out))
    BY <1>3 DEF Replayed
  <2>3. CASE NumIxs
    BY <1>1, <2>2, <2>3 DEF NumIxs, Replayed, Open
  <2>4. CASE DataLen
    BY <1>1, <1>3, <2>2, <2>4 DEF DataLen, Replayed, Open
  <2>5. CASE Abort
    <3>1. next \in Reads /\ ~Readable
      BY <2>5 DEF Abort, WithinData, Reads
    <3>2. Room
      BY <2>1, <3>1, ClientRoom
    <3>3. QED
      BY <3>1, <3>2, ReadFits
  <2>6. CASE End
    <3>1. cur = Len(data)
      BY <2>1, <2>6, ClientEnd DEF End
    <3>2. QED
      BY <1>1, <2>2, <2>6, <3>1 DEF End, Consumed, Replayed, Open
  <2>7. CASE UNCHANGED decoderVars
    BY <1>1, <1>3, <2>7 DEF decoderVars, Replayed, Open
  <2>8. QED
    BY <2>1, <2>3, <2>4, <2>5, <2>6, <2>7, ReplayedProgram, ReplayedNumAccounts,
       ReplayedAccount, ReplayedData
    DEF DecoderNext
<1>4. QED
  BY <1>2, <1>3

(* What the client encoded, the program decodes to the same list           *)
(* (vector.ts:131-180 against sub_instructions.rs:34-81).                  *)
THEOREM EncodedIsDecoded == DecoderSpec => []RoundTrip
<1>1. DecoderInit => WithinData /\ Reread /\ Replayed
  BY DecoderInitInv, RereadInit, ReplayedInit
<1>2. WithinData /\ Reread /\ Replayed /\ [DecoderNext]_decoderVars
         => (WithinData /\ Reread /\ Replayed)'
  BY DecoderNextInv, RereadNext, ReplayedNext
<1>3. WithinData /\ Reread /\ Replayed => RoundTrip
  <2> SUFFICES ASSUME WithinData, Reread, Replayed, next \in {"ok", "error", "panic"},
                      data = Encode(list)
               PROVE  next = "ok" /\ out = list
    BY DEF RoundTrip
  <2>1. OfClient /\ next = "ok"
    BY DEF OfClient, Replayed, WithinData, Reads
  <2>2. QED
    BY <2>1, ClientEnd
<1>4. QED
  BY <1>1, <1>2, <1>3, PTL DEF DecoderSpec

-----------------------------------------------------------------------------
(* Amounts.  A decimal of base units is read and multiplied, each time to  *)
(* the nearest number of P bits, and rounded to a whole number.  Each      *)
(* nearest number is off by one part in 2^P at most; of less than 2^(P-2)  *)
(* base units the two errors are less than a half.                         *)

(* The recursion Power is defined by. *)
Powers(p, b, n) == p = [i \in 0..n |-> IF i = 0 THEN 1 ELSE b * p[i - 1]]

(* There is such a function. *)
LEMMA PowersExist ==
    ASSUME NEW b \in Nat, NEW n \in Nat
    PROVE  \E p : Powers(p, b, n)
<1> DEFINE A == {k \in Nat : \E p : Powers(p, b, k)}
<1>1. 0 \in A
  <2> DEFINE p == [i \in 0..0 |-> 1]
  <2>1. \A i \in 0..0 : i = 0
    OBVIOUS
  <2>2. Powers(p, b, 0)
    BY <2>1 DEF Powers
  <2>3. QED
    BY <2>2
<1>2. ASSUME NEW k \in Nat, k \in A PROVE k + 1 \in A
  <2>1. PICK p : Powers(p, b, k)
    BY <1>2
  <2> DEFINE h == [i \in 0..k + 1 |-> IF i = 0 THEN 1 ELSE b * p[i - 1]]
  <2>2. ASSUME NEW i \in 0..k + 1
        PROVE  h[i] = IF i = 0 THEN 1 ELSE b * h[i - 1]
    <3>1. CASE i = 0
      BY <3>1
    <3>2. CASE i # 0
      <4>1. i - 1 \in 0..k /\ i - 1 \in 0..k + 1
        BY <3>2
      <4>2. h[i - 1] = IF i - 1 = 0 THEN 1 ELSE b * p[i - 1 - 1]
        BY <4>1
      <4>3. p[i - 1] = IF i - 1 = 0 THEN 1 ELSE b * p[i - 1 - 1]
        BY <2>1, <4>1 DEF Powers
      <4>4. h[i - 1] = p[i - 1]
        BY <4>2, <4>3
      <4>5. QED
        BY <3>2, <4>4
    <3>3. QED
      BY <3>1, <3>2
  <2>3. Powers(h, b, k + 1)
    BY <2>2 DEF Powers
  <2>4. QED
    BY <2>3
<1>3. Nat \subseteq A
  <2> HIDE DEF A
  <2>1. QED
    BY <1>1, <1>2, Induct
<1>4. QED
  BY <1>3

(* Power is the last value of such a function. *)
LEMMA PowerOf ==
    ASSUME NEW b \in Nat, NEW n \in Nat
    PROVE  \E p : Powers(p, b, n) /\ Power(b, n) = p[n]
<1> DEFINE p == CHOOSE p : Powers(p, b, n)
<1>1. Powers(p, b, n)
  BY PowersExist
<1>2. Power(b, n) = p[n]
  BY DEF Power, Powers
<1>3. QED
  BY <1>1, <1>2

(* Two such functions agree as far as both go. *)
LEMMA PowersAgree ==
    ASSUME NEW b \in Nat, NEW n \in Nat, NEW m \in Nat, NEW p, NEW q,
           Powers(p, b, n), Powers(q, b, m), n <= m
    PROVE  p[n] = q[n]
<1> DEFINE A == {k \in Nat : k <= n => p[k] = q[k]}
<1>1. 0 \in A
  <2>1. 0 \in 0..n /\ 0 \in 0..m
    OBVIOUS
  <2>2. p[0] = 1 /\ q[0] = 1
    BY <2>1 DEF Powers
  <2>3. QED
    BY <2>2
<1>2. ASSUME NEW k \in Nat, k \in A PROVE k + 1 \in A
  <2> SUFFICES ASSUME k + 1 <= n PROVE p[k + 1] = q[k + 1]
    OBVIOUS
  <2>1. k + 1 \in 0..n /\ k + 1 \in 0..m /\ k + 1 # 0 /\ (k + 1) - 1 = k
    OBVIOUS
  <2>2. p[k + 1] = b * p[k] /\ q[k + 1] = b * q[k]
    BY <2>1 DEF Powers
  <2>3. QED
    BY <1>2, <2>2
<1>3. Nat \subseteq A
  <2> HIDE DEF A
  <2>1. QED
    BY <1>1, <1>2, Induct
<1>4. QED
  BY <1>3

(* The first power. *)
LEMMA PowerZero ==
    ASSUME NEW b \in Nat
    PROVE  Power(b, 0) = 1
<1>1. PICK p : Powers(p, b, 0) /\ Power(b, 0) = p[0]
  BY PowerOf
<1>2. 0 \in 0..0
  OBVIOUS
<1>3. QED
  BY <1>1, <1>2 DEF Powers

(* And each from the one before. *)
LEMMA PowerNext ==
    ASSUME NEW b \in Nat, NEW n \in Nat
    PROVE  Power(b, n + 1) = b * Power(b, n)
<1>1. PICK p : Powers(p, b, n) /\ Power(b, n) = p[n]
  BY PowerOf
<1>2. PICK q : Powers(q, b, n + 1) /\ Power(b, n + 1) = q[n + 1]
  BY PowerOf
<1>3. p[n] = q[n]
  BY <1>1, <1>2, PowersAgree
<1>4. n + 1 \in 0..n + 1 /\ n + 1 # 0 /\ (n + 1) - 1 = n
  OBVIOUS
<1>5. q[n + 1] = b * q[n]
  BY <1>2, <1>4 DEF Powers
<1>6. QED
  BY <1>1, <1>2, <1>3, <1>5

(* A power of a positive number is one. *)
LEMMA PowerType ==
    ASSUME NEW b \in Nat \ {0}, NEW n \in Nat
    PROVE  Power(b, n) \in Nat \ {0}
<1> DEFINE A == {k \in Nat : Power(b, k) \in Nat \ {0}}
<1>1. 0 \in A
  BY PowerZero
<1>2. ASSUME NEW k \in Nat, k \in A PROVE k + 1 \in A
  <2>1. Power(b, k + 1) = b * Power(b, k)
    BY PowerNext
  <2> DEFINE x == Power(b, k)
  <2>2. x \in Nat \ {0}
    BY <1>2
  <2> HIDE DEF x
  <2>3. b * x \in Nat \ {0}
    BY <2>2
  <2>4. QED
    BY <2>1, <2>3 DEF x
<1>3. Nat \subseteq A
  <2> HIDE DEF A
  <2>1. QED
    BY <1>1, <1>2, Induct
<1>4. QED
  BY <1>3

(* The same of two. *)
LEMMA PowersOfTwo ==
    \A n \in Nat : Power(2, n) \in Nat \ {0} /\ Power(2, n + 1) = 2 * Power(2, n)
<1> SUFFICES ASSUME NEW n \in Nat
             PROVE  Power(2, n) \in Nat \ {0} /\ Power(2, n + 1) = 2 * Power(2, n)
  OBVIOUS
<1>1. 2 \in Nat \ {0}
  OBVIOUS
<1>2. QED
  BY <1>1, PowerType, PowerNext

-----------------------------------------------------------------------------
(* Rounding is wrong by half at most. *)
LEMMA NearestError ==
    ASSUME NEW a \in Nat, NEW b \in Nat \ {0}
    PROVE  /\ Nearest(a, b) \in Nat
           /\ 2 * (Nearest(a, b) * b - a) <= b
           /\ 2 * (a - Nearest(a, b) * b) <= b
<1> DEFINE q == a \div b
           r == a % b
<1>1. q \in Nat /\ r \in Nat /\ r < b /\ a = b * q + r
  OBVIOUS
<1>2. Nearest(a, b) = IF 2 * r < b \/ (2 * r = b /\ q % 2 = 0) THEN q ELSE q + 1
  BY DEF Nearest
<1> HIDE DEF q, r
<1>3. CASE Nearest(a, b) = q /\ 2 * r <= b
  <2>1. q * b = b * q
    BY <1>1
  <2>2. QED
    BY <1>1, <1>3, <2>1
<1>4. CASE Nearest(a, b) = q + 1 /\ b <= 2 * r
  <2>1. (q + 1) * b = b * q + b
    BY <1>1
  <2>2. QED
    BY <1>1, <1>4, <2>1
<1>5. QED
  BY <1>1, <1>2, <1>3, <1>4

(* Multiplication keeps order. *)
LEMMA TimesMonotone ==
    ASSUME NEW x \in Int, NEW y \in Int, NEW c \in Nat, x <= y
    PROVE  c * x <= c * y
OBVIOUS

(* Strictly, both ways. *)
LEMMA TimesStrict ==
    ASSUME NEW x \in Int, NEW y \in Int, NEW c \in Nat \ {0}
    PROVE  c * x < c * y <=> x < y
OBVIOUS

(* Half of b at most is a part of w that is as small as b is. *)
LEMMA RelativeError ==
    ASSUME NEW d \in Int, NEW b \in Nat, NEW w \in Nat, NEW h \in Nat,
           2 * d <= b, b * h <= w
    PROVE  (2 * h) * d <= w
<1>1. h * (2 * d) <= h * b
  BY TimesMonotone
<1>2. h * (2 * d) = (2 * h) * d /\ h * b = b * h
  OBVIOUS
<1>3. h * b \in Int /\ (2 * h) * d \in Int
  OBVIOUS
<1>4. QED
  BY <1>1, <1>2, <1>3

(* Among the first powers of two that are large enough one is not too large. *)
LEMMA ExponentExists ==
    ASSUME NEW a \in Nat \ {0}, NEW b \in Nat \ {0}, NEW n \in Nat, n <= MaxExponent,
           a < b * Power(2, P), b * Power(2, P - 1) <= a * Power(2, n)
    PROVE  \E i \in 0..MaxExponent : Significant(a * Power(2, i), b)
<1> DEFINE h == Power(2, P - 1)
           T == {i \in Nat : b * h <= a * Power(2, i)}
<1>1. P - 1 \in Nat /\ (P - 1) + 1 = P /\ MaxExponent \in Nat
  BY AmountsAssumption
<1>2. h \in Nat /\ Power(2, P) = 2 * h
  BY <1>1, PowersOfTwo
<1> HIDE DEF h
<1>3. n \in T
  BY DEF h
<1>4. PICK i \in T : \A j \in T : i <= j
  <2> HIDE DEF T
  <2>1. T \in SUBSET Nat
    BY DEF T
  <2>2. QED
    BY <1>3, <2>1, LeastNatural
<1>5. i \in 0..MaxExponent
  BY <1>1, <1>3, <1>4
<1>6. a * Power(2, i) < b * (2 * h)
  <2>1. CASE i = 0
    BY <2>1, <1>2, PowerZero
  <2>2. CASE i # 0
    <3>1. i - 1 \in Nat /\ i - 1 < i /\ (i - 1) + 1 = i
      BY <2>2
    <3>2. ~(b * h <= a * Power(2, i - 1))
      BY <1>4, <3>1
    <3> DEFINE y == Power(2, i - 1)
    <3>3. y \in Nat /\ Power(2, i) = 2 * y
      <4>1. Power(2, i - 1) \in Nat /\ Power(2, (i - 1) + 1) = 2 * Power(2, i - 1)
        BY <3>1, PowersOfTwo
      <4>2. QED
        BY <3>1, <4>1
    <3> HIDE DEF y
    <3>4. a * y < b * h
      BY <1>2, <3>2, <3>3 DEF y
    <3>5. a * (2 * y) = 2 * (a * y) /\ b * (2 * h) = 2 * (b * h)
      BY <1>2, <3>3
    <3>6. a * y \in Int /\ b * h \in Int
      BY <1>2, <3>3
    <3>7. QED
      BY <3>3, <3>4, <3>5, <3>6
  <2>3. QED
    BY <2>1, <2>2
<1>7. b * h <= a * Power(2, i)
  BY <1>4
<1>8. QED
  BY <1>2, <1>5, <1>6, <1>7 DEF Significant, h

(* A fraction below 2^P, and not so small that MaxExponent is reached, is  *)
(* off by one part in 2^P at most when it is read.                         *)
LEMMA FloatError ==
    ASSUME NEW a \in Nat \ {0}, NEW b \in Nat \ {0}, NEW n \in Nat, n <= MaxExponent,
           a < b * Power(2, P), b * Power(2, P - 1) <= a * Power(2, n)
    PROVE  \E k \in Nat, m \in Nat :
              /\ Float(a, b) = [m |-> m, e |-> -k]
              /\ Power(2, P) * (m * b - a * Power(2, k)) <= a * Power(2, k)
              /\ Power(2, P) * (a * Power(2, k) - m * b) <= a * Power(2, k)
<1> DEFINE k == CHOOSE i \in 0..MaxExponent : Significant(a * Power(2, i), b)
           m == Nearest(a * Power(2, k), b)
<1>1. k \in 0..MaxExponent /\ Significant(a * Power(2, k), b)
  BY ExponentExists
<1>2. Float(a, b) = [m |-> m, e |-> -k]
  <2>1. a # 0 /\ a > 0
    OBVIOUS
  <2>2. QED
    BY <2>1 DEF Float
<1>3. k \in Nat
  BY <1>1, AmountsAssumption
<1> HIDE DEF k
<1> DEFINE w == a * Power(2, k)
<1>4. w \in Nat
  <2>1. Power(2, k) \in Nat
    BY <1>3, PowersOfTwo
  <2>2. QED
    BY <2>1
<1>5. /\ m \in Nat
      /\ 2 * (m * b - w) <= b
      /\ 2 * (w - m * b) <= b
  <2> HIDE DEF w
  <2> DEFINE z == Nearest(w, b)
  <2>1. z \in Nat /\ 2 * (z * b - w) <= b /\ 2 * (w - z * b) <= b
    BY <1>4, NearestError
  <2>2. m = z
    BY DEF w
  <2> HIDE DEF m, z
  <2>3. QED
    BY <2>1, <2>2
<1> HIDE DEF m
<1> DEFINE h == Power(2, P - 1)
<1>6. h \in Nat /\ Power(2, P) = 2 * h
  <2>1. P - 1 \in Nat /\ (P - 1) + 1 = P
    BY AmountsAssumption
  <2>2. QED
    BY <2>1, PowersOfTwo
<1>7. b * h <= w
  BY <1>1 DEF Significant
<1>8. (2 * h) * (m * b - w) <= w /\ (2 * h) * (w - m * b) <= w
  <2> HIDE DEF h, w
  <2>1. m * b - w \in Int /\ w - m * b \in Int
    BY <1>4, <1>5
  <2>2. QED
    BY <1>4, <1>5, <1>6, <1>7, <2>1, RelativeError
<1>9. QED
  BY <1>2, <1>3, <1>5, <1>6, <1>8

-----------------------------------------------------------------------------
(* Two errors of one part in q, of a number less than a quarter of q, are  *)
(* less than a half: w is the number meant, over a denominator c, v what   *)
(* the first error d2 leaves of it, and d1 the error made on v.            *)
LEMMA TwoErrors ==
    ASSUME NEW q \in Nat \ {0}, NEW t \in Nat, 4 * (t + 1) <= q, NEW c \in Nat \ {0},
           NEW v \in Int, NEW w \in Int, w = t * c, q * (v - w) <= w,
           NEW d1 \in Int, NEW d2 \in Int, q * d1 <= v, q * d2 <= w
    PROVE  2 * (d1 + d2) < c
<1>1. q * v <= q * w + w
  <2>1. q * (v - w) = q * v - q * w
    OBVIOUS
  <2>2. q * v \in Int /\ q * w \in Int
    OBVIOUS
  <2>3. QED
    BY <2>1, <2>2
<1>2. q * (q * d1) <= q * v /\ q * (q * d2) <= q * w
  <2>1. q * d1 \in Int /\ q * d2 \in Int
    OBVIOUS
  <2>2. QED
    BY <2>1, TimesMonotone
<1>3. (q * q) * (d1 + d2) <= 2 * (q * w) + w
  <2> DEFINE x == q * (q * d1)
             y == q * (q * d2)
             z == q * w
             n == q * v
  <2>1. x \in Int /\ y \in Int /\ z \in Int /\ n \in Int
    OBVIOUS
  <2>2. (q * q) * (d1 + d2) = x + y
    OBVIOUS
  <2>3. x <= n /\ y <= z /\ n <= z + w
    BY <1>1, <1>2
  <2> HIDE DEF x, y, z, n
  <2>4. x + y <= 2 * z + w
    BY <2>1, <2>3
  <2>5. QED
    BY <2>2, <2>4 DEF z
(* Now w is t * c, and 2 * t * (2 * q + 1) less than q * q.                *)
<1>4. 2 * (2 * (q * t) + t) < q * q
  <2>1. 4 * (q * t) + 4 * q <= q * q
    <3>1. q * (4 * (t + 1)) <= q * q
      <4>1. 4 * (t + 1) \in Int
        OBVIOUS
      <4>2. QED
        BY <4>1, TimesMonotone
    <3>2. q * (4 * (t + 1)) = 4 * (q * t) + 4 * q
      OBVIOUS
    <3>3. QED
      BY <3>1, <3>2
  <2>2. t < q
    OBVIOUS
  <2>3. q * t \in Int /\ q * q \in Int
    OBVIOUS
  <2>4. QED
    BY <2>1, <2>2, <2>3
<1>5. 2 * (2 * (q * w) + w) < (q * q) * c
  <2> DEFINE s == 2 * (2 * (q * t) + t)
  <2>1. s \in Int /\ q * q \in Int
    OBVIOUS
  <2>2. c * s < c * (q * q)
    <3>1. s < q * q
      BY <1>4
    <3> HIDE DEF s
    <3>2. QED
      BY <2>1, <3>1, TimesStrict
  <2>3. c * s = 2 * (2 * (q * w) + w)
    <3>1. q * w = (q * t) * c
      OBVIOUS
    <3>2. q * t \in Int
      OBVIOUS
    <3>3. \A x \in Int : c * (2 * (2 * x + t)) = 2 * (2 * (x * c) + t * c)
      OBVIOUS
    <3>4. QED
      BY <3>1, <3>2, <3>3
  <2>4. c * (q * q) = (q * q) * c
    OBVIOUS
  <2>5. QED
    BY <2>2, <2>3, <2>4
<1>6. (q * q) * (2 * (d1 + d2)) < (q * q) * c
  <2> DEFINE x == (q * q) * (d1 + d2)
             z == q * w
             b == (q * q) * c
  <2>1. x \in Int /\ z \in Int /\ b \in Int
    OBVIOUS
  <2>2. x <= 2 * z + w /\ 2 * (2 * z + w) < b
    BY <1>3, <1>5
  <2>3. (q * q) * (2 * (d1 + d2)) = 2 * x
    OBVIOUS
  <2> HIDE DEF x, z, b
  <2>4. 2 * x < b
    BY <2>1, <2>2
  <2>5. QED
    BY <2>3, <2>4 DEF b
<1>7. q * q \in Nat \ {0} /\ 2 * (d1 + d2) \in Int
  OBVIOUS
<1>8. QED
  BY <1>6, <1>7, TimesStrict

(* A quotient is what it is between. *)
LEMMA QuotientIs ==
    ASSUME NEW y \in Int, NEW d \in Nat \ {0}, NEW t \in Int, t * d <= y, y < (t + 1) * d
    PROVE  y \div d = t
<1> DEFINE z == y \div d
           r == y % d
<1>1. z \in Int /\ r \in 0..d - 1 /\ y = d * z + r
  OBVIOUS
<1> HIDE DEF z, r
<1>2. d * z < d * (t + 1) /\ d * t < d * (z + 1)
  <2>1. d * (t + 1) = (t + 1) * d /\ d * t = t * d /\ d * (z + 1) = d * z + d
    BY <1>1
  <2>2. d * z \in Int /\ (t + 1) * d \in Int /\ t * d \in Int
    BY <1>1
  <2>3. QED
    BY <1>1, <2>1, <2>2
<1>3. z < t + 1 /\ t < z + 1
  BY <1>1, <1>2, TimesStrict
<1>4. QED
  BY <1>1, <1>3 DEF z

(* A negative exponent, as a difference. *)
LEMMA Negated ==
    ASSUME NEW k \in Int
    PROVE  -k = 0 - k
OBVIOUS

(* A number less than a half from t is rounded to t. *)
LEMMA RoundIs ==
    ASSUME NEW k \in Nat, NEW m \in Nat, NEW t \in Nat,
           2 * (m - t * Power(2, k)) < Power(2, k), 2 * (t * Power(2, k) - m) < Power(2, k)
    PROVE  Round([m |-> m, e |-> -k]) = t
<1> DEFINE l == Power(2, k)
<1>1. l \in Nat \ {0}
  BY PowersOfTwo
<1>2. CASE k = 0
  <2>1. Power(2, 0) = 1
    BY PowerZero
  <2>2. -k = 0
    <3>1. -k = 0 - k
      BY Negated
    <3>2. 0 - k = 0
      BY <1>2
    <3>3. QED
      BY ONLY <3>1, <3>2
  <2>3. Round([m |-> m, e |-> 0]) = m * Power(2, 0)
    BY DEF Round
  <2>4. m = t
    BY <1>2, <2>1
  <2>5. QED
    BY <2>1, <2>2, <2>3, <2>4
<1>3. CASE k # 0
  <2>1. ~(-k >= 0) /\ -(-k) = k
    BY <1>3
  <2>2. Round([m |-> m, e |-> -k]) = (2 * m + l) \div (2 * l)
    BY <2>1 DEF Round
  <2>3. 2 * (m - t * l) < l /\ 2 * (t * l - m) < l
    OBVIOUS
  <2> HIDE DEF l
  <2>4. t * (2 * l) = 2 * (t * l) /\ (t + 1) * (2 * l) = 2 * (t * l) + 2 * l /\ t * l \in Int
    BY <1>1
  <2>5. t * (2 * l) <= 2 * m + l /\ 2 * m + l < (t + 1) * (2 * l)
    BY <1>1, <2>3, <2>4
  <2>6. 2 * l \in Nat \ {0} /\ 2 * m + l \in Int
    BY <1>1
  <2>7. (2 * m + l) \div (2 * l) = t
    BY <2>5, <2>6, QuotientIs
  <2>8. QED
    BY <2>2, <2>7
<1>4. QED
  BY <1>2, <1>3

(* A product is a quotient of whole numbers, rounded. *)
LEMMA TimesIs ==
    ASSUME NEW k \in Nat, NEW m \in Nat, NEW n \in Nat
    PROVE  Times([m |-> m, e |-> -k], n) = Float(m * n, Power(2, k))
<1>1. CASE k = 0
  <2>1. Power(2, 0) = 1
    BY PowerZero
  <2>2. -k = 0
    <3>1. -k = 0 - k
      BY Negated
    <3>2. 0 - k = 0
      BY <1>1
    <3>3. QED
      BY ONLY <3>1, <3>2
  <2>3. Times([m |-> m, e |-> 0], n) = Float(m * Power(2, 0) * n, 1)
    BY DEF Times
  <2>4. m * 1 * n = m * n
    OBVIOUS
  <2>5. QED
    BY <1>1, <2>1, <2>2, <2>3, <2>4
<1>2. CASE k # 0
  <2>1. ~(-k >= 0) /\ -(-k) = k
    BY <1>2
  <2>2. QED
    BY <2>1 DEF Times
<1>3. QED
  BY <1>1, <1>2

(* A decimal of fewer than 2^(P-2) base units, read, multiplied and        *)
(* rounded.                                                                *)
LEMMA ScaledIsTyped ==
    ASSUME NEW t \in Nat, t < Power(2, P - 2), NEW b \in Nat \ {0},
           b * Power(2, P - 1) <= Power(2, MaxExponent)
    PROVE  Round(Times(Float(t, b), b)) = t
<1> DEFINE h == Power(2, P - 1)
           q == Power(2, P)
<1>1. P - 1 \in Nat /\ P - 2 \in Nat /\ P \in Nat /\ MaxExponent \in Nat /\ P <= MaxExponent
  BY AmountsAssumption
<1>2. /\ (P - 2) + 1 = P - 1 /\ (P - 1) + 1 = P
      /\ Power(2, P - 2) \in Nat
  BY <1>1, PowersOfTwo
<1>3. h \in Nat \ {0} /\ q = 2 * h /\ 4 * (t + 1) <= q
  <2>1. h = 2 * Power(2, P - 2) /\ q = 2 * h
    BY <1>1, <1>2, PowersOfTwo
  <2>2. h \in Nat \ {0}
    BY <1>1, PowersOfTwo
  <2> HIDE DEF h, q
  <2>3. QED
    BY <1>2, <2>1, <2>2
<1>4. CASE t = 0
  <2>1. Power(2, 0) = 1
    BY PowerZero
  <2>2. \A n : Float(0, n) = [m |-> 0, e |-> 0]
    BY DEF Float
  <2>3. Times([m |-> 0, e |-> 0], b) = Float(0 * Power(2, 0) * b, 1)
    BY DEF Times
  <2>4. 0 * 1 * b = 0
    OBVIOUS
  <2>5. Round([m |-> 0, e |-> 0]) = 0 * Power(2, 0)
    BY DEF Round
  <2>6. 0 * 1 = 0
    OBVIOUS
  <2>7. Times([m |-> 0, e |-> 0], b) = [m |-> 0, e |-> 0]
    BY <2>1, <2>2, <2>3, <2>4
  <2>8. QED
    BY <1>4, <2>1, <2>2, <2>5, <2>6, <2>7
<1>5. CASE t # 0
  <2>1. t \in Nat \ {0} /\ q \in Nat \ {0}
    BY <1>3, <1>5
  (* The number read. *)
  <2>2. PICK k \in Nat, m \in Nat :
           /\ Float(t, b) = [m |-> m, e |-> -k]
           /\ q * (m * b - t * Power(2, k)) <= t * Power(2, k)
           /\ q * (t * Power(2, k) - m * b) <= t * Power(2, k)
    <3>1. t < b * q
      <4>1. q * 1 <= q * b
        <5> HIDE DEF q
        <5>1. QED
          BY <2>1, TimesMonotone
      <4>2. q * b = b * q /\ q * 1 = q /\ b * q \in Int
        <5> HIDE DEF q
        <5>1. QED
          BY <2>1
      <4>3. t < q
        <5> HIDE DEF q
        <5>1. QED
          BY <1>3, <2>1
      <4> HIDE DEF q
      <4>4. QED
        BY <2>1, <4>1, <4>2, <4>3
    <3>2. b * h <= t * Power(2, MaxExponent)
      <4> DEFINE z == Power(2, MaxExponent)
      <4>1. z \in Nat
        BY <1>1, PowersOfTwo
      <4>2. b * h <= z
        OBVIOUS
      <4> HIDE DEF z, h
      <4>3. z * 1 <= z * t /\ z * t = t * z /\ b * h \in Int /\ t * z \in Int
        BY <1>3, <2>1, <4>1, TimesMonotone
      <4>4. b * h <= t * z
        BY <4>1, <4>2, <4>3
      <4>5. QED
        BY <4>4 DEF z
    <3>3. QED
      BY <1>1, <2>1, <3>1, <3>2, FloatError
  <2> DEFINE l == Power(2, k)
             a == m * b
             w == t * l
  <2>3. l \in Nat \ {0}
    BY PowersOfTwo
  <2>4. a \in Nat /\ w \in Nat \ {0}
    <3> HIDE DEF l
    <3>1. QED
      BY <2>1, <2>3
  <2>5. q * (a - w) <= w /\ q * (w - a) <= w
    BY <2>2
  (* It is neither as much as twice nor as little as half. *)
  <2>6. a <= 2 * w /\ w <= 2 * a /\ l <= w
    <3>1. q >= 2
      <4> HIDE DEF q
      <4>1. QED
        BY <1>3, <2>1
    <3>2. l <= w
      <4> HIDE DEF l
      <4>1. l * 1 <= l * t
        BY <2>1, <2>3, TimesMonotone
      <4>2. QED
        BY <2>1, <2>3, <4>1
    <3> HIDE DEF q, a, w
    <3>3. CASE a >= w
      <4>1. (a - w) * 2 <= (a - w) * q
        <5>1. a - w \in Nat
          BY <2>4, <3>3
        <5>2. QED
          BY <2>1, <3>1, <5>1, TimesMonotone
      <4>2. (a - w) * q = q * (a - w) /\ q * (a - w) \in Int
        BY <2>1, <2>4
      <4>3. QED
        BY <2>4, <2>5, <3>2, <3>3, <4>1, <4>2
    <3>4. CASE a < w
      <4>1. (w - a) * 2 <= (w - a) * q
        <5>1. w - a \in Nat
          BY <2>4, <3>4
        <5>2. QED
          BY <2>1, <3>1, <5>1, TimesMonotone
      <4>2. (w - a) * q = q * (w - a) /\ q * (w - a) \in Int
        BY <2>1, <2>4
      <4>3. QED
        BY <2>4, <2>5, <3>2, <3>4, <4>1, <4>2
    <3>5. QED
      BY <2>4, <3>3, <3>4
  <2>7. a \in Nat \ {0} /\ l <= 2 * a
    <3> HIDE DEF a, w, l
    <3>1. QED
      BY <2>3, <2>4, <2>6
  (* The product. *)
  <2>8. PICK j \in Nat, n \in Nat :
           /\ Float(a, l) = [m |-> n, e |-> -j]
           /\ q * (n * l - a * Power(2, j)) <= a * Power(2, j)
           /\ q * (a * Power(2, j) - n * l) <= a * Power(2, j)
    <3>1. a < l * q
      <4>1. 2 * t < q
        <5> HIDE DEF q
        <5>1. QED
          BY <1>3, <2>1
      <4>2. l * (2 * t) < l * q
        <5> HIDE DEF q, l
        <5>1. 2 * t \in Int
          OBVIOUS
        <5>2. QED
          BY <2>1, <2>3, <4>1, <5>1, TimesStrict
      <4>3. l * (2 * t) = 2 * w
        <5> HIDE DEF l
        <5>1. QED
          BY <2>3
      <4>4. l * q \in Int
        <5> HIDE DEF l, q
        <5>1. QED
          BY <2>1, <2>3
      <4> HIDE DEF l, q, a, w
      <4>5. QED
        BY <2>4, <2>6, <4>2, <4>3, <4>4
    <3>2. l * h <= a * q
      <4> HIDE DEF l, q, a, h
      <4>1. h * l <= h * (2 * a)
        <5>1. 2 * a \in Int
          BY <2>4
        <5>2. QED
          BY <1>3, <2>3, <2>7, <5>1, TimesMonotone
      <4>2. h * l = l * h /\ h * (2 * a) = a * (2 * h) /\ q = 2 * h
        BY <1>3, <2>3, <2>4
      <4>3. QED
        BY <4>1, <4>2
    <3> HIDE DEF a, l
    <3>3. QED
      BY <1>1, <2>3, <2>7, <3>1, <3>2, FloatError
  <2> DEFINE g == Power(2, j)
             u == n * l
             v == a * g
             c == g * l
  <2>9. g \in Nat \ {0}
    BY PowersOfTwo
  <2>10. /\ u \in Nat /\ v \in Nat /\ c \in Nat \ {0}
         /\ g * w = t * c
    <3> HIDE DEF g, l, a
    <3>1. QED
      BY <2>3, <2>4, <2>9
  <2>11. /\ q * (v - t * c) <= t * c
         /\ q * (t * c - v) <= t * c
    <3>1. g * (q * (a - w)) <= g * w /\ g * (q * (w - a)) <= g * w
      <4> HIDE DEF g, a, w, q
      <4>1. q * (a - w) \in Int /\ q * (w - a) \in Int
        BY <2>1, <2>4
      <4>2. QED
        BY <2>4, <2>5, <2>9, <4>1, TimesMonotone
    <3>2. g * (q * (a - w)) = q * (v - g * w) /\ g * (q * (w - a)) = q * (g * w - v)
      <4> HIDE DEF g, a, w, q
      <4>1. QED
        BY <2>1, <2>4, <2>9
    <3> HIDE DEF g, a, w, q, v, c
    <3>3. QED
      BY <2>10, <3>1, <3>2
  <2>12. 2 * (u - t * c) < c /\ 2 * (t * c - u) < c
    <3>1. q * (u - v) <= v /\ q * (v - u) <= v
      BY <2>8
    <3> HIDE DEF q, u, v, c, w
    <3>2. u - v \in Int /\ v - u \in Int /\ t * c \in Int
      BY <2>10
    <3>3. v - t * c \in Int /\ t * c - v \in Int
      BY <2>10, <3>2
    <3>4. 2 * ((u - v) + (v - t * c)) < c
      BY <1>3, <2>1, <2>10, <2>11, <3>1, <3>2, <3>3, TwoErrors
    <3>5. 2 * ((v - u) + (t * c - v)) < c
      BY <1>3, <2>1, <2>10, <2>11, <3>1, <3>2, <3>3, TwoErrors
    <3>6. (u - v) + (v - t * c) = u - t * c /\ (v - u) + (t * c - v) = t * c - u
      BY <2>10, <3>2
    <3>7. QED
      BY <3>4, <3>5, <3>6
  <2>13. 2 * (n - t * g) < g /\ 2 * (t * g - n) < g
    <3> HIDE DEF g, l
    <3>1. /\ 2 * (u - t * c) = l * (2 * (n - t * g))
          /\ 2 * (t * c - u) = l * (2 * (t * g - n))
          /\ c = l * g
      BY <2>3, <2>9
    <3>2. 2 * (n - t * g) \in Int /\ 2 * (t * g - n) \in Int
      BY <2>9
    <3>3. /\ l * (2 * (n - t * g)) < l * g
          /\ l * (2 * (t * g - n)) < l * g
      BY ONLY <2>12, <3>1
    <3>4. QED
      BY <2>3, <2>9, <3>2, <3>3, TimesStrict
  <2>14. Round([m |-> n, e |-> -j]) = t
    BY <2>13, RoundIs
  <2>15. Times(Float(t, b), b) = [m |-> n, e |-> -j]
    <3>1. Times([m |-> m, e |-> -k], b) = Float(a, l)
      BY TimesIs
    <3>2. QED
      BY <2>2, <2>8, <3>1
  <2>16. QED
    BY <2>14, <2>15
<1>6. QED
  BY <1>4, <1>5

(* What has been read and scaled so far is what was typed, read and scaled. *)
OfTyped ==
    /\ decimals \in Decimals /\ typed \in Nat
    /\ amount # NoNumber => amount = Float(typed, Power(10, decimals))
    /\ raw # None => raw = Round(Times(Float(typed, Power(10, decimals)), Power(10, decimals)))

(* OfTyped is an invariant. *)
LEMMA OfTypedInv == AmountSpec => []OfTyped
<1>1. AmountInit => OfTyped
  BY AmountsAssumption DEF AmountInit, OfTyped
<1>2. ASSUME OfTyped, [AmountNext]_amountVars PROVE OfTyped'
  <2>1. CASE Read
    BY <1>2, <2>1 DEF OfTyped, Read
  <2>2. CASE Scale
    BY <1>2, <2>2 DEF OfTyped, Scale
  <2>3. CASE UNCHANGED amountVars
    BY <1>2, <2>3 DEF OfTyped, amountVars
  <2>4. QED
    BY <1>2, <2>1, <2>2, <2>3 DEF AmountNext
<1>3. QED
  BY <1>1, <1>2, PTL DEF AmountSpec

(* An amount of less than 2^(P-2) base units goes into the instruction as  *)
(* it was typed, for numbers of any precision and mints of any decimals:   *)
(* of an amount on the command line Math.round(amount * 10^decimals) is    *)
(* that amount.  (sol_transfer.ts:47, token_transfer.ts:40.)               *)
THEOREM AmountIsTyped == AmountSpec => []AsTyped
<1>1. ASSUME OfTyped PROVE AsTyped
  <2> SUFFICES ASSUME raw # None, typed < Power(2, P - 2) PROVE raw = typed
    BY DEF AsTyped
  <2> DEFINE b == Power(10, decimals)
  <2>1. raw = Round(Times(Float(typed, b), b)) /\ typed \in Nat
    BY <1>1 DEF OfTyped
  <2>2. decimals \in Nat /\ b * Power(2, P - 1) <= Power(2, MaxExponent)
    BY <1>1, AmountsAssumption DEF OfTyped
  <2>3. b \in Nat \ {0}
    BY <2>2, PowerType
  <2> HIDE DEF b
  <2>4. QED
    BY <2>1, <2>2, <2>3, ScaledIsTyped
<1>2. QED
  BY <1>1, OfTypedInv, PTL
=============================================================================
