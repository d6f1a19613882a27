---------------------------- MODULE CommandProofs ----------------------------
(***************************************************************************)
(* What the lists of the construct commands do.                            *)
(*                                                                         *)
(* Governing tokens: for any realm, proposals and funds, any number of     *)
(* signed files and closes, and any order of deposits, votes, ends of      *)
(* proposals and withdrawals.  Each list is one instruction; the first     *)
(* lemmas say what broadcast and SPL Governance look at in it, and the     *)
(* rest argue from that.                                                   *)
(*                                                                         *)
(* The offline screen: for any recipients, mints, validators, proposals    *)
(* and addresses, and a file changed any number of times.  What a change   *)
(* cannot take from an instruction (Sound) and what a command gives it     *)
(* (Good) make two lines that look the same two effects that are the same. *)
(***************************************************************************)
EXTENDS GovernanceTokens, Describe, SequenceTheorems, TLAPS

(* Who signs an instruction, besides the vault. *)
OtherSigners(ix) == {ix.keys[i].key : i \in {j \in DOMAIN ix.keys : ix.keys[j].s}} \ {Vault}

VaultSigns(ix) == \E i \in DOMAIN ix.keys : ix.keys[i].key = Vault /\ ix.keys[i].s

(* Somebody signs who may pay for a vote record. *)
PayerSigns(ix) == \E i \in DOMAIN ix.keys : ix.keys[i].key # Vault /\ ix.keys[i].s

(* Co-signers of a list of one are those of its instruction. *)
LEMMA ExtraOfOne ==
    ASSUME NEW ix
    PROVE  ExtraSigners(<<ix>>) = OtherSigners(ix)
<1> DEFINE metas == {ix.keys[i] : i \in DOMAIN ix.keys}
<1>1. UNION {ToSet(<<ix>>[i].keys) : i \in 1..Len(<<ix>>)} = metas
  <2>1. 1..Len(<<ix>>) = {1} /\ <<ix>>[1] = ix
    OBVIOUS
  <2>2. ToSet(ix.keys) = metas
    BY DEF ToSet
  <2>3. QED
    BY <2>1, <2>2
<1>2. ExtraSigners(<<ix>>) = {m.key : m \in {n \in metas : n.s}} \ {Vault}
  BY <1>1 DEF ExtraSigners
<1>3. {m.key : m \in {n \in metas : n.s}} =
         {ix.keys[i].key : i \in {j \in DOMAIN ix.keys : ix.keys[j].s}}
  OBVIOUS
<1>4. QED
  BY <1>2, <1>3 DEF OtherSigners

(* stripNonVaultSigners leaves everything but the flags. *)
LEMMA Stripped ==
    ASSUME NEW program, NEW op, NEW arg, NEW keys
    PROVE  LET ix == StripNonVaultSigners(Ix(program, op, arg, keys))
           IN  /\ ix.program = program /\ ix.op = op /\ ix.arg = arg
               /\ DOMAIN ix.keys = DOMAIN keys
               /\ \A i \in DOMAIN keys :
                     /\ ix.keys[i].key = keys[i].key
                     /\ (ix.keys[i].s <=> keys[i].s /\ keys[i].key = Vault)
               /\ OtherSigners(ix) = {}
<1> DEFINE ix == StripNonVaultSigners(Ix(program, op, arg, keys))
           flags == [i \in DOMAIN keys |->
                        Meta(keys[i].key, keys[i].w, keys[i].s /\ keys[i].key = Vault)]
<1>1. ix = [Ix(program, op, arg, keys) EXCEPT !.keys = flags]
  BY DEF StripNonVaultSigners, Ix
<1>2. /\ ix.program = program /\ ix.op = op /\ ix.arg = arg /\ ix.keys = flags
  BY <1>1 DEF Ix
<1>3. \A i \in DOMAIN keys :
         /\ flags[i].key = keys[i].key
         /\ flags[i].s <=> keys[i].s /\ keys[i].key = Vault
  BY DEF Meta
<1>4. DOMAIN flags = DOMAIN keys
  OBVIOUS
<1> HIDE DEF flags
<1>5. OtherSigners(ix) = {}
  BY <1>2, <1>3, <1>4 DEF OtherSigners
<1>6. QED
  BY <1>2, <1>3, <1>4, <1>5

(* What is looked at in a deposit: nobody but the vault signs, and the     *)
(* record it names is the vault's.                                         *)
LEMMA DepositIx ==
    ASSUME NEW n
    PROVE  LET list == GovernanceDeposit(Program, Realm, Mint, n)
               ix   == list[1]
           IN  /\ list = <<ix>>
               /\ ix.program = Program /\ ix.op = "Deposit" /\ ix.arg[1] = n
               /\ ix.keys[6].key = tor
               /\ VaultSigns(ix) /\ OtherSigners(ix) = {}
<1> DEFINE keys ==
             <<Meta(Realm, FALSE, FALSE), Meta(Holding(Program, Realm, Mint), TRUE, FALSE),
               Meta(Ata(Mint, Vault), TRUE, FALSE), Meta(Vault, FALSE, TRUE),
               Meta(Vault, FALSE, TRUE), Meta(Tor(Program, Realm, Mint, Vault), TRUE, FALSE),
               Meta(Payer, TRUE, TRUE)>>
           ix == StripNonVaultSigners(Ix(Program, "Deposit", <<n>>, keys))
<1>1. GovernanceDeposit(Program, Realm, Mint, n) = <<ix>>
  BY DEF GovernanceDeposit, TakeIx, Last
<1>2. DOMAIN keys = 1..7
  OBVIOUS
<1>3. keys[4].key = Vault /\ keys[4].s /\ keys[6].key = tor
  BY DEF Meta, tor
<1> HIDE DEF keys
<1>4. /\ ix.program = Program /\ ix.op = "Deposit" /\ ix.arg = <<n>>
      /\ DOMAIN ix.keys = 1..7
      /\ \A i \in 1..7 : /\ ix.keys[i].key = keys[i].key
                         /\ (ix.keys[i].s <=> keys[i].s /\ keys[i].key = Vault)
      /\ OtherSigners(ix) = {}
  BY <1>2, Stripped
<1> HIDE DEF ix
<1>5. ix.keys[6].key = tor /\ VaultSigns(ix)
  BY <1>3, <1>4 DEF VaultSigns
<1>6. QED
  BY <1>1, <1>4, <1>5

(* In a vote: the payer signs besides the vault. *)
LEMMA CastVoteIx ==
    ASSUME NEW p, NEW v
    PROVE  LET list == CastVote(p, v)
               ix   == list[1]
           IN  /\ list = <<ix>>
               /\ ix.program = Program /\ ix.op = "CastVote" /\ ix.keys[3].key = p
               /\ VaultSigns(ix) /\ OtherSigners(ix) = {Payer} /\ PayerSigns(ix)
<1> DEFINE t == Tor(Program, Realm, Mint, Vault)
           keys ==
             <<Meta(Realm, FALSE, FALSE), Meta(Council, TRUE, FALSE),
               Meta(p, TRUE, FALSE), Meta(Owner, TRUE, FALSE),
               Meta(t, TRUE, FALSE), Meta(Vault, FALSE, TRUE),
               Meta(VoteRecord(Program, p, t), TRUE, FALSE),
               Meta(Mint, FALSE, FALSE), Meta(Payer, TRUE, TRUE)>>
           ix == Ix(Program, "CastVote", VoteData(v), keys)
<1>1. CastVote(p, v) = <<ix>>
  BY DEF CastVote, GovernanceCastVote, TakeIx, Last
<1>2. ix.program = Program /\ ix.op = "CastVote" /\ ix.keys = keys
  BY DEF Ix
<1>3. /\ DOMAIN keys = 1..9
      /\ \A i \in 1..9 : keys[i].s <=> i \in {6, 9}
      /\ keys[3].key = p /\ keys[6].key = Vault /\ keys[9].key = Payer
  BY DEF Meta
<1> HIDE DEF keys, ix
<1>4. VaultSigns(ix) /\ PayerSigns(ix)
  BY <1>2, <1>3, GovernanceAssumption DEF VaultSigns, PayerSigns
<1>5. OtherSigners(ix) = {Payer}
  <2>1. {j \in DOMAIN keys : keys[j].s} = {6, 9}
    BY <1>3
  <2>2. QED
    BY <1>2, <1>3, <2>1, GovernanceAssumption DEF OtherSigners
<1>6. QED
  BY <1>1, <1>2, <1>3, <1>4, <1>5

(* In a relinquishment: the vault alone signs. *)
LEMMA RelinquishIx ==
    ASSUME NEW p
    PROVE  LET list == RelinquishVote(p)
               ix   == list[1]
           IN  /\ list = <<ix>>
               /\ ix.program = Program /\ ix.op = "Relinquish" /\ ix.keys[3].key = p
               /\ VaultSigns(ix) /\ OtherSigners(ix) = {}
<1> DEFINE t == Tor(Program, Realm, Mint, Vault)
           keys ==
             <<Meta(Realm, FALSE, FALSE), Meta(Council, TRUE, FALSE),
               Meta(p, TRUE, FALSE), Meta(t, TRUE, FALSE),
               Meta(VoteRecord(Program, p, t), TRUE, FALSE),
               Meta(Mint, FALSE, FALSE), Meta(Vault, FALSE, TRUE),
               Meta(Payer, TRUE, FALSE)>>
           ix == Ix(Program, "Relinquish", <<>>, keys)
<1>1. RelinquishVote(p) = <<ix>>
  BY DEF RelinquishVote, GovernanceRelinquishVote, TakeIx, Last
<1>2. ix.program = Program /\ ix.op = "Relinquish" /\ ix.keys = keys
  BY DEF Ix
<1>3. /\ DOMAIN keys = 1..8
      /\ \A i \in 1..8 : keys[i].s <=> i = 7
      /\ keys[3].key = p /\ keys[7].key = Vault
  BY DEF Meta
<1> HIDE DEF keys, ix
<1>4. VaultSigns(ix)
  BY <1>2, <1>3 DEF VaultSigns
<1>5. OtherSigners(ix) = {}
  <2>1. {j \in DOMAIN keys : keys[j].s} = {7}
    BY <1>3
  <2>2. QED
    BY <1>2, <1>3, <2>1 DEF OtherSigners
<1>6. QED
  BY <1>1, <1>2, <1>3, <1>4, <1>5

(* In a withdrawal: the vault alone signs, and the tokens go to its own    *)
(* token account.                                                          *)
LEMMA WithdrawIx ==
    LET ix == Withdraw[1]
    IN  /\ Withdraw = <<ix>>
        /\ ix.program = Program /\ ix.op = "Withdraw" /\ ix.keys[3].key = Ata(Mint, Vault)
        /\ VaultSigns(ix) /\ OtherSigners(ix) = {}
<1> DEFINE keys ==
             <<Meta(Realm, FALSE, FALSE), Meta(Holding(Program, Realm, Mint), TRUE, FALSE),
               Meta(Ata(Mint, Vault), TRUE, FALSE), Meta(Vault, FALSE, TRUE),
               Meta(Tor(Program, Realm, Mint, Vault), TRUE, FALSE)>>
           ix == StripNonVaultSigners(Ix(Program, "Withdraw", <<>>, keys))
<1>1. Withdraw = <<ix>>
  BY DEF Withdraw, GovernanceWithdraw, WithdrawTo, TakeIx, Last
<1>2. DOMAIN keys = 1..5
  OBVIOUS
<1>3. keys[3].key = Ata(Mint, Vault) /\ keys[4].key = Vault /\ keys[4].s
  BY DEF Meta
<1> HIDE DEF keys
<1>4. /\ ix.program = Program /\ ix.op = "Withdraw"
      /\ DOMAIN ix.keys = 1..5
      /\ \A i \in 1..5 : /\ ix.keys[i].key = keys[i].key
                         /\ (ix.keys[i].s <=> keys[i].s /\ keys[i].key = Vault)
      /\ OtherSigners(ix) = {}
  BY <1>2, Stripped
<1> HIDE DEF ix
<1>5. ix.keys[3].key = Ata(Mint, Vault) /\ VaultSigns(ix)
  BY <1>3, <1>4 DEF VaultSigns
<1>6. QED
  BY <1>1, <1>4, <1>5

(* Every list is one instruction of one of four operations. *)
LEMMA ListForms ==
    ASSUME NEW list \in Lists
    PROVE  LET ix == list[1]
           IN  /\ list = <<ix>>
               /\ ix.program = Program
               /\ VaultSigns(ix)
               /\ OtherSigners(ix) \subseteq {Payer}
               /\ \/ ix.op = "Deposit" /\ ix.arg[1] \in 1..Funds /\ ix.keys[6].key = tor
                  \/ ix.op = "CastVote" /\ ix.keys[3].key \in Proposal /\ PayerSigns(ix)
                  \/ ix.op = "Relinquish" /\ ix.keys[3].key \in Proposal
                  \/ ix.op = "Withdraw" /\ ix.keys[3].key = Ata(Mint, Vault)
<1>1. CASE \E n \in 1..Funds : list = GovernanceDeposit(Program, Realm, Mint, n)
  BY <1>1, DepositIx
<1>2. CASE \E p \in Proposal, v \in Vote : list = CastVote(p, v)
  BY <1>2, CastVoteIx
<1>3. CASE \E p \in Proposal : list = RelinquishVote(p)
  BY <1>3, RelinquishIx
<1>4. CASE list = Withdraw
  BY <1>4, WithdrawIx
<1>5. QED
  BY <1>1, <1>2, <1>3, <1>4 DEF Lists

-----------------------------------------------------------------------------
(* The tokens.                                                             *)

(* At the start, all tokens are at home. *)
LEMMA InitType == Init => TypeOK
<1> SUFFICES ASSUME Init PROVE TypeOK
  OBVIOUS
<1>0. record \in BOOLEAN
  BY DEF Init
<1>1. tokens.home = Funds /\ tokens.deposited = 0
  BY DEF Init
<1>2. tokens \in [home : 0..Funds, deposited : 0..Funds]
  BY GovernanceAssumption DEF Init
<1>3. ~(tokens.deposited > 0) /\ tokens.home + tokens.deposited = Funds
  BY <1>1, GovernanceAssumption
<1>4. /\ vote = [p \in Proposal |-> "none"]
      /\ open = Proposal
      /\ signed = {}
  BY DEF Init, AuthorityInit
<1>5. QED
  BY <1>0, <1>2, <1>3, <1>4 DEF TypeOK

(* What SPL Governance accepts an instruction for. *)
LEMMA AcceptedFor ==
    ASSUME NEW ix, NEW has, Verdict(ix, has) = "ok",
           ix.op \in {"Deposit", "CastVote", "Relinquish", "Withdraw"}
    PROVE  /\ has
           /\ ix.op = "Deposit" => tokens.home >= ix.arg[1]
           /\ ix.op = "CastVote" => tokens.deposited # 0
           /\ ix.op = "Withdraw" => \A p \in Proposal : vote[p] # "cast"
<1> DEFINE signs == \E i \in DOMAIN ix.keys : ix.keys[i].key = Vault /\ ix.keys[i].s
<1>1. signs /\ has
  <2>1. ~signs => Verdict(ix, has) = "signer"
    BY DEF Verdict
  <2>2. signs /\ ~has => Verdict(ix, has) = "record"
    BY DEF Verdict
  <2>3. QED
    BY <2>1, <2>2
<1>2. ix.op = "Deposit" => tokens.home >= ix.arg[1]
  BY <1>1 DEF Verdict
<1>3. ix.op = "CastVote" => tokens.deposited # 0
  BY <1>1 DEF Verdict
<1>4. ix.op = "Withdraw" => \A p \in Proposal : vote[p] # "cast"
  BY <1>1 DEF Verdict
<1>5. QED
  BY <1>1, <1>2, <1>3, <1>4

(* What is accepted and carried out moves tokens between the vault and the *)
(* deposit, and a vote stays backed.                                       *)
LEMMA CommitKeepsType ==
    ASSUME TypeOK, NEW list \in Lists, list \in signed, Commit(list),
           Verdict(list[1], record \/ NeedsRecord(list)) = "ok", UNCHANGED open
    PROVE  TypeOK'
<1> DEFINE ix == list[1]
<1>1. /\ signed' = {} /\ record' = (record \/ NeedsRecord(list)) /\ Carry(ix)
  BY DEF Commit, Accept
<1>2. /\ ix.op = "Deposit" => ix.arg[1] \in 1..Funds
      /\ ix.op = "Withdraw" => ix.keys[3].key = Ata(Mint, Vault)
      /\ ix.op \in {"Deposit", "CastVote", "Relinquish", "Withdraw"}
  BY ListForms
<1>3. /\ record'
      /\ ix.op = "Deposit" => tokens.home >= ix.arg[1]
      /\ ix.op = "CastVote" => tokens.deposited # 0
      /\ ix.op = "Withdraw" => \A p \in Proposal : vote[p] # "cast"
  BY <1>1, <1>2, AcceptedFor
<1>4. record' \in BOOLEAN
  BY <1>1 DEF TypeOK
<1> HIDE DEF ix
<1>5. /\ vote' \in [Proposal -> {"none", "cast", "relinquished"}]
      /\ \A p \in Proposal : vote'[p] = "cast" => vote[p] = "cast" \/ ix.op = "CastVote"
  BY <1>1, <1>2 DEF Carry, TypeOK
<1>6. /\ tokens' \in [home : 0..Funds, deposited : 0..Funds]
      /\ tokens'.home + tokens'.deposited = Funds
      /\ ix.op # "Withdraw" => tokens'.deposited >= tokens.deposited
  <2>1. /\ tokens.home \in 0..Funds /\ tokens.deposited \in 0..Funds
        /\ tokens.home + tokens.deposited = Funds
        /\ Funds \in Nat
    BY GovernanceAssumption DEF TypeOK
  <2>2. CASE ix.op = "Deposit"
    <3>1. tokens' = [home |-> tokens.home - ix.arg[1],
                     deposited |-> tokens.deposited + ix.arg[1]]
      BY <1>1, <2>2 DEF Carry
    <3>2. QED
      BY <1>2, <1>3, <2>1, <2>2, <3>1
  <2>3. CASE ix.op = "Withdraw"
    <3>1. tokens' = [home |-> tokens.home + tokens.deposited, deposited |-> 0]
      BY <1>1, <1>2, <2>3 DEF Carry
    <3>2. QED
      BY <2>1, <2>3, <3>1
  <2>4. CASE ix.op \notin {"Deposit", "Withdraw"}
    <3>1. tokens' = tokens
      BY <1>1, <2>4 DEF Carry
    <3>2. QED
      BY <2>1, <3>1 DEF TypeOK
  <2>5. QED
    BY <2>2, <2>3, <2>4
<1>7. ASSUME NEW p \in Proposal, vote'[p] = "cast" PROVE tokens'.deposited > 0
  <2>1. vote[p] = "cast" => tokens.deposited > 0
    BY DEF TypeOK
  <2>2. tokens.deposited > 0 /\ ix.op # "Withdraw" /\ tokens.deposited \in Nat
    BY <1>3, <1>5, <1>7, <2>1 DEF TypeOK
  <2>3. QED
    BY <1>6, <2>2
<1>8. QED
  BY <1>1, <1>3, <1>4, <1>5, <1>6, <1>7 DEF TypeOK, Lists, CastVote, RelinquishVote, Withdraw

(* Every step keeps the tokens together and the votes backed. *)
LEMMA NextType == TypeOK /\ [Next]_vars => TypeOK'
<1> SUFFICES ASSUME TypeOK, [Next]_vars PROVE TypeOK'
  OBVIOUS
<1>1. Lists' = Lists
  BY DEF Lists, CastVote, RelinquishVote, Withdraw
<1>2. ASSUME NEW list \in Lists, Sign(list),
             UNCHANGED <<tokens, record, vote, open, leaving, sent>>
      PROVE  TypeOK'
  BY <1>1, <1>2 DEF TypeOK, Sign
<1>3. ASSUME NEW list \in Lists, Authorize(list) PROVE TypeOK'
  BY <1>2, <1>3 DEF Authorize, SignAny
<1>4. CASE AuthorizeHomeward
  <2>1. HomewardLists \subseteq Lists
    BY DEF HomewardLists, Lists
  <2>2. QED
    BY <1>2, <1>4, <2>1 DEF AuthorizeHomeward
<1>5. ASSUME NEW list \in signed, Broadcast(list) PROVE TypeOK'
  <2> DEFINE verdict == IF ~InScope(list) THEN "scope"
                        ELSE Verdict(list[1], record \/ NeedsRecord(list))
  <2>1. list \in Lists /\ UNCHANGED open
    BY <1>5 DEF TypeOK, Broadcast
  <2>2. CASE verdict = "ok"
    <3>1. Commit(list) /\ Verdict(list[1], record \/ NeedsRecord(list)) = "ok"
      BY <1>5, <2>2 DEF Broadcast
    <3>2. QED
      BY <2>1, <3>1, CommitKeepsType
  <2>3. CASE verdict # "ok"
    <3>1. UNCHANGED <<authority, tokens, vote, record>>
      BY <1>5, <2>3 DEF Broadcast
    <3>2. QED
      BY <1>1, <2>1, <3>1 DEF TypeOK, authority
  <2>4. QED
    BY <2>2, <2>3
<1>6. CASE CreateRecord
  BY <1>1, <1>6 DEF CreateRecord, TypeOK, authority
<1>7. ASSUME NEW p \in Proposal, EndProposal(p) PROVE TypeOK'
  BY <1>1, <1>7 DEF EndProposal, TypeOK, authority
<1>8. CASE Leave \/ Close \/ Initialize \/ UNCHANGED vars
  BY <1>1, <1>8 DEF Leave, Close, CloseVector, Initialize, InitializeVector, vars, authority,
                    TypeOK
<1>9. QED
  BY <1>3, <1>4, <1>5, <1>6, <1>7, <1>8 DEF Next

(* No governing token is lost or made, and every vote is backed by tokens  *)
(* deposited under the vault's record: no withdrawal gets in between, no   *)
(* file is sent that leaves a deposit without a record.                    *)
THEOREM TokensKept == Spec => []TypeOK
<1>1. QED
  BY InitType, NextType, PTL DEF Spec

-----------------------------------------------------------------------------
(* The files.                                                              *)

(* In the canonical realm, broadcast lets every list through, and SPL      *)
(* Governance finds the signatures and the record it asks for.             *)
LEMMA NotRefusedForSigners ==
    ASSUME Program = Governance, NEW list \in Lists
    PROVE  /\ InScope(list)
           /\ LET verdict == Verdict(list[1], record \/ NeedsRecord(list))
              IN  /\ verdict \notin {"scope", "signer"}
                  /\ list[1].op = "Deposit" => verdict # "record"
<1> DEFINE ix == list[1]
<1>1. /\ list = <<ix>>
      /\ ix.program = Program
      /\ VaultSigns(ix)
      /\ OtherSigners(ix) \subseteq {Payer}
      /\ ix.op \in {"Deposit", "CastVote", "Relinquish", "Withdraw"}
      /\ ix.op = "Deposit" => ix.keys[6].key = tor
      /\ ix.op = "CastVote" => PayerSigns(ix)
  BY ListForms
<1> HIDE DEF ix
<1>2. DOMAIN list = {1}
  BY <1>1
<1>3. ExtraSigners(list) = OtherSigners(ix)
  BY <1>1, ExtraOfOne
<1>4. InScope(list)
  BY <1>1, <1>2, <1>3 DEF InScope, ix
<1>5. ix.op = "Deposit" => record \/ NeedsRecord(list)
  BY <1>1, <1>2 DEF NeedsRecord, ix
<1>6. ASSUME NEW has
      PROVE  /\ Verdict(ix, has) \notin {"scope", "signer"}
             /\ has => Verdict(ix, has) # "record"
  BY <1>1 DEF Verdict, VaultSigns, PayerSigns
<1>7. QED
  BY <1>4, <1>5, <1>6 DEF ix

(* In a realm of the canonical SPL Governance, what is built and signed is *)
(* never refused because of who signs it nor for want of a record.         *)
THEOREM CanonicalFilesAreSent ==
    ASSUME Program = Governance
    PROVE  Spec => []FilesAreSent
<1>1. Init => FilesAreSent
  BY DEF Init, FilesAreSent
<1>2. TypeOK /\ FilesAreSent /\ [Next]_vars => FilesAreSent'
  <2> SUFFICES ASSUME TypeOK, FilesAreSent, [Next]_vars PROVE FilesAreSent'
    OBVIOUS
  <2>1. CASE UNCHANGED sent
    BY <2>1 DEF FilesAreSent
  <2>2. ASSUME NEW list \in signed, Broadcast(list) PROVE FilesAreSent'
    <3> DEFINE verdict == Verdict(list[1], record \/ NeedsRecord(list))
    <3>1. list \in Lists
      BY DEF TypeOK
    <3>2. InScope(list) /\ verdict \notin {"scope", "signer"}
          /\ (list[1].op = "Deposit" => verdict # "record")
      BY <3>1, NotRefusedForSigners
    <3>3. sent' = [op |-> list[1].op, why |-> verdict]
      BY <2>2, <3>2 DEF Broadcast
    <3> HIDE DEF verdict
    <3>4. QED
      BY <3>2, <3>3 DEF FilesAreSent
  <2>3. QED
    BY <2>1, <2>2
       DEF Next, vars, Authorize, AuthorizeHomeward, Leave, CreateRecord, EndProposal,
           Close, Initialize
<1>3. QED
  BY <1>1, <1>2, TokensKept, PTL DEF Spec

-----------------------------------------------------------------------------
(* The offline screen.  What is known of an instruction however often it   *)
(* was changed: the accounts its effect depends on are there (unless       *)
(* another program is called), a vote is for an option if it is a yes, and *)
(* the Stake instructions that are not shown with their data have none.    *)
SomeOption(data) ==
    \/ data = <<>>
    \/ \E v \in ToSet(data) : v # "yes" /\ data = <<v>>
    \/ \E o \in ToSet(data) : data = <<"yes", o>>

FirstOption(data) ==
    \/ \E v \in ToSet(data) : v # "yes" /\ data = <<v>>
    \/ data = <<"yes", "first option">>

Sound(x) ==
    /\ x = [program |-> x.program, op |-> x.op, arg |-> x.arg, keys |-> x.keys]
    /\ x.keys \in Seq(ToSet(x.keys))
    /\ x.program # Custom => Matters(x) \subseteq DOMAIN x.keys
    /\ x.op = "CastVote" => SomeOption(x.arg)
    /\ x.op \in {"Delegate", "Deactivate"} => x.arg = <<>>
    /\ x.program = Stake => x.op \in {"Initialize", "Delegate", "Deactivate", "Withdraw"}

(* And of one a command built: it is carried out, a vote is for the first  *)
(* option if it is a yes, and the payer co-signs votes alone.              *)
Good(x) ==
    /\ Sound(x)
    /\ ~Refused(x)
    /\ Matters(x) \subseteq DOMAIN x.keys
    /\ x.op = "CastVote" => FirstOption(x.arg)
    /\ OtherSigners(x) = IF x.op = "CastVote" THEN {Payer} ELSE {}

(* The programs that describe.ts tells apart are five. *)
LEMMA Distinct ==
    /\ System # Token /\ System # Stake /\ System # Governance /\ System # Custom
    /\ Token # Stake /\ Token # Governance /\ Token # Custom
    /\ Stake # Governance /\ Stake # Custom /\ Governance # Custom
<1> DEFINE programs == <<System, Token, Stake, Governance, Custom>>
<1>1. \A p, q \in 1..5 : p # q => programs[p] # programs[q]
  BY DescribeAssumption
<1>2. /\ programs[1] = System /\ programs[2] = Token /\ programs[3] = Stake
      /\ programs[4] = Governance /\ programs[5] = Custom
  OBVIOUS
<1> HIDE DEF programs
<1>3. /\ 1 \in 1..5 /\ 2 \in 1..5 /\ 3 \in 1..5 /\ 4 \in 1..5 /\ 5 \in 1..5
  OBVIOUS
<1>4. /\ programs[1] # programs[2] /\ programs[1] # programs[3] /\ programs[1] # programs[4]
      /\ programs[1] # programs[5] /\ programs[2] # programs[3] /\ programs[2] # programs[4]
      /\ programs[2] # programs[5] /\ programs[3] # programs[4] /\ programs[3] # programs[5]
      /\ programs[4] # programs[5]
  BY <1>1, <1>3
<1>5. QED
  BY <1>2, <1>4

(* The parts of an instruction. *)
LEMMA IxFields ==
    ASSUME NEW p, NEW o, NEW a, NEW k
    PROVE  /\ Ix(p, o, a, k).program = p /\ Ix(p, o, a, k).op = o
           /\ Ix(p, o, a, k).arg = a /\ Ix(p, o, a, k).keys = k
           /\ Ix(p, o, a, k) = [program |-> p, op |-> o, arg |-> a, keys |-> k]
BY DEF Ix

(* A function on 1..n is a sequence of its values. *)
LEMMA SelfSeq ==
    ASSUME NEW n \in Nat, NEW keys, keys = [i \in 1..n |-> keys[i]]
    PROVE  keys \in Seq(ToSet(keys)) /\ DOMAIN keys = 1..n /\ Len(keys) = n
<1> DEFINE M == ToSet(keys)
<1>1. DOMAIN keys = 1..n
  OBVIOUS
<1>2. \A i \in 1..n : keys[i] \in M
  BY <1>1 DEF ToSet
<1> HIDE DEF M
<1>3. [i \in 1..n |-> keys[i]] \in Seq(M)
  BY <1>2, IsASeq
<1>4. keys \in Seq(M)
  BY <1>3
<1>5. Len(keys) = n
  BY <1>1, <1>4, LenProperties
<1>6. QED
  BY <1>1, <1>4, <1>5 DEF M

(* stripNonVaultSigners keeps the form of an instruction. *)
LEMMA StrippedForm ==
    ASSUME NEW program, NEW op, NEW arg, NEW keys, NEW n \in Nat, DOMAIN keys = 1..n
    PROVE  LET x == StripNonVaultSigners(Ix(program, op, arg, keys))
           IN  /\ x.keys \in Seq(ToSet(x.keys))
               /\ x = [program |-> x.program, op |-> x.op, arg |-> x.arg, keys |-> x.keys]
<1> DEFINE x == StripNonVaultSigners(Ix(program, op, arg, keys))
           flags == [i \in DOMAIN keys |->
                        Meta(keys[i].key, keys[i].w, keys[i].s /\ keys[i].key = Vault)]
<1>1. x = [program |-> program, op |-> op, arg |-> arg, keys |-> flags]
  <2>1. x = [Ix(program, op, arg, keys) EXCEPT !.keys = flags]
    BY DEF StripNonVaultSigners, Ix
  <2> HIDE DEF x, flags
  <2>2. QED
    BY <2>1 DEF Ix
<1>2. flags = [i \in 1..n |-> flags[i]]
  <2>1. DOMAIN flags = 1..n /\ flags = [i \in DOMAIN flags |-> flags[i]]
    OBVIOUS
  <2> HIDE DEF flags
  <2>2. QED
    BY <2>1
<1> HIDE DEF flags
<1>3. flags \in Seq(ToSet(flags))
  BY <1>2, SelfSeq
<1> HIDE DEF x
<1>4. QED
  BY <1>1, <1>3 DEF x

(* What each command builds is good.                                       *)
LEMMA SolTransferGood ==
    ASSUME NEW to, NEW n
    PROVE  LET x == SolTransfer(to, n)[1]
           IN  SolTransfer(to, n) = <<x>> /\ Good(x) /\ x.op = "Transfer"
<1> DEFINE keys ==
               <<Meta(Vault, TRUE, TRUE), Meta(to, TRUE, FALSE)>>
           x == Ix(System, "Transfer", <<n>>, keys)
<1>1. SolTransfer(to, n) = <<x>>
  BY DEF SolTransfer
<1>2. keys = [i \in 1..2 |-> keys[i]] /\ 2 \in Nat
  OBVIOUS
<1>3. \A i \in 1..2 : keys[i].s <=> i = 1
  BY DEF Meta
<1>4. keys[1].key = Vault
  BY DEF Meta
<1> HIDE DEF keys
<1>5. keys \in Seq(ToSet(keys)) /\ DOMAIN keys = 1..2 /\ Len(keys) = 2
  BY <1>2, SelfSeq
<1>6. /\ x.program = System /\ x.op = "Transfer" /\ x.arg = <<n>>
      /\ x.keys = keys
      /\ x = [program |-> x.program, op |-> x.op, arg |-> x.arg, keys |-> x.keys]
  BY IxFields
<1>7. x.keys \in Seq(ToSet(x.keys)) /\ DOMAIN x.keys = 1..2
  BY <1>5, <1>6
<1> HIDE DEF x
<1>8. Matters(x) = 1..2
  BY <1>6, Distinct DEF Matters
<1>9. Sound(x)
  BY <1>6, <1>7, <1>8, Distinct DEF Sound
<1>10. ~Refused(x)
  BY <1>3, <1>4, <1>6, <1>7, Distinct DEF Refused, Signs
<1>11. OtherSigners(x) = {}
  BY <1>3, <1>4, <1>6, <1>7 DEF OtherSigners
<1>12. Good(x)
  BY <1>6, <1>7, <1>8, <1>9, <1>10, <1>11 DEF Good
<1>13. QED
  BY <1>1, <1>6, <1>12

(* token-transfer.                                                         *)
LEMMA TokenTransferGood ==
    ASSUME NEW t, NEW to, NEW n
    PROVE  LET x == TokenTransfer(t, to, n)[1]
           IN  TokenTransfer(t, to, n) = <<x>> /\ Good(x) /\ x.op = "Transfer"
<1> DEFINE keys ==
               <<Meta(Ata(t, Vault), TRUE, FALSE),
                 Meta(Ata(t, to), TRUE, FALSE), Meta(Vault, FALSE, TRUE)>>
           x == Ix(Token, "Transfer", <<n>>, keys)
<1>1. TokenTransfer(t, to, n) = <<x>>
  BY DEF TokenTransfer
<1>2. keys = [i \in 1..3 |-> keys[i]] /\ 3 \in Nat
  OBVIOUS
<1>3. \A i \in 1..3 : keys[i].s <=> i = 3
  BY DEF Meta
<1>4. keys[3].key = Vault
  BY DEF Meta
<1> HIDE DEF keys
<1>5. keys \in Seq(ToSet(keys)) /\ DOMAIN keys = 1..3 /\ Len(keys) = 3
  BY <1>2, SelfSeq
<1>6. /\ x.program = Token /\ x.op = "Transfer" /\ x.arg = <<n>>
      /\ x.keys = keys
      /\ x = [program |-> x.program, op |-> x.op, arg |-> x.arg, keys |-> x.keys]
  BY IxFields
<1>7. x.keys \in Seq(ToSet(x.keys)) /\ DOMAIN x.keys = 1..3
  BY <1>5, <1>6
<1> HIDE DEF x
<1>8. Matters(x) = 1..3
  BY <1>6, Distinct DEF Matters
<1>9. Sound(x)
  BY <1>6, <1>7, <1>8, Distinct DEF Sound
<1>10. ~Refused(x)
  BY <1>3, <1>4, <1>6, <1>7, Distinct DEF Refused, Signs
<1>11. OtherSigners(x) = {}
  BY <1>3, <1>4, <1>6, <1>7 DEF OtherSigners
<1>12. Good(x)
  BY <1>6, <1>7, <1>8, <1>9, <1>10, <1>11 DEF Good
<1>13. QED
  BY <1>1, <1>6, <1>12

(* stake-create, its first instruction.                                    *)
LEMMA CreateWithSeedGood ==
    ASSUME NEW seed, NEW n
    PROVE  Good(CreateWithSeed(seed, n)) /\ CreateWithSeed(seed, n).op = "CreateWithSeed"
<1> DEFINE keys ==
               <<Meta(Vault, TRUE, TRUE),
                 Meta(StakeAddress(Vault, seed), TRUE, FALSE)>>
           x == Ix(System, "CreateWithSeed", <<Vault, seed, n, Stake>>, keys)
<1>1. CreateWithSeed(seed, n) = x
  BY DEF CreateWithSeed
<1>2. keys = [i \in 1..2 |-> keys[i]] /\ 2 \in Nat
  OBVIOUS
<1>3. \A i \in 1..2 : keys[i].s <=> i = 1
  BY DEF Meta
<1>4. keys[1].key = Vault
  BY DEF Meta
<1> HIDE DEF keys
<1>5. keys \in Seq(ToSet(keys)) /\ DOMAIN keys = 1..2 /\ Len(keys) = 2
  BY <1>2, SelfSeq
<1>6. /\ x.program = System /\ x.op = "CreateWithSeed" /\ x.arg = <<Vault, seed, n, Stake>>
      /\ x.keys = keys
      /\ x = [program |-> x.program, op |-> x.op, arg |-> x.arg, keys |-> x.keys]
  BY IxFields
<1>7. x.keys \in Seq(ToSet(x.keys)) /\ DOMAIN x.keys = 1..2
  BY <1>5, <1>6
<1> HIDE DEF x
<1>8. Matters(x) = 1..2
  BY <1>6, Distinct DEF Matters
<1>9. Sound(x)
  BY <1>6, <1>7, <1>8, Distinct DEF Sound
<1>10. ~Refused(x)
  BY <1>3, <1>4, <1>6, <1>7, Distinct DEF Refused, Signs
<1>11. OtherSigners(x) = {}
  BY <1>3, <1>4, <1>6, <1>7 DEF OtherSigners
<1>12. Good(x)
  BY <1>6, <1>7, <1>8, <1>9, <1>10, <1>11 DEF Good
<1>13. QED
  BY <1>1, <1>6, <1>12

(* And its second.                                                         *)
LEMMA InitializeGood ==
    ASSUME NEW seed, NEW a, NEW b
    PROVE  Good(InitializeStake(seed, a, b)) /\ InitializeStake(seed, a, b).op = "Initialize"
<1> DEFINE keys ==
               <<Meta(StakeAddress(Vault, seed), TRUE, FALSE)>>
           x == Ix(Stake, "Initialize", <<a, b>>, keys)
<1>1. InitializeStake(seed, a, b) = x
  BY DEF InitializeStake
<1>2. keys = [i \in 1..1 |-> keys[i]] /\ 1 \in Nat
  OBVIOUS
<1>3. \A i \in 1..1 : keys[i].s <=> FALSE
  BY DEF Meta
<1>4. keys[1].key = StakeAddress(Vault, seed)
  BY DEF Meta
<1> HIDE DEF keys
<1>5. keys \in Seq(ToSet(keys)) /\ DOMAIN keys = 1..1 /\ Len(keys) = 1
  BY <1>2, SelfSeq
<1>6. /\ x.program = Stake /\ x.op = "Initialize" /\ x.arg = <<a, b>>
      /\ x.keys = keys
      /\ x = [program |-> x.program, op |-> x.op, arg |-> x.arg, keys |-> x.keys]
  BY IxFields
<1>7. x.keys \in Seq(ToSet(x.keys)) /\ DOMAIN x.keys = 1..1
  BY <1>5, <1>6
<1> HIDE DEF x
<1>8. Matters(x) = DOMAIN x.keys
  BY <1>6, Distinct DEF Matters
<1>9. Sound(x)
  BY <1>6, <1>7, <1>8, Distinct DEF Sound
<1>10. ~Refused(x)
  BY <1>3, <1>4, <1>6, <1>7, Distinct DEF Refused, Signs
<1>11. OtherSigners(x) = {}
  BY <1>3, <1>4, <1>6, <1>7 DEF OtherSigners
<1>12. Good(x)
  BY <1>6, <1>7, <1>8, <1>9, <1>10, <1>11 DEF Good
<1>13. QED
  BY <1>1, <1>6, <1>12

(* stake-delegate.                                                         *)
LEMMA DelegateGood ==
    ASSUME NEW st, NEW v
    PROVE  LET x == StakeDelegate(st, v)[1]
           IN  StakeDelegate(st, v) = <<x>> /\ Good(x) /\ x.op = "Delegate"
<1> DEFINE keys ==
               <<Meta(st, TRUE, FALSE), Meta(v, FALSE, FALSE),
                 Meta(Vault, FALSE, TRUE)>>
           x == Ix(Stake, "Delegate", <<>>, keys)
<1>1. StakeDelegate(st, v) = <<x>>
  BY DEF StakeDelegate
<1>2. keys = [i \in 1..3 |-> keys[i]] /\ 3 \in Nat
  OBVIOUS
<1>3. \A i \in 1..3 : keys[i].s <=> i = 3
  BY DEF Meta
<1>4. keys[3].key = Vault
  BY DEF Meta
<1> HIDE DEF keys
<1>5. keys \in Seq(ToSet(keys)) /\ DOMAIN keys = 1..3 /\ Len(keys) = 3
  BY <1>2, SelfSeq
<1>6. /\ x.program = Stake /\ x.op = "Delegate" /\ x.arg = <<>>
      /\ x.keys = keys
      /\ x = [program |-> x.program, op |-> x.op, arg |-> x.arg, keys |-> x.keys]
  BY IxFields
<1>7. x.keys \in Seq(ToSet(x.keys)) /\ DOMAIN x.keys = 1..3
  BY <1>5, <1>6
<1> HIDE DEF x
<1>8. Matters(x) = DOMAIN x.keys
  BY <1>6, Distinct DEF Matters
<1>9. Sound(x)
  BY <1>6, <1>7, <1>8, Distinct DEF Sound
<1>10. ~Refused(x)
  BY <1>3, <1>4, <1>6, <1>7, Distinct DEF Refused, Signs
<1>11. OtherSigners(x) = {}
  BY <1>3, <1>4, <1>6, <1>7 DEF OtherSigners
<1>12. Good(x)
  BY <1>6, <1>7, <1>8, <1>9, <1>10, <1>11 DEF Good
<1>13. QED
  BY <1>1, <1>6, <1>12

(* stake-deactivate.                                                       *)
LEMMA DeactivateGood ==
    ASSUME NEW st
    PROVE  LET x == StakeDeactivate(st)[1]
           IN  StakeDeactivate(st) = <<x>> /\ Good(x) /\ x.op = "Deactivate"
<1> DEFINE keys ==
               <<Meta(st, TRUE, FALSE), Meta(Vault, FALSE, TRUE)>>
           x == Ix(Stake, "Deactivate", <<>>, keys)
<1>1. StakeDeactivate(st) = <<x>>
  BY DEF StakeDeactivate
<1>2. keys = [i \in 1..2 |-> keys[i]] /\ 2 \in Nat
  OBVIOUS
<1>3. \A i \in 1..2 : keys[i].s <=> i = 2
  BY DEF Meta
<1>4. keys[2].key = Vault
  BY DEF Meta
<1> HIDE DEF keys
<1>5. keys \in Seq(ToSet(keys)) /\ DOMAIN keys = 1..2 /\ Len(keys) = 2
  BY <1>2, SelfSeq
<1>6. /\ x.program = Stake /\ x.op = "Deactivate" /\ x.arg = <<>>
      /\ x.keys = keys
      /\ x = [program |-> x.program, op |-> x.op, arg |-> x.arg, keys |-> x.keys]
  BY IxFields
<1>7. x.keys \in Seq(ToSet(x.keys)) /\ DOMAIN x.keys = 1..2
  BY <1>5, <1>6
<1> HIDE DEF x
<1>8. Matters(x) = DOMAIN x.keys
  BY <1>6, Distinct DEF Matters
<1>9. Sound(x)
  BY <1>6, <1>7, <1>8, Distinct DEF Sound
<1>10. ~Refused(x)
  BY <1>3, <1>4, <1>6, <1>7, Distinct DEF Refused, Signs
<1>11. OtherSigners(x) = {}
  BY <1>3, <1>4, <1>6, <1>7 DEF OtherSigners
<1>12. Good(x)
  BY <1>6, <1>7, <1>8, <1>9, <1>10, <1>11 DEF Good
<1>13. QED
  BY <1>1, <1>6, <1>12

(* stake-withdraw.                                                         *)
LEMMA StakeWithdrawGood ==
    ASSUME NEW st, NEW to, NEW n
    PROVE  LET x == StakeWithdraw(st, to, n)[1]
           IN  StakeWithdraw(st, to, n) = <<x>> /\ Good(x) /\ x.op = "Withdraw"
<1> DEFINE keys ==
               <<Meta(st, TRUE, FALSE), Meta(to, TRUE, FALSE),
                 Meta(Vault, FALSE, TRUE)>>
           x == Ix(Stake, "Withdraw", <<n>>, keys)
<1>1. StakeWithdraw(st, to, n) = <<x>>
  BY DEF StakeWithdraw
<1>2. keys = [i \in 1..3 |-> keys[i]] /\ 3 \in Nat
  OBVIOUS
<1>3. \A i \in 1..3 : keys[i].s <=> i = 3
  BY DEF Meta
<1>4. keys[3].key = Vault
  BY DEF Meta
<1> HIDE DEF keys
<1>5. keys \in Seq(ToSet(keys)) /\ DOMAIN keys = 1..3 /\ Len(keys) = 3
  BY <1>2, SelfSeq
<1>6. /\ x.program = Stake /\ x.op = "Withdraw" /\ x.arg = <<n>>
      /\ x.keys = keys
      /\ x = [program |-> x.program, op |-> x.op, arg |-> x.arg, keys |-> x.keys]
  BY IxFields
<1>7. x.keys \in Seq(ToSet(x.keys)) /\ DOMAIN x.keys = 1..3
  BY <1>5, <1>6
<1> HIDE DEF x
<1>8. Matters(x) = DOMAIN x.keys
  BY <1>6, Distinct DEF Matters
<1>9. Sound(x)
  BY <1>6, <1>7, <1>8, Distinct DEF Sound
<1>10. ~Refused(x)
  BY <1>3, <1>4, <1>6, <1>7, Distinct DEF Refused, Signs
<1>11. OtherSigners(x) = {}
  BY <1>3, <1>4, <1>6, <1>7 DEF OtherSigners
<1>12. Good(x)
  BY <1>6, <1>7, <1>8, <1>9, <1>10, <1>11 DEF Good
<1>13. QED
  BY <1>1, <1>6, <1>12

(* gov-deposit.                                                            *)
LEMMA DepositGood ==
    ASSUME NEW p \in Deployment, NEW d, NEW t \in GoverningMint, NEW n
    PROVE  LET x == GovernanceDeposit(p, d, t, n)[1]
           IN  GovernanceDeposit(p, d, t, n) = <<x>> /\ Good(x) /\ x.op = "Deposit"
<1> DEFINE keys ==
               <<Meta(d, FALSE, FALSE), Meta(Holding(p, d, t), TRUE, FALSE),
                 Meta(Ata(t, Vault), TRUE, FALSE), Meta(Vault, FALSE, TRUE),
                 Meta(Vault, FALSE, TRUE),
                 Meta(Tor(p, d, t, Vault), TRUE, FALSE),
                 Meta(Payer, TRUE, TRUE)>>
           x == StripNonVaultSigners(Ix(p, "Deposit", <<n>>, keys))
<1>1. GovernanceDeposit(p, d, t, n) = <<x>>
  BY DEF GovernanceDeposit, TakeIx, Last
<1>2. keys = [i \in 1..7 |-> keys[i]] /\ 7 \in Nat
  OBVIOUS
<1>3. \A i \in 1..7 : keys[i].s <=> i \in {4, 5, 7}
  BY DEF Meta
<1>4. keys[1].key = d /\ keys[2].key = Holding(p, d, t) /\ keys[4].key = Vault
      /\ keys[5].key = Vault /\ keys[6].key = Tor(p, d, t, Vault)
  BY DEF Meta
<1> HIDE DEF keys
<1>5. keys \in Seq(ToSet(keys)) /\ DOMAIN keys = 1..7 /\ Len(keys) = 7
  BY <1>2, SelfSeq
<1>6. /\ x.program = p /\ x.op = "Deposit" /\ x.arg = <<n>>
      /\ DOMAIN x.keys = 1..7
      /\ \A i \in 1..7 : /\ x.keys[i].key = keys[i].key
                         /\ (x.keys[i].s <=> keys[i].s /\ keys[i].key = Vault)
      /\ OtherSigners(x) = {}
  BY <1>5, Stripped
<1>7. /\ x.keys \in Seq(ToSet(x.keys))
      /\ x = [program |-> x.program, op |-> x.op, arg |-> x.arg, keys |-> x.keys]
  BY <1>5, StrippedForm
<1> HIDE DEF x
<1>8. p # System /\ p # Token /\ p # Stake
  BY Distinct DEF Deployment
<1>9. Matters(x) = 1..6
  BY <1>6, <1>8, Distinct DEF Matters
<1>10. Sound(x)
  BY <1>6, <1>8, <1>7, <1>9, Distinct DEF Sound
<1>11. ~Refused(x)
  BY <1>3, <1>4, <1>6, <1>8, <1>7, Distinct DEF Refused, Signs
<1>12. Good(x)
  BY <1>6, <1>8, <1>7, <1>9, <1>10, <1>11 DEF Good
<1>13. QED
  BY <1>1, <1>6, <1>12

(* gov-withdraw.                                                           *)
LEMMA GovernanceWithdrawGood ==
    ASSUME NEW p \in Deployment, NEW d, NEW t \in GoverningMint
    PROVE  LET x == GovernanceWithdraw(p, d, t)[1]
           IN  GovernanceWithdraw(p, d, t) = <<x>> /\ Good(x) /\ x.op = "Withdraw"
<1> DEFINE keys ==
               <<Meta(d, FALSE, FALSE), Meta(Holding(p, d, t), TRUE, FALSE),
                 Meta(Ata(t, Vault), TRUE, FALSE), Meta(Vault, FALSE, TRUE),
                 Meta(Tor(p, d, t, Vault), TRUE, FALSE)>>
           x == StripNonVaultSigners(Ix(p, "Withdraw", <<>>, keys))
<1>1. GovernanceWithdraw(p, d, t) = <<x>>
  BY DEF GovernanceWithdraw, WithdrawTo, TakeIx, Last
<1>2. keys = [i \in 1..5 |-> keys[i]] /\ 5 \in Nat
  OBVIOUS
<1>3. \A i \in 1..5 : keys[i].s <=> i = 4
  BY DEF Meta
<1>4. keys[1].key = d /\ keys[2].key = Holding(p, d, t) /\ keys[4].key = Vault
      /\ keys[5].key = Tor(p, d, t, Vault)
  BY DEF Meta
<1> HIDE DEF keys
<1>5. keys \in Seq(ToSet(keys)) /\ DOMAIN keys = 1..5 /\ Len(keys) = 5
  BY <1>2, SelfSeq
<1>6. /\ x.program = p /\ x.op = "Withdraw" /\ x.arg = <<>>
      /\ DOMAIN x.keys = 1..5
      /\ \A i \in 1..5 : /\ x.keys[i].key = keys[i].key
                         /\ (x.keys[i].s <=> keys[i].s /\ keys[i].key = Vault)
      /\ OtherSigners(x) = {}
  BY <1>5, Stripped
<1>7. /\ x.keys \in Seq(ToSet(x.keys))
      /\ x = [program |-> x.program, op |-> x.op, arg |-> x.arg, keys |-> x.keys]
  BY <1>5, StrippedForm
<1> HIDE DEF x
<1>8. p # System /\ p # Token /\ p # Stake
  BY Distinct DEF Deployment
<1>9. Matters(x) = 1..5
  BY <1>6, <1>8, Distinct DEF Matters
<1>10. Sound(x)
  BY <1>6, <1>8, <1>7, <1>9, Distinct DEF Sound
<1>11. ~Refused(x)
  BY <1>3, <1>4, <1>6, <1>8, <1>7, Distinct DEF Refused, Signs
<1>12. Good(x)
  BY <1>6, <1>8, <1>7, <1>9, <1>10, <1>11 DEF Good
<1>13. QED
  BY <1>1, <1>6, <1>12

(* The data of a vote. *)
LEMMA VoteOption ==
    ASSUME NEW v
    PROVE  SomeOption(VoteData(v)) /\ FirstOption(VoteData(v))
<1>1. CASE v = "yes"
  <2>1. VoteData(v) = <<"yes", "first option">>
    BY <1>1 DEF VoteData
  <2> DEFINE l == <<"yes", "first option">>
  <2>2. 2 \in DOMAIN l /\ l[2] = "first option"
    OBVIOUS
  <2> HIDE DEF l
  <2>3. "first option" \in ToSet(l)
    BY <2>2 DEF ToSet
  <2>4. QED
    BY <2>1, <2>3 DEF SomeOption, FirstOption, l
<1>2. CASE v # "yes"
  <2>1. VoteData(v) = <<v>>
    BY <1>2 DEF VoteData
  <2>2. v \in ToSet(<<v>>)
    BY DEF ToSet
  <2>3. QED
    BY <1>2, <2>1, <2>2 DEF SomeOption, FirstOption
<1>3. QED
  BY <1>1, <1>2

(* gov-cast-vote.                                                          *)
LEMMA CastVoteGood ==
    ASSUME NEW p \in Deployment, NEW d, NEW g, NEW m, NEW o, NEW t, NEW v \in Ballot
    PROVE  LET x == GovernanceCastVote(p, d, g, m, o, t, v)[1]
           IN  GovernanceCastVote(p, d, g, m, o, t, v) = <<x>> /\ Good(x) /\ x.op = "CastVote"
<1> DEFINE r == Tor(p, d, t, Vault)
           data == VoteData(v)
           keys ==
               <<Meta(d, FALSE, FALSE), Meta(g, TRUE, FALSE),
                 Meta(m, TRUE, FALSE), Meta(o, TRUE, FALSE),
                 Meta(r, TRUE, FALSE), Meta(Vault, FALSE, TRUE),
                 Meta(VoteRecord(p, m, r), TRUE, FALSE), Meta(t, FALSE, FALSE),
                 Meta(Payer, TRUE, TRUE)>>
           x == Ix(p, "CastVote", data, keys)
<1>1. GovernanceCastVote(p, d, g, m, o, t, v) = <<x>>
  BY DEF GovernanceCastVote, TakeIx, Last
<1>2. keys = [i \in 1..9 |-> keys[i]] /\ 9 \in Nat
  OBVIOUS
<1>3. \A i \in 1..9 : keys[i].s <=> i \in {6, 9}
  BY DEF Meta
<1>4. keys[1].key = d /\ keys[3].key = m /\ keys[5].key = r /\ keys[6].key = Vault
      /\ keys[7].key = VoteRecord(p, m, r) /\ keys[8].key = t /\ keys[9].key = Payer
  BY DEF Meta
<1> HIDE DEF keys
<1>5. keys \in Seq(ToSet(keys)) /\ DOMAIN keys = 1..9 /\ Len(keys) = 9
  BY <1>2, SelfSeq
<1>6. /\ x.program = p /\ x.op = "CastVote" /\ x.arg = data
      /\ x.keys = keys
      /\ x = [program |-> x.program, op |-> x.op, arg |-> x.arg, keys |-> x.keys]
  BY IxFields
<1>7. x.keys \in Seq(ToSet(x.keys)) /\ DOMAIN x.keys = 1..9
  BY <1>5, <1>6
<1> HIDE DEF x
<1>8. p # System /\ p # Token /\ p # Stake
  BY Distinct DEF Deployment
<1>9. data # <<>> /\ Tor(p, d, t, Vault) = r
  BY DEF VoteData
<1>10. SomeOption(data) /\ FirstOption(data)
  BY VoteOption
<1> HIDE DEF data, r
<1>11. Matters(x) = 1..8
  BY <1>6, <1>8, <1>9, Distinct DEF Matters
<1>12. Sound(x)
  BY <1>6, <1>8, <1>9, <1>7, <1>10, <1>11, Distinct DEF Sound
<1>13. ~Refused(x)
  <2>1. x.keys[6].s /\ x.keys[9].s
    BY <1>3, <1>6
  <2>2. x.keys[7].key = VoteRecord(x.program, x.keys[3].key, x.keys[5].key)
    BY <1>4, <1>6
  <2>3. x.keys[5].key = Tor(x.program, x.keys[1].key, x.keys[8].key, Vault)
    BY <1>4, <1>6, <1>9
  <2>4. QED
    BY <1>6, <1>9, <2>1, <2>2, <2>3, DescribeAssumption DEF Refused, Signs
<1>14. OtherSigners(x) = {Payer}
  <2>1. {j \in DOMAIN x.keys : x.keys[j].s} = {6, 9}
    BY <1>3, <1>6, <1>7
  <2>2. QED
    BY <1>4, <1>6, <2>1, DescribeAssumption DEF OtherSigners
<1>15. Good(x)
  BY <1>6, <1>8, <1>9, <1>7, <1>11, <1>12, <1>13, <1>14, <1>10 DEF Good
<1>16. QED
  BY <1>1, <1>6, <1>15

(* gov-relinquish-vote.                                                    *)
LEMMA RelinquishGood ==
    ASSUME NEW p \in Deployment, NEW d, NEW g, NEW m, NEW t
    PROVE  LET x == GovernanceRelinquishVote(p, d, g, m, t)[1]
           IN  GovernanceRelinquishVote(p, d, g, m, t) = <<x>> /\ Good(x) /\ x.op = "Relinquish"
<1> DEFINE r == Tor(p, d, t, Vault)
           keys ==
               <<Meta(d, FALSE, FALSE), Meta(g, TRUE, FALSE),
                 Meta(m, TRUE, FALSE), Meta(r, TRUE, FALSE),
                 Meta(VoteRecord(p, m, r), TRUE, FALSE), Meta(t, FALSE, FALSE),
                 Meta(Vault, FALSE, TRUE), Meta(Payer, TRUE, FALSE)>>
           x == Ix(p, "Relinquish", <<>>, keys)
<1>1. GovernanceRelinquishVote(p, d, g, m, t) = <<x>>
  BY DEF GovernanceRelinquishVote, TakeIx, Last
<1>2. keys = [i \in 1..8 |-> keys[i]] /\ 8 \in Nat
  OBVIOUS
<1>3. \A i \in 1..8 : keys[i].s <=> i = 7
  BY DEF Meta
<1>4. keys[1].key = d /\ keys[3].key = m /\ keys[4].key = r
      /\ keys[5].key = VoteRecord(p, m, r) /\ keys[6].key = t /\ keys[7].key = Vault
  BY DEF Meta
<1> HIDE DEF keys
<1>5. keys \in Seq(ToSet(keys)) /\ DOMAIN keys = 1..8 /\ Len(keys) = 8
  BY <1>2, SelfSeq
<1>6. /\ x.program = p /\ x.op = "Relinquish" /\ x.arg = <<>>
      /\ x.keys = keys
      /\ x = [program |-> x.program, op |-> x.op, arg |-> x.arg, keys |-> x.keys]
  BY IxFields
<1>7. x.keys \in Seq(ToSet(x.keys)) /\ DOMAIN x.keys = 1..8
  BY <1>5, <1>6
<1> HIDE DEF x
<1>8. p # System /\ p # Token /\ p # Stake
  BY Distinct DEF Deployment
<1>9. Matters(x) = 1..7
  BY <1>6, <1>8, Distinct DEF Matters
<1>10. Sound(x)
  BY <1>6, <1>8, <1>7, <1>9, Distinct DEF Sound
<1>11. ~Refused(x)
  BY <1>3, <1>4, <1>6, <1>8, <1>7, Distinct DEF Refused, Signs
<1>12. OtherSigners(x) = {}
  BY <1>3, <1>4, <1>6, <1>7 DEF OtherSigners
<1>13. Good(x)
  BY <1>6, <1>8, <1>7, <1>9, <1>10, <1>11, <1>12 DEF Good
<1>14. QED
  BY <1>1, <1>6, <1>13

-----------------------------------------------------------------------------
(* Lists.                                                                  *)

ListGood(l) == l \in Seq(ToSet(l)) /\ l # <<>> /\ \A i \in DOMAIN l : Good(l[i])

(* A list of one. *)
LEMMA OneGood ==
    ASSUME NEW x, Good(x)
    PROVE  /\ ListGood(<<x>>)
           /\ ExtraSigners(<<x>>) = IF x.op = "CastVote" THEN {Payer} ELSE {}
<1> DEFINE l == <<x>>
<1>1. l = [i \in 1..1 |-> l[i]] /\ 1 \in Nat /\ l # <<>> /\ \A i \in DOMAIN l : l[i] = x
  OBVIOUS
<1>2. ExtraSigners(l) = OtherSigners(x)
  BY ExtraOfOne
<1> HIDE DEF l
<1>3. l \in Seq(ToSet(l))
  BY <1>1, SelfSeq
<1>4. ListGood(l)
  BY <1>1, <1>3 DEF ListGood
<1>5. QED
  BY <1>2, <1>4 DEF Good, l

(* stake-create is the one list of two. *)
LEMMA StakeCreateGood ==
    ASSUME NEW s, NEW n
    PROVE  LET l == StakeCreate(s, n)
           IN  ListGood(l) /\ ExtraSigners(l) = {} /\ l[1].op = "CreateWithSeed"
<1> DEFINE x == CreateWithSeed(s, n)
           y == InitializeStake(s, Vault, Vault)
           l == <<x, y>>
<1>1. l = StakeCreate(s, n)
  BY DEF StakeCreate
<1>2. Good(x) /\ Good(y) /\ x.op = "CreateWithSeed" /\ y.op = "Initialize"
  BY CreateWithSeedGood, InitializeGood
<1>3. OtherSigners(x) = {} /\ OtherSigners(y) = {}
  BY <1>2 DEF Good
<1> HIDE DEF x, y
<1>4. /\ l = [i \in 1..2 |-> l[i]] /\ 2 \in Nat /\ l # <<>> /\ l[1] = x
      /\ \A i \in DOMAIN l : l[i] = x \/ l[i] = y
  OBVIOUS
<1>5. ExtraSigners(l) = {}
  <2>1. 1..Len(l) = {1, 2} /\ l[1] = x /\ l[2] = y
    OBVIOUS
  <2> HIDE DEF l
  <2>2. ASSUME NEW k \in ExtraSigners(l) PROVE FALSE
    <3>1. PICK m \in UNION {ToSet(l[i].keys) : i \in 1..Len(l)} : m.s /\ k = m.key /\ k # Vault
      BY <2>2 DEF ExtraSigners
    <3>2. m \in ToSet(x.keys) \/ m \in ToSet(y.keys)
      BY <2>1, <3>1
    <3>3. k \in OtherSigners(x) \/ k \in OtherSigners(y)
      BY <3>1, <3>2 DEF OtherSigners, ToSet
    <3>4. QED
      BY <1>3, <3>3
  <2>3. QED
    BY <2>2
<1> HIDE DEF l
<1>6. l \in Seq(ToSet(l))
  BY <1>4, SelfSeq
<1>7. ListGood(l)
  BY <1>2, <1>4, <1>6 DEF ListGood
<1>8. QED
  BY <1>1, <1>2, <1>4, <1>5, <1>7

(* A vote is a list of one. *)
LEMMA VoteListGood ==
    ASSUME NEW l \in VoteLists
    PROVE  ListGood(l) /\ ExtraSigners(l) = {Payer} /\ l[1].op = "CastVote"
<1>1. PICK p \in Deployment, m \in Motion, t \in GoverningMint, v \in Ballot :
         l = GovernanceCastVote(p, Dao, Governed, m, Proposer, t, v)
  BY DEF VoteLists
<1>2. l = <<l[1]>> /\ Good(l[1]) /\ l[1].op = "CastVote"
  BY <1>1, CastVoteGood
<1>3. QED
  BY <1>2, OneGood

(* No other command's list has a co-signer. *)
LEMMA OtherListGood ==
    ASSUME NEW l \in BuiltLists \ VoteLists
    PROVE  ListGood(l) /\ ExtraSigners(l) = {} /\ l[1].op # "CastVote"
<1>1. ASSUME NEW x, l = <<x>>, Good(x), x.op # "CastVote"
      PROVE  ListGood(l) /\ ExtraSigners(l) = {} /\ l[1].op # "CastVote"
  BY <1>1, OneGood
<1>2. CASE \E to \in Recipient, n \in Quantity : l = SolTransfer(to, n)
  <2>1. PICK to \in Recipient, n \in Quantity : l = SolTransfer(to, n)
    BY <1>2
  <2>2. l = <<l[1]>> /\ Good(l[1]) /\ l[1].op = "Transfer"
    BY <2>1, SolTransferGood
  <2>3. QED
    BY <1>1, <2>2
<1>3. CASE \E t \in GoverningMint, to \in Recipient, n \in Quantity : l = TokenTransfer(t, to, n)
  <2>1. PICK t \in GoverningMint, to \in Recipient, n \in Quantity : l = TokenTransfer(t, to, n)
    BY <1>3
  <2>2. l = <<l[1]>> /\ Good(l[1]) /\ l[1].op = "Transfer"
    BY <2>1, TokenTransferGood
  <2>3. QED
    BY <1>1, <2>2
<1>4. CASE l \in StakeLists
  <2>1. CASE \E s \in Seed, n \in Quantity : l = StakeCreate(s, n)
    BY <2>1, StakeCreateGood
  <2>2. CASE \E s \in Seed, v \in Validator : l = StakeDelegate(StakeAddress(Vault, s), v)
    <3>1. PICK st, v : l = StakeDelegate(st, v)
      BY <2>2
    <3>2. l = <<l[1]>> /\ Good(l[1]) /\ l[1].op = "Delegate"
      BY <3>1, DelegateGood
    <3>3. QED
      BY <1>1, <3>2
  <2>3. CASE \E s \in Seed : l = StakeDeactivate(StakeAddress(Vault, s))
    <3>1. PICK st : l = StakeDeactivate(st)
      BY <2>3
    <3>2. l = <<l[1]>> /\ Good(l[1]) /\ l[1].op = "Deactivate"
      BY <3>1, DeactivateGood
    <3>3. QED
      BY <1>1, <3>2
  <2>4. CASE \E s \in Seed, to \in Recipient, n \in Quantity :
                l = StakeWithdraw(StakeAddress(Vault, s), to, n)
    <3>1. PICK st, to, n : l = StakeWithdraw(st, to, n)
      BY <2>4
    <3>2. l = <<l[1]>> /\ Good(l[1]) /\ l[1].op = "Withdraw"
      BY <3>1, StakeWithdrawGood
    <3>3. QED
      BY <1>1, <3>2
  <2>5. QED
    BY <1>4, <2>1, <2>2, <2>3, <2>4 DEF StakeLists
<1>5. CASE \E p \in Deployment, t \in GoverningMint, n \in Quantity :
              l = GovernanceDeposit(p, Dao, t, n)
  <2>1. PICK p \in Deployment, t \in GoverningMint, n \in Quantity :
           l = GovernanceDeposit(p, Dao, t, n)
    BY <1>5
  <2>2. l = <<l[1]>> /\ Good(l[1]) /\ l[1].op = "Deposit"
    BY <2>1, DepositGood
  <2>3. QED
    BY <1>1, <2>2
<1>6. CASE \E p \in Deployment, m \in Motion, t \in GoverningMint :
              l = GovernanceRelinquishVote(p, Dao, Governed, m, t)
  <2>1. PICK p \in Deployment, m \in Motion, t \in GoverningMint :
           l = GovernanceRelinquishVote(p, Dao, Governed, m, t)
    BY <1>6
  <2>2. l = <<l[1]>> /\ Good(l[1]) /\ l[1].op = "Relinquish"
    BY <2>1, RelinquishGood
  <2>3. QED
    BY <1>1, <2>2
<1>7. CASE \E p \in Deployment, t \in GoverningMint : l = GovernanceWithdraw(p, Dao, t)
  <2>1. PICK p \in Deployment, t \in GoverningMint : l = GovernanceWithdraw(p, Dao, t)
    BY <1>7
  <2>2. l = <<l[1]>> /\ Good(l[1]) /\ l[1].op = "Withdraw"
    BY <2>1, GovernanceWithdrawGood
  <2>3. QED
    BY <1>1, <2>2
<1>8. QED
  BY <1>2, <1>3, <1>4, <1>5, <1>6, <1>7 DEF BuiltLists

(* What the commands build. *)
LEMMA BuiltGood ==
    ASSUME NEW l \in BuiltLists
    PROVE  ListGood(l) /\ (ExtraSigners(l) # {} <=> l \in VoteLists)
BY VoteListGood, OtherListGood

-----------------------------------------------------------------------------
(* What a line of the screen tells.                                        *)

(* The lines of describe.ts. *)
LEMMA LineOf ==
    ASSUME NEW x
    PROVE  LET line == DescribeSubInstruction(x)
           IN  \/ line = RawDump(x)
               \/ /\ x.program = System /\ x.op = "Transfer"
                  /\ line = Line(x, x.arg, Pubkeys(x, 2))
               \/ /\ x.program = System /\ x.op = "CreateWithSeed"
                  /\ line = Line(x, <<>>, Pubkeys(x, 2))
               \/ /\ x.program = Token /\ x.op = "Transfer"
                  /\ line = Line(x, x.arg, Pubkeys(x, 3))
               \/ /\ x.program = Stake
                  /\ line = Line(x, IF x.op = "Withdraw" THEN x.arg ELSE <<>>, Flagged(x))
               \/ /\ x.program = Governance /\ GovernanceDecodes(x)
                  /\ line = Line(x, IF x.op = "CastVote" THEN <<x.arg[1]>> ELSE x.arg,
                                 Pubkeys(x, GovernanceShown[x.op]))
BY DEF DescribeSubInstruction, Amount

(* Accounts shown are the accounts. *)
LEMMA SamePubkeys ==
    ASSUME NEW f, NEW b, NEW n \in Nat, Pubkeys(f, n) = Pubkeys(b, n),
           f.keys \in Seq(ToSet(f.keys)), b.keys \in Seq(ToSet(b.keys)),
           1..n \subseteq DOMAIN f.keys, 1..n \subseteq DOMAIN b.keys
    PROVE  \A i \in 1..n : f.keys[i].key = b.keys[i].key
<1>1. ASSUME NEW x, x.keys \in Seq(ToSet(x.keys)), 1..n \subseteq DOMAIN x.keys, NEW i \in 1..n
      PROVE  Pubkeys(x, n)[i] = <<x.keys[i].key>>
  <2>1. i \in 1..Len(x.keys) /\ Len(x.keys) \in Nat
    BY <1>1, LenProperties
  <2>2. QED
    BY <2>1 DEF Pubkeys
<1>2. ASSUME NEW i \in 1..n PROVE f.keys[i].key = b.keys[i].key
  <2>1. <<f.keys[i].key>> = <<b.keys[i].key>>
    BY <1>1
  <2>2. QED
    BY <2>1
<1>3. QED
  BY <1>2

(* So are those shown with their flags. *)
LEMMA SameFlagged ==
    ASSUME NEW f, NEW b, Flagged(f) = Flagged(b)
    PROVE  /\ DOMAIN f.keys = DOMAIN b.keys
           /\ \A i \in DOMAIN f.keys : f.keys[i].key = b.keys[i].key
<1>1. DOMAIN f.keys = DOMAIN b.keys
  BY DEF Flagged
<1>2. ASSUME NEW i \in DOMAIN f.keys PROVE f.keys[i].key = b.keys[i].key
  <2>1. <<f.keys[i].key, f.keys[i].w, f.keys[i].s>> = <<b.keys[i].key, b.keys[i].w, b.keys[i].s>>
    BY <1>1 DEF Flagged
  <2>2. QED
    BY <2>1
<1>3. QED
  BY <1>1, <1>2

(* The same places hold the same accounts. *)
LEMMA SameParts ==
    ASSUME NEW f, NEW b, f.program = b.program, f.op = b.op, f.arg = b.arg,
           Matters(f) = Matters(b), \A i \in Matters(f) : f.keys[i].key = b.keys[i].key
    PROVE  Effect(f) = Effect(b)
BY DEF Effect

(* What programs accept names its derived accounts. *)
LEMMA Derived ==
    ASSUME NEW x, ~Refused(x)
    PROVE  LET k(i) == x.keys[i].key
           IN  /\ x.op = "Deposit" =>
                     \E m : /\ k(2) = Holding(x.program, k(1), m)
                            /\ k(6) = Tor(x.program, k(1), m, k(4))
               /\ x.op = "CastVote" =>
                     /\ k(7) = VoteRecord(x.program, k(3), k(5))
                     /\ \E o : k(5) = Tor(x.program, k(1), k(8), o)
               /\ x.op = "Relinquish" => k(4) = Tor(x.program, k(1), k(6), k(7))
BY DEF Refused

(* Derived accounts differ if what they are derived from does. *)
LEMMA Injective ==
    ASSUME NEW p, NEW r, NEW m, NEW n, NEW o, NEW q
    PROVE  /\ Holding(p, r, m) = Holding(p, r, n) => m = n
           /\ Tor(p, r, m, o) = Tor(p, r, n, q) => m = n /\ o = q
BY DEF Holding, Tor

(* Votes for the first option look the same only if they are. *)
LEMMA SameVote ==
    ASSUME NEW a, NEW c, SomeOption(a), FirstOption(c), a # <<>>, a[1] = c[1],
           Len(a) > 1 => a[2] = "first option"
    PROVE  a = c
<1>1. ASSUME NEW v, v # "yes", a = <<v>> PROVE a = c
  <2>1. a[1] = v
    BY <1>1
  <2>2. c # <<"yes", "first option">>
    <3>1. <<"yes", "first option">>[1] = "yes"
      OBVIOUS
    <3>2. QED
      BY <1>1, <2>1, <3>1
  <2>3. PICK w : c = <<w>>
    BY ONLY FirstOption(c), <2>2 DEF FirstOption
  <2>4. c[1] = w
    BY ONLY <2>3
  <2>5. w = v
    BY <2>1, <2>4
  <2>6. QED
    BY <1>1, <2>3, <2>5
<1>2. ASSUME NEW o, a = <<"yes", o>> PROVE a = c
  <2>1. Len(a) = 2 /\ a[1] = "yes" /\ a[2] = o
    BY ONLY <1>2
  <2>2. o = "first option"
    <3>1. Len(a) > 1
      BY ONLY <2>1
    <3>2. a[2] = "first option"
      BY <3>1, Zenon
    <3>3. QED
      BY ONLY <2>1, <3>2
  <2>3. c = <<"yes", "first option">>
    <3>1. ASSUME NEW v, c = <<v>> PROVE v = c[1]
      BY ONLY <3>1
    <3>2. \A v : v # "yes" => c # <<v>>
      BY <2>1, <3>1
    <3>3. QED
      BY ONLY FirstOption(c), <3>2 DEF FirstOption
  <2>4. QED
    BY <1>2, <2>2, <2>3
<1>3. QED
  BY ONLY SomeOption(a), a # <<>>, <1>1, <1>2 DEF SomeOption

(* Two instructions that SPL Governance carries out, one of them built by  *)
(* a command, do the same if they look the same.                           *)
LEMMA SameGovernance ==
    ASSUME NEW f, NEW b, Sound(f), Good(b), ~Unsaid(f), ~Refused(f),
           f.program = Governance, b.program = Governance, f.op = b.op,
           f.op \in DOMAIN GovernanceShown,
           (IF f.op = "CastVote" THEN <<f.arg[1]>> ELSE f.arg)
             = (IF b.op = "CastVote" THEN <<b.arg[1]>> ELSE b.arg),
           Pubkeys(f, GovernanceShown[f.op]) = Pubkeys(b, GovernanceShown[b.op]),
           f.op = "CastVote" => f.arg # <<>>
    PROVE  Effect(f) = Effect(b)
<1>1. Governance # Token /\ Governance # Stake /\ Governance # Custom /\ Governance # System
  BY Distinct
<1>2. /\ f.keys \in Seq(ToSet(f.keys)) /\ b.keys \in Seq(ToSet(b.keys))
      /\ Matters(f) \subseteq DOMAIN f.keys /\ Matters(b) \subseteq DOMAIN b.keys
  BY <1>1 DEF Good, Sound
<1>3. ~Refused(f) /\ ~Refused(b)
  BY DEF Good
<1>4. CASE f.op = "Deposit"
  <2>1. GovernanceShown[f.op] = 5 /\ Matters(f) = 1..6 /\ Matters(b) = 1..6 /\ f.arg = b.arg
    BY <1>1, <1>4 DEF GovernanceShown, Matters
  <2>2. \A i \in 1..5 : f.keys[i].key = b.keys[i].key
    <3>1. Pubkeys(f, 5) = Pubkeys(b, 5)
      BY <2>1
    <3>2. 1..5 \subseteq DOMAIN f.keys /\ 1..5 \subseteq DOMAIN b.keys /\ 5 \in Nat
      BY <1>2, <2>1
    <3>3. QED
      BY ONLY <1>2, <3>1, <3>2, SamePubkeys
  <2>3. PICK m : /\ f.keys[2].key = Holding(Governance, f.keys[1].key, m)
                 /\ f.keys[6].key = Tor(Governance, f.keys[1].key, m, f.keys[4].key)
    BY <1>3, <1>4, Derived
  <2>4. PICK n : /\ b.keys[2].key = Holding(Governance, b.keys[1].key, n)
                 /\ b.keys[6].key = Tor(Governance, b.keys[1].key, n, b.keys[4].key)
    BY <1>3, <1>4, Derived
  <2>5. m = n
    BY <2>2, <2>3, <2>4, Injective
  <2>6. f.keys[6].key = b.keys[6].key
    BY <2>2, <2>3, <2>4, <2>5
  <2>7. \A i \in 1..6 : f.keys[i].key = b.keys[i].key
    BY <2>2, <2>6
  <2>8. QED
    BY <2>1, <2>7, SameParts
<1>5. CASE f.op = "Withdraw"
  <2>1. GovernanceShown[f.op] = 5 /\ Matters(f) = 1..5 /\ Matters(b) = 1..5 /\ f.arg = b.arg
    BY <1>1, <1>5 DEF GovernanceShown, Matters
  <2>2. \A i \in 1..5 : f.keys[i].key = b.keys[i].key
    <3>1. Pubkeys(f, 5) = Pubkeys(b, 5)
      BY <2>1
    <3>2. 1..5 \subseteq DOMAIN f.keys /\ 1..5 \subseteq DOMAIN b.keys /\ 5 \in Nat
      BY <1>2, <2>1
    <3>3. QED
      BY ONLY <1>2, <3>1, <3>2, SamePubkeys
  <2>3. QED
    BY <2>1, <2>2, SameParts
<1>6. CASE f.op = "CastVote"
  <2>1. GovernanceShown[f.op] = 6 /\ Matters(f) = 1..8 /\ Matters(b) = 1..8
    BY <1>1, <1>6 DEF GovernanceShown, Matters
  <2>2. \A i \in 1..6 : f.keys[i].key = b.keys[i].key
    <3>1. Pubkeys(f, 6) = Pubkeys(b, 6)
      BY <2>1
    <3>2. 1..6 \subseteq DOMAIN f.keys /\ 1..6 \subseteq DOMAIN b.keys /\ 6 \in Nat
      BY <1>2, <2>1
    <3>3. QED
      BY ONLY <1>2, <3>1, <3>2, SamePubkeys
  <2>3. PICK o : f.keys[5].key = Tor(Governance, f.keys[1].key, f.keys[8].key, o)
    BY <1>3, <1>6, Derived
  <2>4. PICK q : b.keys[5].key = Tor(Governance, b.keys[1].key, b.keys[8].key, q)
    BY <1>3, <1>6, Derived
  <2>5. f.keys[8].key = b.keys[8].key
    BY <2>2, <2>3, <2>4, Injective
  <2>6. f.keys[7].key = b.keys[7].key
    <3>1. /\ f.keys[7].key = VoteRecord(Governance, f.keys[3].key, f.keys[5].key)
          /\ b.keys[7].key = VoteRecord(Governance, b.keys[3].key, b.keys[5].key)
      BY <1>3, <1>6, Derived
    <3>2. QED
      BY <2>2, <3>1
  <2>7. \A i \in 1..8 : f.keys[i].key = b.keys[i].key
    BY <2>2, <2>5, <2>6
  <2>8. f.arg = b.arg
    <3>1. SomeOption(f.arg) /\ FirstOption(b.arg)
      BY <1>6 DEF Sound, Good
    <3>2. f.arg[1] = b.arg[1] /\ f.arg # <<>>
      <4>1. <<f.arg[1]>> = <<b.arg[1]>>
        BY <1>6
      <4>2. QED
        BY <1>6, <4>1
    <3>3. Len(f.arg) > 1 => f.arg[2] = "first option"
      BY <1>6 DEF Unsaid
    <3>4. QED
      BY <3>1, <3>2, <3>3, SameVote
  <2>9. QED
    BY <2>1, <2>7, <2>8, SameParts
<1>7. CASE f.op = "Relinquish"
  <2>1. GovernanceShown[f.op] = 5 /\ Matters(f) = 1..7 /\ Matters(b) = 1..7 /\ f.arg = b.arg
    BY <1>1, <1>7 DEF GovernanceShown, Matters
  <2>2. \A i \in 1..5 : f.keys[i].key = b.keys[i].key
    <3>1. Pubkeys(f, 5) = Pubkeys(b, 5)
      BY <2>1
    <3>2. 1..5 \subseteq DOMAIN f.keys /\ 1..5 \subseteq DOMAIN b.keys /\ 5 \in Nat
      BY <1>2, <2>1
    <3>3. QED
      BY ONLY <1>2, <3>1, <3>2, SamePubkeys
  <2>3. /\ f.keys[4].key = Tor(Governance, f.keys[1].key, f.keys[6].key, f.keys[7].key)
        /\ b.keys[4].key = Tor(Governance, b.keys[1].key, b.keys[6].key, b.keys[7].key)
    BY <1>3, <1>7, Derived
  <2>4. f.keys[6].key = b.keys[6].key /\ f.keys[7].key = b.keys[7].key
    BY <2>2, <2>3, Injective
  <2>5. \A i \in 1..7 : f.keys[i].key = b.keys[i].key
    BY <2>2, <2>4
  <2>6. QED
    BY <2>1, <2>5, SameParts
<1>8. QED
  BY <1>4, <1>5, <1>6, <1>7 DEF GovernanceShown

(* What is in the line of an instruction that is not recognised. *)
LEMMA RawParts ==
    ASSUME NEW x
    PROVE  /\ RawDump(x)[1] = x.program /\ RawDump(x)[3] = x.op
           /\ RawDump(x)[4] = x.arg /\ RawDump(x)[5] = Flagged(x)
BY DEF RawDump

(* Of a recognised one. *)
LEMMA LineParts ==
    ASSUME NEW x, NEW s, NEW a
    PROVE  /\ Line(x, s, a)[1] = x.program /\ Line(x, s, a)[3] = x.op
           /\ Line(x, s, a)[4] = s /\ Line(x, s, a)[5] = a
BY DEF Line

(* The two are told apart. *)
LEMMA Recognised ==
    ASSUME NEW x, NEW y, NEW s, NEW a
    PROVE  RawDump(x) # Line(y, s, a)
<1>1. Line(y, s, a)[2] /\ ~RawDump(x)[2]
  BY DEF RawDump, Line
<1>2. QED
  BY <1>1

(* Every line begins with the program and the operation. *)
LEMMA LineHead ==
    ASSUME NEW x
    PROVE  DescribeSubInstruction(x)[1] = x.program /\ DescribeSubInstruction(x)[3] = x.op
<1>1. CASE DescribeSubInstruction(x) = RawDump(x)
  BY <1>1, RawParts
<1>2. ASSUME NEW s, NEW a, DescribeSubInstruction(x) = Line(x, s, a)
      PROVE  DescribeSubInstruction(x)[1] = x.program /\ DescribeSubInstruction(x)[3] = x.op
  BY <1>2, LineParts
<1>3. QED
  BY <1>1, <1>2, LineOf

(* The same for any program. *)
LEMMA SameEffect ==
    ASSUME NEW f, NEW b, Sound(f), Good(b), ~Unsaid(f), ~Refused(f),
           DescribeSubInstruction(f) = DescribeSubInstruction(b)
    PROVE  Effect(f) = Effect(b)
<1> DEFINE F == DescribeSubInstruction(f)
           B == DescribeSubInstruction(b)
<1>1. f.program = b.program /\ f.op = b.op
  BY LineHead
<1>0. F = B
  OBVIOUS
<1> HIDE DEF F, B
<1>2. /\ f.keys \in Seq(ToSet(f.keys)) /\ b.keys \in Seq(ToSet(b.keys))
      /\ Matters(b) \subseteq DOMAIN b.keys
  BY DEF Good, Sound
<1>3. CASE F = RawDump(f) /\ B = RawDump(b)
  <2>1. f.arg = b.arg /\ Flagged(f) = Flagged(b)
    BY <1>0, <1>3, RawParts
  <2>2. /\ DOMAIN f.keys = DOMAIN b.keys
        /\ \A i \in DOMAIN f.keys : f.keys[i].key = b.keys[i].key
    BY <2>1, SameFlagged
  <2>3. Matters(f) = Matters(b)
    BY <1>1, <2>2 DEF Matters
  <2>4. QED
    BY <1>1, <1>2, <2>1, <2>2, <2>3, SameParts
<1>4. ASSUME NEW s, NEW a, F = Line(f, s, a), B = RawDump(b) PROVE FALSE
  BY <1>0, <1>4, Recognised
<1>5. ASSUME NEW s, NEW a, F = RawDump(f), B = Line(b, s, a) PROVE FALSE
  BY <1>0, <1>5, Recognised
<1>6. ASSUME NEW s, NEW a, NEW t, NEW c, F = Line(f, s, a), B = Line(b, t, c)
      PROVE  s = t /\ a = c
  <2>1. F[4] = s /\ F[5] = a
    BY <1>6, LineParts
  <2>2. B[4] = t /\ B[5] = c
    BY <1>6, LineParts
  <2>3. QED
    BY <1>0, <2>1, <2>2
<1>7. CASE f.program = System
  <2>1. f.program # Token /\ f.program # Stake /\ f.program # Governance /\ f.program # Custom
    BY <1>7, Distinct
  <2>2. f.op # "CreateWithSeed"
    BY DEF Unsaid
  <2>3. CASE F = Line(f, f.arg, Pubkeys(f, 2)) /\ B = Line(b, b.arg, Pubkeys(b, 2))
             /\ f.op = "Transfer"
    <3>1. f.arg = b.arg /\ Pubkeys(f, 2) = Pubkeys(b, 2)
      BY <1>6, <2>3
    <3>2. Matters(f) = 1..2 /\ Matters(b) = 1..2
      BY <1>1, <2>1, <2>3 DEF Matters
    <3>3. 1..2 \subseteq DOMAIN f.keys /\ 1..2 \subseteq DOMAIN b.keys /\ 2 \in Nat
      BY <1>2, <2>1, <3>2 DEF Sound
    <3>4. \A i \in 1..2 : f.keys[i].key = b.keys[i].key
      BY ONLY <1>2, <3>1, <3>3, SamePubkeys
    <3>5. QED
      BY <1>1, <3>1, <3>2, <3>4, SameParts
  <2>4. QED
    BY <1>1, <1>3, <1>4, <1>5, <2>1, <2>2, <2>3, LineOf DEF F, B
<1>8. CASE f.program = Token
  <2>1. f.program # System /\ f.program # Stake /\ f.program # Governance /\ f.program # Custom
    BY <1>8, Distinct
  <2>2. CASE F = Line(f, f.arg, Pubkeys(f, 3)) /\ B = Line(b, b.arg, Pubkeys(b, 3))
             /\ f.op = "Transfer"
    <3>1. f.arg = b.arg /\ Pubkeys(f, 3) = Pubkeys(b, 3)
      BY <1>6, <2>2
    <3>2. Matters(f) = 1..3 /\ Matters(b) = 1..3
      BY <1>1, <1>8, <2>2 DEF Matters
    <3>3. 1..3 \subseteq DOMAIN f.keys /\ 1..3 \subseteq DOMAIN b.keys /\ 3 \in Nat
      BY <1>2, <2>1, <3>2 DEF Sound
    <3>4. \A i \in 1..3 : f.keys[i].key = b.keys[i].key
      BY ONLY <1>2, <3>1, <3>3, SamePubkeys
    <3>5. QED
      BY <1>1, <3>1, <3>2, <3>4, SameParts
  <2>3. QED
    BY <1>1, <1>3, <1>4, <1>5, <2>1, <2>2, LineOf DEF F, B
<1>9. CASE f.program = Stake
  <2>1. f.program # System /\ f.program # Token /\ f.program # Governance /\ f.program # Custom
    BY <1>9, Distinct
  <2> DEFINE S(x) == IF x.op = "Withdraw" THEN x.arg ELSE <<>>
  <2>2. CASE F = Line(f, S(f), Flagged(f)) /\ B = Line(b, S(b), Flagged(b))
    <3>1. S(f) = S(b) /\ Flagged(f) = Flagged(b)
      BY <1>6, <2>2
    <3>2. /\ f.op \in {"Delegate", "Deactivate", "Withdraw"}
          /\ f.op # "Withdraw" => f.arg = <<>> /\ b.arg = <<>>
      BY <1>1, <1>9 DEF Sound, Good, Unsaid
    <3>3. f.arg = b.arg
      BY <1>1, <3>1, <3>2
    <3>4. /\ DOMAIN f.keys = DOMAIN b.keys
          /\ \A i \in DOMAIN f.keys : f.keys[i].key = b.keys[i].key
      BY <3>1, SameFlagged
    <3>5. Matters(f) = DOMAIN f.keys /\ Matters(b) = DOMAIN b.keys
      BY <1>1, <1>9, <3>2 DEF Matters
    <3>6. QED
      BY <1>1, <3>3, <3>4, <3>5, SameParts
  <2>3. QED
    BY <1>1, <1>3, <1>4, <1>5, <2>1, <2>2, LineOf DEF F, B
<1>10. CASE f.program = Governance
  <2>1. f.program # System /\ f.program # Token /\ f.program # Stake
    BY <1>10, Distinct
  <2> DEFINE S(x) == IF x.op = "CastVote" THEN <<x.arg[1]>> ELSE x.arg
             P(x) == Pubkeys(x, GovernanceShown[x.op])
  <2>2. CASE F = Line(f, S(f), P(f)) /\ B = Line(b, S(b), P(b)) /\ GovernanceDecodes(f)
    <3>1. S(f) = S(b) /\ P(f) = P(b)
      BY <1>6, <2>2
    <3>2. /\ f.op \in DOMAIN GovernanceShown
          /\ f.op = "CastVote" => f.arg # <<>>
      BY <2>2 DEF GovernanceDecodes
    <3>3. QED
      BY <1>1, <1>10, <3>1, <3>2, SameGovernance
  <2>3. QED
    BY <1>1, <1>3, <1>4, <1>5, <2>1, <2>2, LineOf DEF F, B
<1>11. CASE f.program \notin {System, Token, Stake, Governance}
  BY <1>1, <1>3, <1>11, LineOf DEF F, B
<1>12. QED
  BY <1>7, <1>8, <1>9, <1>10, <1>11

-----------------------------------------------------------------------------
(* Changes on the way.                                                     *)

ListSound(l) == l \in Seq(ToSet(l)) /\ \A i \in DOMAIN l : Sound(l[i])

(* A sequence is one of its own elements. *)
LEMMA OwnElements ==
    ASSUME NEW S, NEW s \in Seq(S)
    PROVE  s \in Seq(ToSet(s)) /\ ToSet(s) \subseteq S
<1>1. Len(s) \in Nat /\ s \in [1..Len(s) -> S]
  BY LenProperties
<1>2. s = [i \in 1..Len(s) |-> s[i]]
  BY <1>1
<1>3. s \in Seq(ToSet(s))
  BY <1>1, <1>2, SelfSeq
<1>4. ToSet(s) \subseteq S
  BY <1>1 DEF ToSet
<1>5. QED
  BY <1>3, <1>4

(* Lists of sound instructions. *)
LEMMA ListSoundOf ==
    ASSUME NEW S, \A x \in S : Sound(x), NEW l \in Seq(S)
    PROVE  ListSound(l)
<1>1. l \in Seq(ToSet(l)) /\ ToSet(l) \subseteq S
  BY OwnElements
<1>2. \A i \in DOMAIN l : l[i] \in S
  BY <1>1 DEF ToSet
<1>3. QED
  BY <1>1, <1>2 DEF ListSound

(* A command's list is sound. *)
LEMMA BuiltSound ==
    ASSUME NEW l \in BuiltLists
    PROVE  ListSound(l) /\ Sound(l[1])
<1>1. ListGood(l)
  BY BuiltGood
<1>2. l \in Seq(ToSet(l)) /\ l # <<>> /\ \A i \in DOMAIN l : Sound(l[i])
  BY <1>1 DEF ListGood, Good
<1>3. DOMAIN l = 1..Len(l) /\ Len(l) \in Nat \ {0}
  BY <1>2, LenProperties, EmptySeq
<1>4. 1 \in DOMAIN l
  BY <1>3
<1>5. QED
  BY <1>2, <1>4 DEF ListSound

(* Another account or another flag in its place. *)
LEMMA KeyChanged ==
    ASSUME NEW x, Sound(x), NEW i \in DOMAIN x.keys, NEW m
    PROVE  Sound([program |-> x.program, op |-> x.op, arg |-> x.arg,
                  keys |-> [x.keys EXCEPT ![i] = m]])
<1> DEFINE keys == [x.keys EXCEPT ![i] = m]
           y == [program |-> x.program, op |-> x.op, arg |-> x.arg, keys |-> keys]
<1>1. Len(x.keys) \in Nat /\ DOMAIN x.keys = 1..Len(x.keys)
  BY LenProperties DEF Sound
<1>2. keys = [j \in 1..Len(x.keys) |-> keys[j]] /\ DOMAIN keys = DOMAIN x.keys
  BY <1>1
<1> HIDE DEF keys
<1>3. keys \in Seq(ToSet(keys))
  BY <1>1, <1>2, SelfSeq
<1>4. /\ y.program = x.program /\ y.op = x.op /\ y.arg = x.arg /\ y.keys = keys
      /\ y = [program |-> y.program, op |-> y.op, arg |-> y.arg, keys |-> y.keys]
  OBVIOUS
<1> HIDE DEF y
<1>5. Matters(y) = Matters(x)
  BY <1>2, <1>4 DEF Matters
<1>6. Sound(y)
  BY <1>2, <1>3, <1>4, <1>5 DEF Sound
<1>7. QED
  BY <1>6 DEF y, keys

(* Other data. *)
LEMMA ArgChanged ==
    ASSUME NEW x, Sound(x), NEW a, x.op = "CastVote" => SomeOption(a),
           x.op \in {"Delegate", "Deactivate"} => a = <<>>
    PROVE  Sound([program |-> x.program, op |-> x.op, arg |-> a, keys |-> x.keys])
<1> DEFINE y == [program |-> x.program, op |-> x.op, arg |-> a, keys |-> x.keys]
<1>1. /\ y.program = x.program /\ y.op = x.op /\ y.arg = a /\ y.keys = x.keys
      /\ y = [program |-> y.program, op |-> y.op, arg |-> y.arg, keys |-> y.keys]
  OBVIOUS
<1> HIDE DEF y
<1>2. Matters(y) = Matters(x)
  BY <1>1 DEF Matters
<1>3. Sound(y)
  BY <1>1, <1>2 DEF Sound
<1>4. QED
  BY <1>3 DEF y

(* Another program. *)
LEMMA ProgramChanged ==
    ASSUME NEW x, Sound(x)
    PROVE  Sound([program |-> Custom, op |-> x.op, arg |-> x.arg, keys |-> x.keys])
<1> DEFINE y == [program |-> Custom, op |-> x.op, arg |-> x.arg, keys |-> x.keys]
<1>1. /\ y.program = Custom /\ y.op = x.op /\ y.arg = x.arg /\ y.keys = x.keys
      /\ y = [program |-> y.program, op |-> y.op, arg |-> y.arg, keys |-> y.keys]
  OBVIOUS
<1> HIDE DEF y
<1>2. Sound(y)
  BY <1>1, Distinct DEF Sound
<1>3. QED
  BY <1>2 DEF y

(* The option of a vote is only there to be changed if the vote is a yes. *)
LEMMA OptionChanged ==
    ASSUME NEW a, SomeOption(a), 2 \in DOMAIN a
    PROVE  SomeOption([a EXCEPT ![2] = "another option"])
<1>1. ASSUME NEW v, a = <<v>> PROVE FALSE
  BY ONLY <1>1, 2 \in DOMAIN a
<1>2. a # <<>>
  BY ONLY 2 \in DOMAIN a
<1>3. PICK o : a = <<"yes", o>>
  BY <1>1, <1>2 DEF SomeOption
<1> DEFINE c == <<"yes", "another option">>
<1>4. [a EXCEPT ![2] = "another option"] = c
  <2> DEFINE e == [a EXCEPT ![2] = "another option"]
  <2>1. DOMAIN a = 1..2 /\ a[1] = "yes" /\ a = [j \in 1..2 |-> a[j]]
    BY ONLY <1>3
  <2>2. e = [j \in 1..2 |-> e[j]] /\ e[1] = "yes" /\ e[2] = "another option"
    <3>1. e = [j \in 1..2 |-> e[j]]
      BY <2>1
    <3>2. e[1] = "yes"
      BY <2>1
    <3>3. e[2] = "another option"
      BY <2>1
    <3>4. QED
      BY <3>1, <3>2, <3>3
  <2>3. c = [j \in 1..2 |-> c[j]] /\ c[1] = "yes" /\ c[2] = "another option"
    OBVIOUS
  <2> HIDE DEF c, e
  <2>4. \A j \in 1..2 : e[j] = c[j]
    <3>1. \A j \in 1..2 : j = 1 \/ j = 2
      OBVIOUS
    <3>2. QED
      BY ONLY <2>2, <2>3, <3>1
  <2>5. e = c
    BY ONLY <2>2, <2>3, <2>4
  <2>6. QED
    BY <2>5 DEF e
<1>5. 2 \in DOMAIN c /\ c[2] = "another option"
  OBVIOUS
<1>6. "another option" \in ToSet(c)
  <2> HIDE DEF c
  <2>1. QED
    BY <1>5 DEF ToSet
<1>7. QED
  BY <1>4, <1>6 DEF SomeOption

(* Whatever is changed about an instruction, it stays sound. *)
LEMMA ChangeSound ==
    ASSUME NEW x, Sound(x), NEW y \in Changes(x)
    PROVE  Sound(y)
<1>1. x = [program |-> x.program, op |-> x.op, arg |-> x.arg, keys |-> x.keys]
  BY DEF Sound
<1>2. ASSUME NEW i \in DOMAIN x.keys, NEW m, y = [x EXCEPT !.keys[i] = m] PROVE Sound(y)
  <2>1. y = [program |-> x.program, op |-> x.op, arg |-> x.arg,
             keys |-> [x.keys EXCEPT ![i] = m]]
    BY <1>1, <1>2
  <2>2. QED
    BY <2>1, KeyChanged
<1>3. CASE y = [x EXCEPT !.program = Custom]
  <2>1. y = [program |-> Custom, op |-> x.op, arg |-> x.arg, keys |-> x.keys]
    BY <1>1, <1>3
  <2>2. QED
    BY <2>1, ProgramChanged
<1>4. ASSUME NEW a, y = [x EXCEPT !.arg = a], x.op = "CastVote" => SomeOption(a),
             x.op \in {"Delegate", "Deactivate"} => a = <<>>
      PROVE  Sound(y)
  <2>1. y = [program |-> x.program, op |-> x.op, arg |-> a, keys |-> x.keys]
    BY <1>1, <1>4
  <2>2. QED
    BY <1>4, <2>1, ArgChanged
<1>5. CASE y = [x EXCEPT !.arg = <<>>]
  <2>1. SomeOption(<<>>)
    BY DEF SomeOption
  <2>2. QED
    BY <1>4, <1>5, <2>1
<1>6. CASE y \in OptionChanges(x)
  <2>1. x.op = "CastVote" /\ 2 \in DOMAIN x.arg /\ y = [x EXCEPT !.arg[2] = "another option"]
    BY <1>6 DEF OptionChanges
  <2>2. SomeOption([x.arg EXCEPT ![2] = "another option"])
    BY <2>1, OptionChanged DEF Sound
  <2>3. y = [x EXCEPT !.arg = [x.arg EXCEPT ![2] = "another option"]]
    BY <1>1, <2>1
  <2>4. QED
    BY <1>4, <2>1, <2>2, <2>3
<1>7. CASE y \in DataChanges(x)
  <2>1. PICK l \in BuiltLists : l[1].op = x.op /\ y = [x EXCEPT !.arg = l[1].arg]
    BY <1>7 DEF DataChanges
  <2>2. Sound(l[1])
    BY BuiltSound
  <2>3. /\ x.op = "CastVote" => SomeOption(l[1].arg)
        /\ x.op \in {"Delegate", "Deactivate"} => l[1].arg = <<>>
    BY <2>1, <2>2 DEF Sound
  <2>4. QED
    BY <1>4, <2>1, <2>3
<1>8. CASE y \in AccountChanges(x)
  <2>1. PICK i \in DOMAIN x.keys : \E k : y = [x EXCEPT !.keys[i] = Meta(k, @.w, @.s)]
    BY <1>8 DEF AccountChanges
  <2>2. \E m : y = [x EXCEPT !.keys[i] = m]
    BY <2>1
  <2>3. QED
    BY <1>2, <2>2
<1>9. CASE y \in SignerChanges(x)
  <2>1. PICK i \in DOMAIN x.keys : y = [x EXCEPT !.keys[i] = Meta(@.key, @.w, ~@.s)]
    BY <1>9 DEF SignerChanges
  <2>2. \E m : y = [x EXCEPT !.keys[i] = m]
    BY <2>1
  <2>3. QED
    BY <1>2, <2>2
<1>10. QED
  BY <1>3, <1>5, <1>6, <1>7, <1>8, <1>9 DEF Changes

(* One instruction less. *)
LEMMA RemoveSound ==
    ASSUME NEW l, ListSound(l), NEW i \in DOMAIN l
    PROVE  ListSound(RemoveAt(l, i))
<1> DEFINE S == ToSet(l)
<1>1. l \in Seq(S) /\ \A x \in S : Sound(x)
  BY DEF ListSound, ToSet
<1> HIDE DEF S
<1>2. DOMAIN l = 1..Len(l) /\ Len(l) \in Nat
  BY <1>1, LenProperties
<1>3. \A j \in 1..Len(l) : l[j] \in S
  BY <1>1, ElementOfSeq
<1>4. /\ i - 1 \in Int /\ i + 1 \in Int /\ Len(l) \in Int /\ 1 \in Int
      /\ \A j \in 1..(i - 1) : l[j] \in S
      /\ \A j \in (i + 1)..Len(l) : l[j] \in S
  BY <1>2, <1>3
<1>5. SubSeq(l, 1, i - 1) \in Seq(S) /\ SubSeq(l, i + 1, Len(l)) \in Seq(S)
  BY <1>4, SubSeqProperties
<1>6. RemoveAt(l, i) \in Seq(S)
  BY <1>5, ConcatProperties DEF RemoveAt
<1>7. QED
  BY <1>1, <1>6, ListSoundOf

(* One changed. *)
LEMMA ReplaceSound ==
    ASSUME NEW l, ListSound(l), NEW i \in DOMAIN l, NEW y, Sound(y)
    PROVE  ListSound([l EXCEPT ![i] = y])
<1> DEFINE S == ToSet(l) \union {y}
<1>1. l \in Seq(ToSet(l)) /\ \A x \in S : Sound(x)
  BY DEF ListSound, ToSet
<1>2. ToSet(l) \subseteq S /\ y \in S
  OBVIOUS
<1> HIDE DEF S
<1>3. l \in Seq(S)
  BY <1>1, <1>2, SeqMonotonic
<1>4. i \in 1..Len(l)
  BY <1>3, LenProperties
<1>5. [l EXCEPT ![i] = y] \in Seq(S)
  BY <1>2, <1>3, <1>4, ExceptSeq
<1>6. QED
  BY <1>1, <1>5, ListSoundOf

(* And a command's list added. *)
LEMMA AppendSound ==
    ASSUME NEW l, ListSound(l), NEW k, ListSound(k)
    PROVE  ListSound(l \o k)
<1> DEFINE S == ToSet(l) \union ToSet(k)
<1>1. l \in Seq(ToSet(l)) /\ k \in Seq(ToSet(k)) /\ \A x \in S : Sound(x)
  BY DEF ListSound, ToSet
<1>2. ToSet(l) \subseteq S /\ ToSet(k) \subseteq S
  OBVIOUS
<1> HIDE DEF S
<1>3. l \in Seq(S) /\ k \in Seq(S)
  BY <1>1, <1>2, SeqMonotonic
<1>4. l \o k \in Seq(S)
  BY <1>3, ConcatProperties
<1>5. QED
  BY <1>1, <1>4, ListSoundOf

-----------------------------------------------------------------------------
(* The ceremony.                                                           *)

(* The invariant: the screen is that of the file, an untouched file is a   *)
(* command's, a touched one is sound.                                      *)
Shown ==
    /\ ListSound(file)
    /\ edits \in Nat
    /\ screen # <<>> => file # <<>> /\ screen = Screen(file)
    /\ edits = 0 /\ file # <<>> => file \in BuiltLists

(* No file yet. *)
LEMMA ShownInit == DescribeInit => Shown
<1> SUFFICES ASSUME DescribeInit PROVE Shown
  OBVIOUS
<1>1. file = <<>> /\ edits = 0 /\ screen = <<>>
  BY DEF DescribeInit
<1>2. ListSound(<<>>)
  <2>1. <<>> \in Seq({}) /\ \A x \in {} : Sound(x)
    BY EmptySeq
  <2>2. QED
    BY <2>1, ListSoundOf
<1>3. QED
  BY <1>1, <1>2 DEF Shown

(* Every step of the ceremony. *)
LEMMA ShownNext == Shown /\ [DescribeNext]_describeVars => Shown'
<1> SUFFICES ASSUME Shown, [DescribeNext]_describeVars PROVE Shown'
  OBVIOUS
<1>1. BuiltLists' = BuiltLists
  BY DEF BuiltLists, StakeLists, VoteLists, Deployment
<1>2. ASSUME NEW list \in BuiltLists, Construct(list) PROVE Shown'
  <2>1. file' = list /\ edits' = edits /\ screen' = screen /\ file = <<>>
    BY <1>2 DEF Construct
  <2>2. ListSound(list)
    BY BuiltSound
  <2>3. screen' = <<>>
    BY <2>1 DEF Shown
  <2>4. QED
    BY <1>1, <2>1, <2>2, <2>3 DEF Shown, ListSound
<1>3. CASE Edit
  <2>1. edits' = edits + 1 /\ screen' = screen /\ screen = <<>>
    BY <1>3 DEF Edit
  <2>2. edits' \in Nat /\ edits' # 0
    BY <2>1 DEF Shown
  <2>3. ListSound(file')
    <3>1. ASSUME NEW i \in DOMAIN file, NEW ix \in Changes(file[i]), file' = [file EXCEPT ![i] = ix]
          PROVE  ListSound(file')
      <4>1. Sound(ix)
        BY ChangeSound DEF Shown, ListSound
      <4>2. QED
        BY <3>1, <4>1, ReplaceSound DEF Shown
    <3>2. ASSUME NEW i \in DOMAIN file, file' = RemoveAt(file, i) PROVE ListSound(file')
      BY <3>2, RemoveSound DEF Shown
    <3>3. ASSUME NEW b \in BuiltLists, file' = file \o b PROVE ListSound(file')
      BY <3>3, BuiltSound, AppendSound DEF Shown
    <3>4. QED
      BY <1>3, <3>1, <3>2, <3>3 DEF Edit
  <2>4. QED
    BY <2>1, <2>2, <2>3 DEF Shown, ListSound
<1>4. CASE Show
  <2>1. file' = file /\ edits' = edits /\ file # <<>> /\ screen' = Screen(file)
    BY <1>4 DEF Show
  <2>2. Screen(file)' = Screen(file)
    BY <2>1
  <2>3. QED
    BY <1>1, <2>1, <2>2 DEF Shown, ListSound
<1>5. CASE Answer
  <2>1. DescribeInit'
    BY <1>5 DEF Answer, DescribeInit
  <2>2. QED
    BY <2>1, ShownInit, PTL
<1>6. CASE UNCHANGED describeVars
  BY <1>1, <1>6 DEF describeVars, Shown, ListSound
<1>7. QED
  BY <1>2, <1>3, <1>4, <1>5, <1>6 DEF DescribeNext

(* Hence always. *)
LEMMA AlwaysShown == DescribeSpec => []Shown
<1>1. QED
  BY ShownInit, ShownNext, PTL DEF DescribeSpec

(* Lists that look the same, one of them a command's, do the same. *)
LEMMA SameEffects ==
    ASSUME NEW l, ListSound(l), NEW list \in BuiltLists, Screen(l) = Screen(list),
           \A i \in DOMAIN l : ~Unsaid(l[i])
    PROVE  Effects(l) \in {<<>>, Effects(list)}
<1>1. \A i \in DOMAIN list : Good(list[i]) /\ ~Refused(list[i])
  BY BuiltGood DEF ListGood, Good
<1>2. DOMAIN l = DOMAIN list
      /\ \A i \in DOMAIN l : DescribeSubInstruction(l[i]) = DescribeSubInstruction(list[i])
  <2>1. [i \in DOMAIN l |-> DescribeSubInstruction(l[i])]
          = [i \in DOMAIN list |-> DescribeSubInstruction(list[i])]
    BY DEF Screen
  <2>2. QED
    BY <2>1
<1>3. CASE \E i \in DOMAIN l : Refused(l[i])
  BY <1>3 DEF Effects
<1>4. CASE \A i \in DOMAIN l : ~Refused(l[i])
  <2>1. \A i \in DOMAIN l : Effect(l[i]) = Effect(list[i])
    BY <1>1, <1>2, <1>4, SameEffect DEF ListSound
  <2>2. Effects(l) = [i \in DOMAIN l |-> Effect(l[i])]
    BY <1>4 DEF Effects
  <2>3. Effects(list) = [i \in DOMAIN list |-> Effect(list[i])]
    BY <1>1 DEF Effects
  <2>4. Effects(l) = Effects(list)
    BY <1>2, <2>1, <2>2, <2>3
  <2>5. QED
    BY <2>4
<1>5. QED
  BY <1>3, <1>4

(* Whatever was done to the file, however often: if the offline screen     *)
(* looks as a command's list would make it look, then what is signed does  *)
(* what that command does, or nothing.                                     *)
THEOREM ScreenIsTrue == DescribeSpec => []ScreenTells
<1>1. Shown => ScreenTells
  <2> SUFFICES ASSUME Shown, NEW list \in BuiltLists, LooksLike(list),
                      \A i \in DOMAIN file : ~Unsaid(file[i])
               PROVE  DoesTheSame(list)
    BY DEF ScreenTells
  <2>1. Screen(file) = Screen(list)
    BY DEF LooksLike, Shown
  <2>2. QED
    BY <2>1, SameEffects DEF Shown, DoesTheSame
<1>2. QED
  BY <1>1, AlwaysShown, PTL

(* The warning about an additional signer is for votes, for each of them   *)
(* and for nothing else that a command writes.                             *)
THEOREM VotesAreWarned == DescribeSpec => []WarnedOnlyForVotes
<1>1. Shown => WarnedOnlyForVotes
  <2> SUFFICES ASSUME Shown, edits = 0, screen # <<>>
               PROVE  screen.signers # {} <=> file \in VoteLists
    BY DEF WarnedOnlyForVotes
  <2>1. file \in BuiltLists /\ screen = Screen(file)
    BY DEF Shown
  <2>2. screen.signers = ExtraSigners(file)
    BY <2>1 DEF Screen, CoSignerWarning
  <2>3. QED
    BY <2>1, <2>2, BuiltGood
<1>2. QED
  BY <1>1, AlwaysShown, PTL
=============================================================================
