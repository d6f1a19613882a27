---------------------------- MODULE GovernanceTokens ----------------------------
(***************************************************************************)
(* Governing tokens of the vault: deposited into a realm, voted with, the  *)
(* votes relinquished and the tokens withdrawn, by lists that the          *)
(* governance commands build and broadcast sends.  Broadcast decides who   *)
(* may co-sign, and creates the voter's TokenOwnerRecord in front of a     *)
(* deposit that needs it.  The Vector account and what is signed are those *)
(* of Authority.                                                           *)
(***************************************************************************)
EXTENDS Authority

CONSTANTS
    Program,        \* the SPL Governance of the realm, canonical or not
    Realm, Council, \* the realm and its governance
    Proposal,
    Owner,          \* record of whoever made the proposals
    Mint,           \* the governing token
    Funds           \* tokens of the vault at the start

ASSUME GovernanceAssumption == Vault # Payer /\ Funds \in Nat

VARIABLES
    tokens,         \* in the vault's token account, and deposited
    record,         \* the vault's TokenOwnerRecord exists
    vote,           \* per proposal: none, cast or relinquished
    open,           \* proposals still voted on
    leaving,        \* the operators want the tokens back
    sent            \* what became of the list broadcast last

vars == <<authority, tokens, record, vote, open, leaving, sent>>

tor == Tor(Program, Realm, Mint, Vault)

Init ==
    /\ AuthorityInit
    /\ tokens = [home |-> Funds, deposited |-> 0]
    /\ record = FALSE
    /\ vote = [p \in Proposal |-> "none"]
    /\ open = Proposal
    /\ leaving = FALSE
    /\ sent = [op |-> "none", why |-> "nothing"]

-----------------------------------------------------------------------------
(* Operators.                                                              *)

CastVote(p, v) == GovernanceCastVote(Program, Realm, Council, p, Owner, Mint, v)
RelinquishVote(p) == GovernanceRelinquishVote(Program, Realm, Council, p, Mint)
Withdraw == GovernanceWithdraw(Program, Realm, Mint)

Lists ==
    {GovernanceDeposit(Program, Realm, Mint, n) : n \in 1..Funds}
      \union {CastVote(p, v) : p \in Proposal, v \in Vote}
      \union {RelinquishVote(p) : p \in Proposal}
      \union {Withdraw}

Authorize(list) ==
    /\ ~leaving
    /\ SignAny(list)
    /\ UNCHANGED <<tokens, record, vote, open, leaving, sent>>

(* "Relinquish first." (README.md:409-410) *)
HomewardLists ==
    IF \E p \in Proposal : vote[p] = "cast"
    THEN {RelinquishVote(p) : p \in {q \in Proposal : vote[q] = "cast"}}
    ELSE IF tokens.deposited > 0 THEN {Withdraw} ELSE {}

AuthorizeHomeward ==
    /\ leaving
    /\ \E list \in HomewardLists : Sign(list)
    /\ UNCHANGED <<tokens, record, vote, open, leaving, sent>>

Leave ==
    /\ leaving' = TRUE
    /\ UNCHANGED <<authority, tokens, record, vote, open, sent>>

-----------------------------------------------------------------------------
(* Broadcast.                                                              *)

(* assertCoSignerScope: the payer alone co-signs, for the canonical SPL    *)
(* Governance alone.                                                       *)
InScope(list) ==
    /\ ExtraSigners(list) \subseteq {Payer}
    /\ \A i \in DOMAIN list : ExtraSigners(<<list[i]>>) # {} => list[i].program = Governance

(* Mutant of NeedsRecord: deposits are sent as they are. *)
NeedsRecordNever(list) == FALSE

(* addGovernanceTokenOwnerRecordIxs: a deposit names a record that is not  *)
(* there.                                                                  *)
NeedsRecord(list) ==
    /\ ~record
    /\ \E i \in DOMAIN list :
          list[i].program = Program /\ list[i].op = "Deposit" /\ list[i].keys[6].key = tor

(* What SPL Governance says to the instruction: the voter signs, and so    *)
(* does whoever pays for a vote record.                                    *)
Verdict(ix, hasRecord) ==
    LET signs(k) == \E i \in DOMAIN ix.keys : ix.keys[i].key = k /\ ix.keys[i].s
        on(p) == ix.keys[3].key = p
    IN  IF ~signs(Vault) THEN "signer"
        ELSE IF ~hasRecord THEN "record"
        ELSE CASE ix.op = "Deposit" -> IF tokens.home >= ix.arg[1] THEN "ok" ELSE "funds"
               [] ix.op = "CastVote" ->
                     IF ~ \E i \in DOMAIN ix.keys : ix.keys[i].key # Vault /\ ix.keys[i].s
                     THEN "signer"
                     ELSE IF tokens.deposited = 0 THEN "weight"
                     ELSE IF \E p \in open : on(p) /\ vote[p] = "none" THEN "ok" ELSE "voted"
               [] ix.op = "Relinquish" ->
                     IF \E p \in Proposal : on(p) /\ vote[p] = "cast" THEN "ok" ELSE "no vote"
               [] ix.op = "Withdraw" ->
                     IF \E p \in Proposal : vote[p] = "cast" THEN "votes" ELSE "ok"

(* A relinquished vote on an open proposal may be cast again; withdrawn    *)
(* tokens go where the instruction says.                                   *)
Carry(ix) ==
    /\ tokens' =
          CASE ix.op = "Deposit" -> [home |-> tokens.home - ix.arg[1],
                                     deposited |-> tokens.deposited + ix.arg[1]]
            [] ix.op = "Withdraw" ->
                  [home |-> tokens.home
                       + (IF ix.keys[3].key = Ata(Mint, Vault) THEN tokens.deposited ELSE 0),
                   deposited |-> 0]
            [] OTHER -> tokens
    /\ vote' =
          [p \in Proposal |->
              IF p # ix.keys[3].key THEN vote[p]
              ELSE CASE ix.op = "CastVote" -> "cast"
                     [] ix.op = "Relinquish" -> IF p \in open THEN "none" ELSE "relinquished"
                     [] OTHER -> vote[p]]

(* Mutant of Commit: the record is left out of the transaction.            *)
CommitNoRecord(list) == Accept(list) /\ Carry(list[1]) /\ record' = record

(* The record that is needed is created in front of the list, in the same  *)
(* transaction: it goes with the list if that fails.                       *)
Commit(list) ==
    /\ Accept(list)
    /\ Carry(list[1])
    /\ record' = (record \/ NeedsRecord(list))

Broadcast(list) ==
    LET verdict == IF ~InScope(list) THEN "scope"
                   ELSE Verdict(list[1], record \/ NeedsRecord(list))
    IN  /\ vector.open
        /\ list \in signed
        /\ sent' = [op |-> list[1].op, why |-> verdict]
        /\ IF verdict = "ok"
           THEN Commit(list)
           ELSE UNCHANGED <<authority, tokens, vote, record>>
        /\ UNCHANGED <<open, leaving>>

-----------------------------------------------------------------------------
(* The rest of the world.                                                  *)

(* Anybody may create the record, and time is up for a proposal. *)
CreateRecord ==
    /\ ~record /\ record' = TRUE
    /\ UNCHANGED <<authority, tokens, vote, open, leaving, sent>>

EndProposal(p) ==
    /\ p \in open
    /\ open' = open \ {p}
    /\ UNCHANGED <<authority, tokens, record, vote, leaving, sent>>

Close == CloseVector /\ UNCHANGED <<tokens, record, vote, open, leaving, sent>>

Initialize == InitializeVector /\ UNCHANGED <<tokens, record, vote, open, leaving, sent>>

Next ==
    \/ \E list \in Lists : Authorize(list)
    \/ AuthorizeHomeward
    \/ Leave
    \/ \E list \in signed : Broadcast(list)
    \/ CreateRecord
    \/ \E p \in Proposal : EndProposal(p)
    \/ Close
    \/ Initialize

(* Operators who want the tokens back make the next file, have it signed   *)
(* and broadcast, and initialise the authority again if it was closed.     *)
Fairness ==
    /\ WF_vars(AuthorizeHomeward)
    /\ \A list \in Lists : WF_vars(Broadcast(list))
    /\ WF_vars(Initialize)

Spec == Init /\ [][Next]_vars

FairSpec == Spec /\ Fairness

-----------------------------------------------------------------------------
(* Types, no token lost or made, and what is behind a vote: tokens         *)
(* deposited under the record.                                             *)
TypeOK ==
    /\ tokens \in [home : 0..Funds, deposited : 0..Funds]
    /\ tokens.home + tokens.deposited = Funds
    /\ record \in BOOLEAN
    /\ vote \in [Proposal -> {"none", "cast", "relinquished"}]
    /\ open \subseteq Proposal
    /\ signed \subseteq Lists
    /\ \A p \in Proposal : vote[p] = "cast" => tokens.deposited > 0
    /\ tokens.deposited > 0 => record

(* What a governance command has built, and the cold wallet signed, is     *)
(* never refused because of who signs it, nor because the record of the    *)
(* voter is missing in front of a deposit.                                 *)
(* (governance.ts:188-196, 274-276; broadcast.ts:223-231; README.md:406.)  *)
(* Not so in a realm under another program id (README.md:411-415): its     *)
(* votes are built and signed, and InScope refuses them.                   *)
FilesAreSent ==
    /\ sent.why \notin {"scope", "signer"}
    /\ sent # [op |-> "Deposit", why |-> "record"]

(* Tokens that the operators want back come back to the vault: votes cast, *)
(* proposals that end, actions that void what is signed and a close of the *)
(* authority, which leaves them behind, only delay it.                     *)
(* (README.md:391-410, close.rs:67-79, governance.ts:310-448.)             *)
TokensComeHome == leaving ~> tokens = [home |-> Funds, deposited |-> 0]
=============================================================================
