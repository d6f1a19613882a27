---------------------------- MODULE PreInstructions ----------------------------
(***************************************************************************)
(* What broadcast puts in front of a signed list: it looks up, one after   *)
(* the other, the TokenOwnerRecords and token accounts that the list       *)
(* needs, and creates those that are missing at the expense of the hot     *)
(* wallet.  Whom they are for it takes from the meta of unsigned-tx.json,  *)
(* which nobody has signed, so anything may stand there.                   *)
(*                                                                         *)
(* The seed is still the one signed for, and the node shows the chain as   *)
(* it is: Broadcast is about those that lag and are overtaken.             *)
(***************************************************************************)
EXTENDS Commands, FiniteSets

CONSTANTS
    Mint,           \* tokens
    Owner,          \* recipients
    Realm,
    GovernanceProgram,        \* deployments of SPL Governance
    MaxChurn        \* bound: times others create or close an account

ASSUME PreAssumption ==
    /\ Vault \notin Owner
    /\ Default \notin Mint \union Owner \union Realm \union GovernanceProgram
    /\ MaxChurn \in Nat

VARIABLES
    unsigned,       \* the file: the signed list, and the meta beside it
    accounts,       \* token accounts and records that exist
    at,             \* the loop broadcast is in, and how far
    pre,            \* preIxs
    paid,           \* history: accounts the hot wallet has paid for
    churn           \* times others created or closed an account

preVars == <<unsigned, accounts, at, pre, paid, churn>>

-----------------------------------------------------------------------------
(* Files.                                                                  *)

NoMeta == [recipient |-> Default, program |-> Default, realm |-> Default, mint |-> Default]

TransferFiles ==
    {[list |-> TokenTransfer(m, o, 1), meta |-> [NoMeta EXCEPT !.recipient = o]]
        : m \in Mint, o \in Owner}

DepositFiles ==
    {[list |-> GovernanceDeposit(p, r, m, 1),
      meta |-> [NoMeta EXCEPT !.program = p, !.realm = r, !.mint = m]]
        : p \in GovernanceProgram, r \in Realm, m \in Mint}

(* What the commands write. *)
Written == TransferFiles \union DepositFiles

WrittenLists == {f.list : f \in Written}

AnyMeta ==
    [recipient : Owner \union {Default}, program : GovernanceProgram \union {Default},
     realm : Realm \union {Default}, mint : Mint \union {Default}]

(* What broadcast may be given: a list that was signed, of one command or  *)
(* two, and any meta.                                                      *)
Files ==
    [list : WrittenLists \union {l \o k : l \in WrittenLists, k \in WrittenLists}, meta : AnyMeta]

IsTransfer(ix) == ix.program = Token /\ ix.op = "Transfer" /\ Len(ix.keys) >= 2
IsDeposit(ix, program) == ix.program = program /\ ix.op = "Deposit" /\ Len(ix.keys) > 5

(* Accounts the called program takes from, and the one it gives to. *)
Source(ix) == IF IsTransfer(ix) THEN ix.keys[1].key ELSE ix.keys[3].key
Target(ix) == IF IsTransfer(ix) THEN ix.keys[2].key ELSE ix.keys[6].key

Sources(list) == {Source(list[i]) : i \in DOMAIN list}
Targets(list) == {Target(list[i]) : i \in DOMAIN list}

PreInit ==
    /\ unsigned \in Files
    /\ accounts \in SUBSET (Sources(unsigned.list) \union Targets(unsigned.list))
    /\ at = [loop |-> "records", i |-> 1]
    /\ pre = <<>>
    /\ paid = {}
    /\ churn = 0

-----------------------------------------------------------------------------
(* buildExecuteIxs.                                                        *)

sub == unsigned.list[at.i]
meta == unsigned.meta

Within(loop) == at.loop = loop /\ at.i \in DOMAIN unsigned.list

Create(ix) ==
    /\ pre' = Append(pre, ix)
    /\ at' = [loop |-> IF at.loop = "source" THEN "tokens" ELSE at.loop, i |-> at.i + 1]

Skip ==
    /\ at' = [at EXCEPT !.i = @ + 1]
    /\ UNCHANGED pre

Throw ==
    /\ at' = [at EXCEPT !.loop = "threw"]
    /\ UNCHANGED pre

(* What is created for a record: SPL Governance derives the address. *)
Record == Tor(meta.program, meta.realm, meta.mint, sub.keys[4].key)

(* Mutant of RecordMatches: the meta is believed. *)
RecordBelieved == TRUE

RecordMatches == Record = sub.keys[6].key

(* addGovernanceTokenOwnerRecordIxs, for one sub-instruction. *)
LookRecord ==
    /\ Within("records")
    /\ IF \/ Default \in {meta.program, meta.realm, meta.mint}
          \/ ~IsDeposit(sub, meta.program)
          \/ sub.keys[6].key \in accounts
       THEN Skip
       ELSE IF RecordMatches THEN Create([op |-> "CreateRecord", account |-> Record])
       ELSE Throw
    /\ UNCHANGED <<unsigned, accounts, paid, churn>>

RecordsDone ==
    /\ at = [loop |-> "records", i |-> Len(unsigned.list) + 1]
    /\ at' = [loop |-> "tokens", i |-> 1]
    /\ UNCHANGED <<unsigned, accounts, pre, paid, churn>>

(* The address of a token account stands for what is in it: its mint. *)
MintOf(account) == account[2]

(* The loop over the token transfers, for one sub-instruction: is the      *)
(* account there that the tokens go to?                                    *)
LookToken ==
    /\ Within("tokens")
    /\ IF ~IsTransfer(sub) \/ Target(sub) \in accounts THEN Skip
       ELSE at' = [at EXCEPT !.loop = "source"] /\ UNCHANGED pre
    /\ UNCHANGED <<unsigned, accounts, paid, churn>>

(* If not, which mint are they of, and is the account the recipient's?     *)
LookSource ==
    /\ Within("source")
    /\ IF /\ Source(sub) \in accounts
          /\ meta.recipient # Default
          /\ Ata(MintOf(Source(sub)), meta.recipient) = Target(sub)
       THEN Create([op |-> "CreateAta", account |-> Target(sub)])
       ELSE Throw
    /\ UNCHANGED <<unsigned, accounts, paid, churn>>

(* Mutant of Ed25519Index: the instruction is taken to be the first. *)
Ed25519First == 0

(* Where in the transaction the program is told to find the precompile     *)
(* instruction, counted from 0.                                            *)
Ed25519Index == Len(pre)

Assembled == Append(pre, [op |-> "Ed25519"]) \o <<[op |-> "Execute", index |-> Ed25519Index]>>

TokensDone ==
    /\ at = [loop |-> "tokens", i |-> Len(unsigned.list) + 1]
    /\ at' = [loop |-> "sent", i |-> 0]
    /\ UNCHANGED <<unsigned, accounts, pre, paid, churn>>

-----------------------------------------------------------------------------
(* The chain.                                                              *)

(* Accounts are created that do not exist, each once; the program finds    *)
(* the precompile instruction; then the list has the accounts it needs.    *)
Runs ==
    LET created == {pre[i].account : i \in DOMAIN pre}
    IN  /\ created \intersect accounts = {} /\ Cardinality(created) = Len(pre)
        /\ Assembled[Last(Assembled).index + 1].op = "Ed25519"
        /\ Sources(unsigned.list) \union Targets(unsigned.list) \subseteq accounts \union created

Land ==
    /\ at.loop = "sent"
    /\ IF Runs
       THEN /\ paid' = {pre[i].account : i \in DOMAIN pre}
            /\ accounts' = accounts \union paid'
            /\ at' = [at EXCEPT !.loop = "landed"]
       ELSE /\ at' = [at EXCEPT !.loop = "failed"]
            /\ UNCHANGED <<paid, accounts>>
    /\ UNCHANGED <<unsigned, pre, churn>>

(* Anybody creates an account that the list needs, or its owner closes it. *)
Churn ==
    /\ at.loop \in {"records", "tokens", "source", "sent"}
    /\ churn < MaxChurn
    /\ churn' = churn + 1
    /\ \E a \in Sources(unsigned.list) \union Targets(unsigned.list) :
          accounts' = IF a \in accounts THEN accounts \ {a} ELSE accounts \union {a}
    /\ UNCHANGED <<unsigned, at, pre, paid>>

PreNext == LookRecord \/ RecordsDone \/ LookToken \/ LookSource \/ TokensDone \/ Land \/ Churn

PreSpec == PreInit /\ [][PreNext]_preVars

-----------------------------------------------------------------------------
(* The hot wallet pays for no account that the signed list does not give   *)
(* to, whatever the meta says, and whoever creates or closes accounts      *)
(* between the look-ups and inclusion.                                     *)
(* (broadcast.ts:186-190 "never a wrong ATA", 299-302 "never a record      *)
(* created against a realm/mint the cold wallet didn't authorize".)        *)
PaysForSigned == paid \subseteq Targets(unsigned.list)

(* A file as a command built it goes through, unless an account comes or   *)
(* goes meanwhile: what is missing is created once, in front of the list,  *)
(* and the program still finds the precompile instruction.                 *)
(* (README.md:406-408 on records, broadcast.ts:152-162, token_transfer.ts:60.) *)
(* Not so for a list of two transfers to one account that is missing: it   *)
(* would be created twice.  No command builds one.                         *)
HonestLands ==
    unsigned \in Written /\ Sources(unsigned.list) \subseteq accounts /\ churn = 0 =>
        at.loop \notin {"threw", "failed"}
=============================================================================
