------------------------------- MODULE Describe -------------------------------
(***************************************************************************)
(* What the offline screen says of a list of sub-instructions against what *)
(* the list does.  A command writes a list, the file may be changed on its *)
(* way, and sign shows what it reads.  A line of the screen is a tuple:    *)
(* the program, whether the instruction was recognised, its operation, the *)
(* data shown, the accounts shown (with flags where flags are shown).      *)
(***************************************************************************)
EXTENDS Commands

CONSTANTS
    Address,        \* addresses an account may be replaced by
    Custom,         \* an SPL Governance deployed under another program id
    Recipient, Quantity, Seed, Validator, GoverningMint,
    Dao, Governed, Motion, Proposer, \* accounts of a realm and its proposals
    Ballot,         \* votes
    MaxEdits        \* bound: changes to a file before it is shown

ASSUME DescribeAssumption ==
    /\ \A p, q \in 1..5 :
          LET programs == <<System, Token, Stake, Governance, Custom>>
          IN  p # q => programs[p] # programs[q]
    /\ Payer # Vault /\ Vault \in Address
    /\ Ballot \subseteq Vote
    /\ MaxEdits \in Nat

VARIABLES
    file,           \* the list in unsigned-tx.json
    edits,          \* how often it was changed since a command wrote it
    screen          \* what sign shows of it, or <<>>

describeVars == <<file, edits, screen>>

-----------------------------------------------------------------------------
(* What the commands build.                                                *)

Deployment == {Governance, Custom}

VoteLists ==
    {GovernanceCastVote(p, Dao, Governed, m, Proposer, t, v) :
        p \in Deployment, m \in Motion, t \in GoverningMint, v \in Ballot}

StakeLists ==
    {StakeCreate(s, n) : s \in Seed, n \in Quantity}
      \union {StakeDelegate(StakeAddress(Vault, s), v) : s \in Seed, v \in Validator}
      \union {StakeDeactivate(StakeAddress(Vault, s)) : s \in Seed}
      \union {StakeWithdraw(StakeAddress(Vault, s), to, n) :
                 s \in Seed, to \in Recipient, n \in Quantity}

BuiltLists ==
    {SolTransfer(to, n) : to \in Recipient, n \in Quantity}
      \union {TokenTransfer(t, to, n) : t \in GoverningMint, to \in Recipient, n \in Quantity}
      \union StakeLists
      \union {GovernanceDeposit(p, Dao, t, n) :
                 p \in Deployment, t \in GoverningMint, n \in Quantity}
      \union VoteLists
      \union {GovernanceRelinquishVote(p, Dao, Governed, m, t) :
                 p \in Deployment, m \in Motion, t \in GoverningMint}
      \union {GovernanceWithdraw(p, Dao, t) : p \in Deployment, t \in GoverningMint}

-----------------------------------------------------------------------------
(* describe.ts                                                             *)

(* acct: the first n accounts, by address alone. *)
Pubkeys(ix, n) ==
    [i \in 1..n |-> <<IF i <= Len(ix.keys) THEN ix.keys[i].key ELSE Default>>]

Flagged(ix) == [i \in DOMAIN ix.keys |-> <<ix.keys[i].key, ix.keys[i].w, ix.keys[i].s>>]

(* Mutant of RawDump: the data is left out. *)
RawDumpNoData(ix) == <<ix.program, FALSE, ix.op, <<>>, Flagged(ix)>>

(* rawDump: every account with its flags, all of the data. *)
RawDump(ix) == <<ix.program, FALSE, ix.op, ix.arg, Flagged(ix)>>

Line(ix, shown, accounts) == <<ix.program, TRUE, ix.op, shown, accounts>>

(* A transfer too short to hold an amount is not recognised. *)
Amount(ix) == ix.op = "Transfer" /\ ix.arg # <<>>

(* describeGovernanceInstruction: the accounts named for each operation,   *)
(* and how many there must be; of a vote its kind alone, not the options   *)
(* it is for.                                                              *)
GovernanceShown == [Deposit |-> 5, Withdraw |-> 5, CastVote |-> 6, Relinquish |-> 5]
GovernanceNeeds == [Deposit |-> 6, Withdraw |-> 5, CastVote |-> 8, Relinquish |-> 6]

GovernanceDecodes(ix) ==
    /\ ix.op \in DOMAIN GovernanceShown
    /\ Len(ix.keys) >= GovernanceNeeds[ix.op]
    /\ ix.op \in {"Deposit", "CastVote"} <=> ix.arg # <<>>

DescribeSubInstruction(ix) ==
    CASE ix.program = System /\ Amount(ix)
            -> Line(ix, ix.arg, Pubkeys(ix, 2))
      [] ix.program = System /\ ix.op = "CreateWithSeed"
            -> Line(ix, <<>>, Pubkeys(ix, 2))
      [] ix.program = Token /\ Amount(ix)
            -> Line(ix, ix.arg, Pubkeys(ix, 3))
      [] ix.program = Stake
            -> Line(ix, IF ix.op = "Withdraw" THEN ix.arg ELSE <<>>, Flagged(ix))
      [] ix.program = Governance /\ GovernanceDecodes(ix)
            -> Line(ix, IF ix.op = "CastVote" THEN <<ix.arg[1]>> ELSE ix.arg,
                    Pubkeys(ix, GovernanceShown[ix.op]))
      [] OTHER -> RawDump(ix)

(* coSignerWarning (sign.ts): everybody who signs besides the vault. *)
CoSignerWarning(list) == ExtraSigners(list)

Screen(list) ==
    [lines |-> [i \in DOMAIN list |-> DescribeSubInstruction(list[i])],
     signers |-> CoSignerWarning(list)]

-----------------------------------------------------------------------------
(* What the programs called make of an instruction: nothing if it is too   *)
(* short, if an account that has to be derived from the others is not, or  *)
(* if one that has to sign does not; else what its data and accounts say.  *)
(* Who pays the rent of a record and who gets it back is not counted.      *)

Signs(ix, i) == ix.keys[i].s

Refused(ix) ==
    LET k(i) == ix.keys[i].key
    IN  \/ ix.op \in {"Transfer", "Deposit", "CastVote"} /\ ix.arg = <<>>
        \/ /\ ix.op = "Transfer"
           /\ ~Signs(ix, IF ix.program = Token THEN 3 ELSE 1)
        \/ /\ ix.op = "Deposit"
           /\ ~ /\ Signs(ix, 4) /\ Signs(ix, 5)
                /\ \E m \in GoverningMint : /\ k(2) = Holding(ix.program, k(1), m)
                                            /\ k(6) = Tor(ix.program, k(1), m, k(4))
        \/ /\ ix.op = "Withdraw" /\ ix.program # Stake
           /\ ~ /\ Signs(ix, 4)
                /\ \E m \in GoverningMint : /\ k(2) = Holding(ix.program, k(1), m)
                                            /\ k(5) = Tor(ix.program, k(1), m, k(4))
        \/ /\ ix.op = "CastVote"
           /\ ~ /\ Signs(ix, 6) /\ Signs(ix, 9)
                /\ k(7) = VoteRecord(ix.program, k(3), k(5))
                /\ \E o \in Address : k(5) = Tor(ix.program, k(1), k(8), o)
        \/ /\ ix.op = "Relinquish"
           /\ ~ /\ Signs(ix, 7)
                /\ k(5) = VoteRecord(ix.program, k(3), k(4))
                /\ k(4) = Tor(ix.program, k(1), k(6), k(7))

(* Places of the accounts the effect depends on. *)
Matters(ix) ==
    CASE ix.op \in {"Transfer", "CreateWithSeed"} -> 1..(IF ix.program = Token THEN 3 ELSE 2)
      [] ix.op = "Deposit" -> 1..6
      [] ix.op = "Withdraw" /\ ix.program # Stake -> 1..5
      [] ix.op = "CastVote" -> 1..8
      [] ix.op = "Relinquish" -> 1..7
      [] OTHER -> DOMAIN ix.keys

Effect(ix) == <<ix.program, ix.op, ix.arg, [i \in Matters(ix) |-> ix.keys[i].key]>>

(* A list is carried out whole or not at all. *)
Effects(list) ==
    IF \E i \in DOMAIN list : Refused(list[i]) THEN <<>>
    ELSE [i \in DOMAIN list |-> Effect(list[i])]

-----------------------------------------------------------------------------
DescribeInit == file = <<>> /\ edits = 0 /\ screen = <<>>

(* saveJson by a construct command.  (A file replaced before it is shown   *)
(* is as if it had never been.)                                            *)
Construct(list) ==
    /\ file = <<>>
    /\ file' = list
    /\ UNCHANGED <<edits, screen>>

(* An account is replaced, or its signer flag flipped. *)
AccountChanges(ix) ==
    {[ix EXCEPT !.keys[i] = Meta(k, @.w, @.s)] : i \in DOMAIN ix.keys, k \in Address}
SignerChanges(ix) ==
    {[ix EXCEPT !.keys[i] = Meta(@.key, @.w, ~@.s)] : i \in DOMAIN ix.keys}

(* The data is cut off, a vote's option or all of the data exchanged. *)
OptionChanges(ix) ==
    IF ix.op = "CastVote" /\ 2 \in DOMAIN ix.arg
    THEN {[ix EXCEPT !.arg[2] = "another option"]} ELSE {}
DataChanges(ix) ==
    {[ix EXCEPT !.arg = l[1].arg] : l \in {b \in BuiltLists : b[1].op = ix.op}}

(* Anything about one instruction is changed, or one is dropped or added. *)
Changes(ix) ==
    AccountChanges(ix) \union SignerChanges(ix) \union OptionChanges(ix) \union DataChanges(ix)
      \union {[ix EXCEPT !.program = Custom], [ix EXCEPT !.arg = <<>>]}

Edit ==
    /\ file # <<>> /\ screen = <<>>
    /\ edits < MaxEdits
    /\ \/ \E i \in DOMAIN file : \E ix \in Changes(file[i]) :
             file' = [file EXCEPT ![i] = ix]
       \/ \E i \in DOMAIN file : file' = RemoveAt(file, i)
       \/ \E b \in BuiltLists : file' = file \o b
    /\ edits' = edits + 1
    /\ UNCHANGED screen

(* signOffline: the lines are computed from what was read. *)
Show ==
    /\ file # <<>> /\ screen = <<>>
    /\ screen' = Screen(file)
    /\ UNCHANGED <<file, edits>>

(* Yes or no: the ceremony is over. *)
Answer ==
    /\ screen # <<>>
    /\ file' = <<>> /\ edits' = 0 /\ screen' = <<>>

DescribeNext ==
    \/ \E list \in BuiltLists : Construct(list)
    \/ Edit
    \/ Show
    \/ Answer

DescribeSpec == DescribeInit /\ [][DescribeNext]_describeVars

-----------------------------------------------------------------------------
LooksLike(list) == screen # <<>> /\ screen = Screen(list)

DoesTheSame(list) == Effects(file) \in {<<>>, Effects(list)}

(* Instructions of which the screen leaves out an argument. *)
Unsaid(ix) ==
    \/ ix.op \in {"CreateWithSeed", "Initialize"}
    \/ ix.op = "CastVote" /\ Len(ix.arg) > 1 /\ ix.arg[2] # "first option"

(* A file that looks like what a command builds does what that command     *)
(* does or nothing at all, however it was changed on its way: what the     *)
(* operator compares on the offline screen is what will be done.           *)
(* (describe.ts:18-26, sign.ts:128-132.)                                   *)
ScreenTells ==
    \A list \in BuiltLists :
        LooksLike(list) /\ (\A i \in DOMAIN file : ~Unsaid(file[i])) => DoesTheSame(list)

(* The warning about an additional signer appears for votes and for no     *)
(* other command's file.                                                   *)
(* (README.md:401-405 "No other command does this", governance.ts:47-59.)  *)
WarnedOnlyForVotes ==
    edits = 0 /\ screen # <<>> => (screen.signers # {} <=> file \in VoteLists)

(* Refuted: the screen shows all that is done, the amount of stake-create  *)
(* and the option of a vote included.                                      *)
(* (README.md:340-342, describe.ts:20-23 "provably exactly what will       *)
(* execute on-chain".)                                                     *)
AllTold == \A list \in BuiltLists : LooksLike(list) => DoesTheSame(list)
=============================================================================
