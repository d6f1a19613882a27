# Vector offline signing: specification and verification

TLA+ models of the Vector program and of the command-line tool around it, the
TLC configurations that check them on small instances, and TLAPS proofs of the
properties that matter most. Paths below are relative to the repository.

Vector keeps funds in a *vault* PDA that only an offline ("cold") ed25519 key
can spend from. A command on an online machine reads a *seed* from the chain
and writes an action to `unsigned-tx.json`; an offline machine shows the action
and signs its digest; a `broadcast` on an online machine, paid for by a hot
wallet, sends the action and the signature; the program recomputes the digest,
checks the signature through the ed25519 precompile, carries the action out and
replaces the seed. There is no expiry: only the seed stands between a signature
and its second use.

## 1. Inventory

| Part | Source | State it keeps | Operations | Talks to |
|---|---|---|---|---|
| Vector program | `programs/vector/src/{lib,initialize,execute,close,state}.rs` | per authority: the state PDA (authority, seed, bumps) and the lamports of the vault PDA | `initialize`, `execute`, `close` | precompile (by introspection), called programs (CPI) |
| Sub-instructions | `programs/vector/src/utils/sub_instructions.rs` | a cursor over bytes, a cursor over accounts | decode; walk and CPI | runtime |
| Precompile introspection | `programs/vector/src/utils/precompile.rs` | none | verify | instructions sysvar |
| Hash chain | `programs/vector/src/utils/hash.rs`, digest formulas in `execute.rs`, `close.rs`, `src/utils/vector.ts` | none | seed, digests, next seed | |
| Client library | `src/utils/vector.ts` | none | PDAs, encoder, digests, co-signer choice, instruction builders | |
| Construct commands | `src/commands/{sol_transfer,token_transfer,close,stake,governance}.ts` | `unsigned-tx.json` | one per action | RPC node |
| `sign` | `src/commands/sign.ts`, `src/utils/describe.ts` | `signed-tx.json` | check, show, ask, sign | operator |
| `broadcast` | `src/commands/broadcast.ts` | none on disk; one transaction in flight | check the pair, add missing accounts, simulate, send, wait | RPC node |
| `init-authority` | `src/commands/init_authority.ts` | `vector-info.json` | check, send, wait | RPC node |
| Files | `src/utils/io.ts` | two files with fixed names per directory | save (overwrites), load | the operator who carries them |
| Connection | `src/utils/connection.ts` | none | reads at `confirmed` | a node behind the chain |

What interacts with what: commands talk to one another through the two files
only, to the program through transactions only, and to the chain's state
through an RPC node whose view is old. No command holds a lock. The program's
own instructions are atomic, but an `execute` calls other programs between
reading its seed and storing the next.

What is hard, and what makes each part correct:

* *Replay and resurrection.* A signature is good for one use against one state
  of one deployment. Threats: stale files, several files on one seed, close and
  initialise again (in the same slot or the same second), the same program id on
  another cluster, a second program id. -> `OnePerSeed`, `NoRevival`,
  `SeedCommitsToHistory`, `SeedDiscipline`, `ImplementsOneShot`.
* *Order inside an execute.* Seed read, CPIs, seed stored; re-entrance; a list
  that fails half-way; signer privileges that reach a CPI.
  -> `OneActionPerSeed`, `AllOrNothing`, `VaultOnly`, `HotWalletSpared`.
* *Agreement of two implementations.* The client lays out accounts, bytes and
  precompile offsets; the program reads them. -> `BuiltIsWalked`, `RoundTrip`,
  `EveryByteCounts`, `NeverPanics`, `BuiltIsAccepted`, `AcceptedWasSigned`.
* *The ceremony.* Fixed file names, files that are overwritten between showing
  and signing or between two ceremonies, an online machine that is not trusted.
  -> `ExecutedWasApproved`, `SentWasApproved`.
* *Broadcasting.* Look-up, simulation, inclusion and confirmation are four
  moments; waits time out with the transaction still about; runs are repeated.
  -> `RetriesAreSafe`, `EverySeedIsUsed`, `ConfirmedMeansExecuted`. What is put
  in front of a signed list is taken from a part of the file that is not signed.
  -> `PaysForSigned`, `HonestLands`.
* *Initialising.* Several operators, each with a look-up, a send and a wait.
  -> `InfoMeansInitialized`, `EventuallyRecorded`.
* *What the vault controls, over time.* Stake and governing tokens outlive files
  that are void, epochs, votes, and a close of the authority.
  -> `Controlled`, `ComesHome`, `TokensComeHome`, `FilesAreSent`.
* *What the operator reads.* A screen computed from bytes, against what the
  bytes do. -> `ScreenTells`, `WarnedOnlyForVotes`, `AllTold`.
* *Amounts.* Decimals typed, binary numbers multiplied and rounded.
  -> `AsTyped`.

`PROJECT.json` lists every such hazard at its line, with the properties for it.

## 2. Modules

    HashChain <- VectorProgram <- VectorOneShot (-> OneShot) <- VectorInvariant
                                                                <- MCVectorProgram
                                                                <- VectorProofs
    ColdSigning      <- MCColdSigning,      ColdSigningProofs
    Broadcast        <- MCBroadcast,        BroadcastProofs
    Transaction      <- MCTransaction,      TransactionProofs
    Commands <- Describe <- MCDescribe
             <- Authority <- GovernanceTokens
                          <- StakeAccounts <- StakeProofs
             <- PreInstructions          \
    Precompile      <- MCPrecompile       } <- MCAlgorithms
    SubInstructions <- MCSubInstructions  }
    Amounts                              /
    InitAuthority

    Describe, GovernanceTokens                                    <- CommandProofs
    Precompile, InitAuthority, PreInstructions, SubInstructions,
    Amounts, Induction                                            <- AlgorithmProofs
    Induction                                                     <- TransactionProofs

The layers meet at `OneShot`. It is the abstract specification of replay
protection: an account that is open is in an epoch, no epoch is ever entered
twice, a grant is for one act in one epoch, and acting on a grant ends the
epoch. `VectorProgram` is shown to implement it, with
epoch = (seed, program id), grant = signature on a file, act = (tag, body). The
modules above the chain (`ColdSigning`, `Broadcast`, `Transaction`, `Authority`) number the
seeds as they are entered instead of hashing; that is sound because a seed is
stored once.

### HashChain, VectorProgram: the program on all its clusters

SHA-256 is taken as collision-free, so a hash is the record of its inputs. A
seed is the initialisation input (authority, slot, unix time) and the chain of
(program id, sub-instruction data) executed since; a digest is the seed, tag,
program id and body.

| Action | Code |
|---|---|
| `Initialize` | `initialize.rs`: Anchor's `init` refuses an account that exists; seed from authority, slot, unix time |
| `Execute` | `execute.rs` as one step: digest from the stored seed, signature, CPIs (the vault's balance after each must be possible), next seed |
| `Close` | `close.rs`: other tag, destination bound, vault drained, account deleted |
| `ConstructExecute`, `ConstructClose` | the construct commands: read the seed at `confirmed`, compute the digest, write a file |
| `Sign` | `sign`, at any later time |
| `Tick` | the slot ends; what nodes show at `confirmed` catches up, account by account, or stays behind |
| `Fund` | anybody sends lamports to a vault, initialised or not |

An instruction that returns an error is rolled back by the runtime, so it is no
step here. `log` and `funded` are history variables.

Signing a digest takes a `confirmed` view, and a view follows the bank only
when a slot ends. This is what makes a signature older than every
re-initialisation it could be confused with, and it is the reason that a close
and an initialise in one slot are harmless: they give the old first seed back,
but nobody can have signed it. (`initialize.rs:46-51` hashes slot and time,
nothing random.) The model has such a reinitialisation.

### Transaction: inside an execute

`Broadcast` (a transaction `broadcast` builds: `assertCoSignerScope`,
`findCoSigner`, `buildExecuteInstruction`) or `Submit` (one that any other client
builds, with other accounts, signers, and up to two executes) starts a
transaction; `Verify`, `Cpi` once per sub-instruction, and `Advance` are the
statements of `execute` in their order, on a working copy that is committed at
the end or dropped. A called program is what it may do to lamports. A
sub-instruction that names the Vector program carries the list it would execute,
so that re-entrance has its effect should the check at
`sub_instructions.rs:108` be missing.

### SubInstructions: the wire format

`Encode` is `encodeSubInstructions`; the decoder is a state machine, a step for
each of the six `require!` checks with the reads behind it (`NumIxs`,
`Program`, `NumAccounts`, `Account`, `DataLen`, `Data`), and the comparison at the
end (`End`). A check, the bytes the reads behind it take and the move of the
cursor are written apart, as they are in the code: `Checked` is how far the check
looks, `Taken` the bytes that are sliced or indexed, and each action moves the
cursor by itself. `Abort` is the other outcome: an error if the check refuses, a
panic if it passes and a byte it does not cover is taken. `NeverPanics` excludes
the second, over every cursor the reads before can have left behind. The width of
a byte and the length of a key are parameters.

### Precompile: what was verified is what is compared

Instruction data is counted in cells. The native ed25519 program follows the
offsets of the header to whichever instruction they name, and so does
`verify_ed25519_precompile`; the model lets header and data be anything the
native program accepts, and also points the program at instructions of others
and at instructions whose turn has not come, which nothing has verified.

### ColdSigning: the ceremony

Two machines with two files each. `Construct` overwrites; `Rewrite` replaces
`unsigned-tx.json` by anything that can be made of what is public (any seed ever
stored, any action, a digest of anything), since `sign` is written not to trust
it; `CarryOver` and `CarryBack` copy; `Show` makes all of `sign`'s checks and
shows the action; `Yes` and `No` are the answers, at any later time, files
overwritten meanwhile or not; `Broadcast` makes the checks on the pair; `Land`
is the program's verdict, then or later. The holder of the key says yes only to
actions they want.

### Broadcast: getting it on the chain

Processes that look the needed account up (`Inspect`), simulate and send
(`Send`), and wait (`Confirm`, `Timeout`), over a node that lags (`CatchUp`),
while others create and close that account (`Churn`). A transaction lands late,
fails or is dropped (`Land`, `Expire`); after a timeout or a restart nobody
waits for it, but it may land still (`LandOrphan`). `Start` runs the command
again, with the same pair or another.

### PreInstructions: what goes in front of a signed list

`buildExecuteIxs`, one look-up a step: the loop over deposits (`LookRecord`),
the loop over token transfers (`LookToken`, `LookSource`), the transaction that
comes out (`Assembled`) and its verdict (`Land`), while others create and close
the accounts (`Churn`). The list is what was signed, of one command or two; the
meta beside it is anything.

### Commands, Describe: what a list is and what it is shown as

`Commands` has an operator for each construct command, giving the list it builds
with the flags of each account; addresses are the tuples they are derived
from. `Describe` shows such a list (`BuiltLists`: any command, any of the
arguments given as constants, the canonical SPL Governance or another), as it is
or after up to `MaxEdits` changes to it (`Edit`): an account replaced, a signer
flag flipped, a vote's option, the data or the program exchanged, an instruction
dropped or added. It compares the screen (`DescribeSubInstruction`,
`CoSignerWarning`) with the effect: what the data and the accounts that matter
say (`Matters`), or nothing if a program refuses (`Refused`). Who pays the rent
of a vote record is not counted as an effect: with three changes a file
can name the vault there without a trace on the screen, and moves no more than
that rent. Instructions whose screen leaves an argument out are excluded from
`ScreenTells` by name (`Unsaid`); the run `describe_told` is without that
exception.

### Authority, StakeAccounts, GovernanceTokens: what the vault controls

`Authority` is the Vector account as what it controls sees it: open or closed,
lists signed on the present seed, all of them void once one is accepted.
`StakeAccounts` and `GovernanceTokens` add the stake accounts and the deposited
tokens. The lists are those of `Commands`, signed with any arguments in any
order; the Stake and Governance programs accept or refuse them by their rules
(`Accepts`, `Verdict`), and a refused list is rolled back. `Close` leaves stake
and tokens where they are. `StakeAccounts` counts in `away`, a history variable,
what a close has drained and what signed withdrawals have sent elsewhere:
`ComesHome` says that in the end no stake account is left and that all else, the
rewards and gifts included, is in the vault. `Unwind` and `Leave` are the moments from which the
operators want everything back: from then on they make the file that the state
of an account calls for (`HomewardList`), have it signed and broadcast.

### InitAuthority: the first command

Several operators for one key. `Look`, `Send`, `Confirm` or `Timeout` are the
steps of `initAuthority`; what was looked up is old when the transaction lands
(`Lands`, `LandAdrift`), and the hot wallet may be empty by then (`Spend`).
`InfoMeansInitialized` is about the step that writes `vector-info.json`: the
authority has been initialised by then, except in the one case the code lets
through, the operator's own `initialize` included with an error (see Findings).

### Amounts: what was typed

A decimal is read into the nearest binary number, multiplied and rounded, all as
IEEE 754 prescribes, with P bits instead of 53.

## 3. Runs

All runs finish with `tlc -workers 2`. State counts are distinct states.

| Run | States | Bounds | Question |
|---|---|---|---|
| `vector_program` | 563,948 | 3 deployments (2 clusters, 2 program ids), 4 slots of 2 per second, 2 files, 1 lamport, lists that take it or not | is a seed ever used twice or brought back; is a signature good for one deployment only; does the program implement `OneShot` |
| `vector_escrow` | violation | 1 deployment, 4 slots, 3 files, 2 lamports | does a signature kept in escrow survive other actions |
| `transaction` | 369,042 | 9 lists, 2 seeds with signed lists, up to 2 executes per transaction | order, rollback, re-entrance, signers |
| `algorithms` | 844,861 | see below | does the decoder invert the encoder and never panic; was what is accepted signed; is the amount the one typed; who is paid for |
| `cold_signing` | 43,717 | 1 key, 2 actions (1 wanted), files and signatures for 2 seeds, both used up | is only what was shown and approved executed; is only a matching pair sent |
| `broadcast_live` | 78,201 | 1 process, 1 account, 2 seeds, 2 churns | are retries safe; does broadcasting again succeed |
| `broadcast_confirmed` | violation | 2 processes, 1 churn | does "Confirmed." mean executed |
| `describe` | 878,429 | 45 lists, 11 addresses, 2 changes | does a file that looks right do what is shown |
| `describe_told` | violation | as `describe`, 1 change | is all that is done shown |
| `stake_accounts` | 375,578 | 2 accounts, 2 validators, 3 lamports, 1 reward or gift, 1 close | does the vault keep the stake and get every lamport of it back |
| `governance_tokens` | 136,722 | 2 proposals, 2 tokens, 2 files signed ahead, 1 close | can what was built be sent; do the tokens come back |
| `init_authority` | 15,077 | 2 operators, 1 close, 1 payment that empties the wallet | is a file written for an account that is there; is there one in the end |

`algorithms` runs four machines that share no state side by side: *precompile*
with 3 cells after the header, 2 keys, 2 digests, 4 signatures; *decoder* with
bytes of 5 values, keys of 2 bytes, 6,475 inputs; *amounts* up to 255 base units
with 0 to 3 decimals in numbers of 8 bits; *pre-instructions* with 2 mints, 2
recipients, 2 realms, lists of one or two commands, any meta, any of the accounts
there at the start, and 1 churn.

Why the bounds are enough. *vector_program*: a replay needs a signature, an
acceptance, and a way back to the seed, i.e. a close and a second initialise; 3
ticks have room for initialisations in one slot, in one second, and in
different seconds, each followed by a signature, and 2 files for two actions on
one seed or one on each of two. The second cluster's slot counter is two ahead, so that both
clusters are in equal slots a second apart, and equal seconds in different
slots. *transaction*: two seeds
are enough for an execute that runs on a stale seed in the same transaction; the
lists fail at their first, second or no sub-instruction. *decoder*:
every encoding is tried whole, cut off at each place, a byte longer, and with
each byte set to each value; counts and lengths reach their maxima (4
instructions, 4 accounts, 24 bytes of data). *amounts*: every amount below the
bound of `AsTyped` (2^(P-2)) and three times as many above it; that the bound
scales with P is proved. *pre-instructions*: one churn puts the right account
there between the look-up and the inclusion, which is what it takes for a wrong
one to be paid for. *cold_signing*: mixing a file and a
signature takes two ceremonies on one seed or on two. *broadcast*: one process
has its last transaction in flight and any number of older ones nobody waits
for; two processes are covered by the proof, and in `broadcast_confirmed`.
*describe*: one change can redirect an instruction, a second can undo its trace.
*stake_accounts*: two accounts, so that what is done for one voids the file for
the other; 3 lamports and a gift delegate both; a reward makes a signed
withdrawal wrong. *governance_tokens*: the second proposal keeps tokens locked
when the first vote is relinquished; two files on one seed void each other.
*init_authority*: two operators race, a third adds nothing but another late
transaction, which `LandAdrift` is already.
Two keys in `ColdSigning` are beyond TLC in the time allowed; the proofs cover any
number.

`CHECK_DEADLOCK FALSE` stands where a run really ends: the `Vector*` runs end at
the last slot with all files signed, `algorithms` with an answer, and
`init_authority` when both operators are done. The others are checked for
deadlock.

### Fairness

`broadcast_live` (`Broadcast!Fairness`):

* Weak fairness of `Inspect`, `Send` and of `Confirm` or `Timeout`: a process
  that is not killed goes on, and `confirmTransaction` returns or throws within
  the life of the blockhash. Which of the two is left open.
* Weak fairness of `CatchUp`: a node that is behind reports newer states in the
  end.
* Strong fairness of `Start` with a pair for the current seed: the operator,
  told by an exception or by a look at the account that the action has not
  happened, runs the command again. Nothing in the code retries; without this
  assumption nothing is promised.
* Strong fairness of `Land`: a transaction that is sent again and again is not
  dropped each time.

`init_authority` (`InitAuthority!Fairness`): the same of `Look`, `Send`,
`Confirm` or `Timeout`, `CatchUp` and `Lands`; weak fairness of `Again` (an
operator who misses the account runs the command again) and of `Refill` (the hot
wallet is filled up).

`stake_accounts` and `governance_tokens`: once the operators want the assets
back, weak fairness of `AuthorizeHomeward` (for each stake account: its next file
is made and signed), of `Execute` or `Broadcast` (signed files are broadcast;
that this succeeds is `EverySeedIsUsed`), of `Initialize` (a closed authority
is initialised again: without that the stake stays where it is, as it does on
chain), and of `NextEpoch`. No fairness of what others do.

Churn is bounded: somebody who closes the account before every inclusion can
stop a broadcast for ever, in the model and in the world.

### Findings

* `broadcast_confirmed` (a bug): `broadcast.ts:137` awaits
  `confirmTransaction` and does not look at the `err` of its result. A
  transaction that passes the simulation and is then included with an error
  (its seed was taken, or the account it creates appeared meanwhile) prints
  "Confirmed.". `init_authority.ts:58-66` is alike, and writes
  `vector-info.json` besides. No property rules that out, since the code does it;
  `InfoMeansInitialized` says that it is the only way to a file without an
  authority.
* `describe_told` (a divergence): `README.md:340-342` has the screen show the
  amount of a stake action. Of `stake-create` it shows neither the lamports nor
  the authorities, so two files with different amounts, or different
  withdrawers, look alike; of a vote it shows the kind and not the options.
* `vector_escrow` (a divergence): `README.md:346-348` recommends pre-signed
  files "held in escrow". Any accepted execute replaces the seed
  (`execute.rs:83`), so such a file is void after the next ordinary action of
  the vault, and of several files on one seed one only can be used.

Two limits met on the way. Files for a realm under another SPL Governance program
(`README.md:411-415`) can be built and signed, but `broadcast` refuses their
votes (`broadcast.ts:252`): `FilesAreSent` is about the canonical program. A
list of two transfers to one token account that does not exist would have it
created twice, and fail; no command builds one.

## 4. Proofs

TLC's answers hold for the instances above; these hold for all values of the
constants.

| Theorem | Says |
|---|---|
| `VectorProofs!TypeCorrect` | `TypeOK` |
| `VectorProofs!SeedsDisciplined` | `SeedDiscipline`, the invariant below |
| `VectorProofs!ReplayProtection` | `OnePerSeed` |
| `VectorProofs!NoResurrection` | `NoRevival` |
| `VectorProofs!NothingInvented` | `KnownEntered` |
| `VectorProofs!SeedIsHistory` | `SeedCommitsToHistory` |
| `VectorProofs!OneShotImplemented` | `VectorProgram` implements `OneShot` |
| `TransactionProofs!TransactionTypeCorrect`, `SeedsAreUsedOnce`, `NobodyElsePays`, `HotWalletIsSpared` | `TypeOK`, `OneActionPerSeed`, `VaultOnly`, `HotWalletSpared` |
| `TransactionProofs!ListsAreWhole`, `LayoutIsWalked` | `AllOrNothing`, `BuiltIsWalked` |
| `ColdSigningProofs!CeremonyTypeCorrect`, `WhatYouSeeIsWhatYouSign`, `NoMixedPairs` | `TypeOK`, `ExecutedWasApproved`, `SentWasApproved` |
| `BroadcastProofs!BroadcastTypeCorrect`, `RetryingIsSafe` | `TypeOK`, `RetriesAreSafe` |
| `StakeProofs!StakeTypeCorrect`, `StakeStaysControlled` | `TypeOK`, `Controlled` |
| `CommandProofs!ScreenIsTrue`, `VotesAreWarned` | `ScreenTells`, `WarnedOnlyForVotes` |
| `CommandProofs!TokensKept`, `CanonicalFilesAreSent` | `TypeOK`, `FilesAreSent` (with the canonical program) |
| `AlgorithmProofs!AcceptanceIsSound`, `BuildingIsAccepted` | `AcceptedWasSigned`, `BuiltIsAccepted` |
| `AlgorithmProofs!DecoderNeverPanics`, `BytesAreCounted`, `EncodedIsDecoded` | `NeverPanics`, `EveryByteCounts`, `RoundTrip` |
| `AlgorithmProofs!InfoIsTrue` | `InfoMeansInitialized` |
| `AlgorithmProofs!NothingElsePaid`, `HonestFilesLand` | `PaysForSigned`, `HonestLands` |
| `AlgorithmProofs!AmountIsTyped` | `AsTyped` |

*Replay protection.* `OnePerSeed` is not inductive: it says nothing of what is
still in files. `SeedDiscipline` (`VectorInvariant`) says where each seed that is
stored, reported, signed or spent was born (an initialisation before a given
tick), and how it stands to the seed its account holds: if both are of the same
initialisation, a reported or signed one is not ahead, a spent one is strictly
behind. `Initialize` starts a chain at the current tick, while everything known
is of earlier ones; `Execute` only lengthens a chain; a new log entry is of the
current seed, which is therefore different from all spent ones. That two PDAs
never hold one seed under one program id is in the birth: seeds carry the
authority, and clocks of two clusters never agree. `NoRevival` and the refinement
follow from the same invariant; the refinement also needs `KnownEntered`, that
what is reported was once stored, which is proved with it. For
`SeedCommitsToHistory` the invariant adds that a PDA without an account has
nothing in the log after its last close (`ClosedIsForgotten`): so a new chain
starts with an empty past, and each execute appends one link to the chain and
one entry, later than all others, to the past (`Turn` is its place).

*Inside a transaction.* The state is a committed ledger and a working copy that
replaces it only when the whole transaction succeeds. The invariant says the
same of both (`BookOK`): the seeds in the log are different and all before the
one stored, and every sub-instruction of every entry was paid for by the vault
or the co-signer, and by the hot wallet only into a governance instruction
(`Done`). Of the walk it says besides (`WalkOK`) that the cursor is inside its list,
that the seed it saw is still the stored one, and that everything before the
cursor is `Done`: when the list is through, the entry that is logged is too.
`OneActionPerSeed`, `VaultOnly` and `HotWalletSpared` are read off the ledger.
`AllOrNothing` needs to know what is not committed yet (`Balances`): the working
balances are the committed lists and the current one up to the cursor, carried
out on the balances at the start; a fold over one more sub-instruction is one
more CPI. `BuiltIsWalked` needs the same of the accounts (`Built`): the cursor
stands behind the accounts of the sub-instructions carried out, and the accounts
of a list begin with those of each of its beginnings.

*The ceremony.* The invariant is that the digest about to be signed is that of
the action on screen, and that every signature in any file is over an approved
digest.

*Broadcasting.* The n-th execution was on the n-th seed.

*Stake.* `Controlled` is not inductive without saying what is in files: the
invariant adds that every signed list is one of those the four commands build.
For each of these the whole list is shown to keep every account sound, carried
out or undone, whatever the account had become since the signature; the
account that is created and left without authorities exists only between two
instructions of one list.

*The screen.* Two instructions with one line have one effect, if both are what
they can be. The invariant (`Shown`) is that the screen is that of the file, that
an untouched file is a command's, and that in a changed one every instruction is
`Sound`: what no change can take from it (the accounts that matter are there,
data of one of the forms a command writes). An instruction of a command is `Good`
besides: no program refuses it and only a vote has a co-signer. `SameEffect`
takes the programs one by one: where the line omits an account, the program
derives it from those shown or refuses; where the line is a raw dump, nothing is
omitted; where it omits data, there are none, or the instruction is `Unsaid`. The
warning follows from what commands build, the signers of each list counted
(`BuiltGood`).

*Governing tokens.* Each signed list is one instruction of one of four forms;
`ExtraSigners` of it is nobody, or the payer for a vote. So `InScope` holds for
each, and no signer is missing when it is carried out; the record is created in
front of a deposit or is there.

*Precompile.* If all three references are to the instruction itself and the
message is one digest long, the cells the native program verified are those the
program compares. Conversely the client's header has every reference where the
program looks, and one digest of data.

*Decoder.* A check that passes covers the reads behind it (`ReadFits`), provided
that the cursor is a position within the data and the length read a natural number
(`WithinData`); both are so because no read moves the cursor further than its
check has looked. Hence `Abort` is always an error. That the bytes of an accepted list are all accounted for is read off an invariant on the way there
(`Reread`): what has been decoded so far, encoded again, is what stands at the
beginning of the data, but for spare bits of flags; the cursor is behind it, and
the counters say what is left. `RoundTrip` adds that from an encoded list its
beginning has been decoded (`Replayed`): what stands at the cursor is then the
encoding of the next instruction, and of its next account, and no read lacks
room.

*init-authority.* Whatever a node or a transaction has seen of the account was
there once (`SeenWasThere`). A file is written by `Look`, on what the node shows,
and by `Confirm`, whose transaction went through or is the exception (`InfoStep`).

*In front of the list.* What is created is always an account the list gives to
(`CreatesSigned`), since it is compared with the list or derived from it. A file
that a command built has one instruction and a meta that fits; `OnItsWay` says
for each loop what has been put in front by then, so that the precompile
instruction is where the execute looks for it.

*Amounts.* The numbers read and multiplied are each off by one part in 2^P at most
(`FloatError`, from `NearestError` and the P bits before the binary point): over a
common denominator, t base units become a number within t (2/2^P + 1/4^P), which
is less than a half for t < 2^(P-2) (`TwoErrors`), and `Math.round` gives t back.
`Power` is a recursive function since the provers have no facts about `^`. That
the exponents needed exist below `MaxExponent` is what `AmountsAssumption` says of
that bound.

*Folds.* Several of these compare a state with `FlattenSeq` or `FoldLeft` over
data of any length. `Induction` gives them what they need: the principle is stated
with a set in place of a predicate (a set of naturals with 0 and with the
successor of each member is all of them), which the provers can instantiate; it
follows from the library's theorem that inclusion of finite sets is well-founded.
From it come the functions that the library's definitions choose, and what
`FlattenSeq` and `FoldLeft` do with one element more.

Assumptions, all of them stated as `ASSUME` in the modules and evaluated by TLC:
`ClockAssumption` (slots of a cluster increase; two clusters never show the
same slot and unix time), `DeploymentAssumption`, `KeysAssumption` (the vault is
no wallet, and a list is a sequence of instructions of at least two accounts, as
every instruction modelled has), `StakeAssumption` (the vault is neither the
payer nor the outside destination; names are finite), bounds that are natural
numbers, and the types of the constants. `ClockAssumption` is about the world and not the
code: `initialize.rs:46-51` puts no cluster identity into the seed, so an
authority with the same seed on two clusters could have a signature used on
both; that their slots and seconds would have to coincide exactly is what
excludes it. Behind the models: SHA-256 does not collide and ed25519 signatures
are not made without the key.

Of the constants of the parts proved last: `ReceivedAssumption` (the client
encodes a list of instructions within the limits of the format, otherwise it
throws; what arrives is any bytes), `DescribeAssumption` (the five programs the
decoder tells apart are different, the payer is not the vault, votes are those
`cast-vote` takes), `PreAssumption` (the default key is nobody's, and the vault is
no recipient), `GovernanceAssumption`, `AmountsAssumption` (at least two
significant bits; the bound on exponents is large enough). `CanonicalFilesAreSent` has
`Program = Governance` as a hypothesis: with another program id the property is
false (see Findings).

Only model-checked: liveness (`EverySeedIsUsed`, `ComesHome`, `TokensComeHome`,
`EventuallyRecorded`), which is out of the prover's reach. Every other property
of a passing run is proved.

## 5. Not modelled

* Token symbols (`token_list.ts`): a look-up for display; what is signed does not
  depend on it.
* Option parsing and dispatch (`index.ts`): no state. The modules take the
  options as parsed.
* Tests and smoke scripts: they exercise the program and are read as its
  reference. They are a good half of the lines outside `programs/` and
  `commands/`.
* Deployment: procedures and build scripts.
* Rent (but for the reserve of a stake account), compute limits and transaction
  size.
* Doubles at the limits of their exponents: `Amounts` has numbers of P bits and
  any exponent. TLC runs with P = 8; 53 is a case of the theorem.
* The inside of SPL Token, the Stake program and SPL Governance. They are not in
  the repository; `Commands`, `StakeAccounts` and `GovernanceTokens` have what the
  commands rely on, marked external in the map.

## 6. Plan

What the plan had is done: the program and its composition over clusters, the
inside of a transaction, the ceremony, broadcasting, `init-authority`, stake and
governance under the vault's authority, what the screen shows, and a proof of
every safety property. What could be added:

1. `ColdSigning` and `Broadcast` as refinements of `OneShot`, proved like that
   of `VectorProgram`: an epoch is a seed number, a grant a signature in a file.
2. Two keys in one ceremony checked by TLC, with a symmetry reduction that the
   file names allow.
