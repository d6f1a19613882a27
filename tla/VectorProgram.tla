---------------------------- MODULE VectorProgram ----------------------------
(***************************************************************************)
(* The Vector program on every cluster it is deployed to, together with    *)
(* the environment it relies on: constructors that read the seed at        *)
(* "confirmed" commitment, and cold wallets that sign what they are shown. *)
(*                                                                         *)
(* A transaction of one instruction is one step here; an instruction that  *)
(* returns an error is rolled back by the runtime and is no step at all.   *)
(* The module Transaction opens an execute up into its CPIs.               *)
(***************************************************************************)
EXTENDS HashChain, Integers, FiniteSets

CONSTANTS
    Cluster,        \* devnet, mainnet-beta, ...
    Deployment,     \* the programs deployed, and where
    Clock,          \* what the Clock sysvar of a cluster shows at each tick
    NoAccount,      \* the state PDA does not exist
    MaxTick,        \* bound: ticks of the run
    MaxFiles,       \* bound: unsigned files produced
    MaxFunding      \* bound: lamports the vaults are ever sent, together

(* Where a deployment's PDAs of one authority live. *)
Pda ==
    {[cluster |-> d.cluster, program |-> d.program, authority |-> a] :
        d \in Deployment, a \in Authority}

ASSUME BoundsAssumption ==
    MaxTick \in Nat /\ MaxFiles \in Nat /\ MaxFunding \in Nat

(* A program id names one program per cluster; sub-instruction lists are   *)
(* reduced to the lamports each sub-instruction takes out of the vault.    *)
ASSUME DeploymentAssumption ==
    /\ Deployment \subseteq [cluster : Cluster, program : Program]
    /\ SubIxData \subseteq Seq(Nat)
    /\ NoAccount \notin Seed

(* Slots of a cluster only go up, and no two clusters ever show the same   *)
(* (slot, unix_timestamp) pair: their slot counters started at different   *)
(* times, far more than a second's worth of slots apart.                   *)
ASSUME ClockAssumption ==
    /\ Clock \in [Cluster -> [0..MaxTick -> [slot : Nat, unix : Nat]]]
    /\ \A c \in Cluster : \A t, u \in 0..MaxTick :
            t < u => Clock[c][t].slot < Clock[c][u].slot
    /\ \A c, e \in Cluster : \A t, u \in 0..MaxTick :
            c # e => Clock[c][t] # Clock[e][u]

VARIABLES
    now,            \* ticks so far: every cluster is in the slot Clock gives
    vector,         \* the seed in each state PDA, or NoAccount
    vault,          \* lamports of each vault PDA
    funded,         \* lamports the vault PDAs were ever sent, together
    confirmed,      \* the state PDAs as RPC nodes show them at "confirmed"
    files,          \* unsigned-tx.json files produced
    signatures,     \* signatures of cold wallets over digests
    log             \* history: the actions accepted, in order

vars == <<now, vector, vault, funded, confirmed, files, signatures, log>>

(* What is in an unsigned file, reduced to what it commits to. *)
File == [pda : Pda, digest : Digest]

(* ed25519: the key that signed, and the 32-byte message. *)
Signature == [key : Authority, digest : Digest]

(* One accepted execute or close. *)
Entry == [pda : Pda, digest : Digest]

Init ==
    /\ now = 0
    /\ vector = [p \in Pda |-> NoAccount]
    /\ vault = [p \in Pda |-> 0]
    /\ funded = 0
    /\ confirmed = [p \in Pda |-> NoAccount]
    /\ files = {}
    /\ signatures = {}
    /\ log = <<>>

-----------------------------------------------------------------------------
(* The program's instructions.                                             *)

(* Mutant of Initialize: an existing account is initialised again. *)
InitializeIfNeeded(p) ==
    /\ vector' = [vector EXCEPT ![p] = InitSeed(p.authority, Clock[p.cluster][now])]
    /\ UNCHANGED <<now, vault, funded, confirmed, files, signatures, log>>

(* initialize: anyone may pay for it; Anchor's `init` refuses a PDA that   *)
(* exists.  The vault keeps whatever it held.                              *)
Initialize(p) ==
    /\ vector[p] = NoAccount
    /\ vector' = [vector EXCEPT ![p] = InitSeed(p.authority, Clock[p.cluster][now])]
    /\ UNCHANGED <<now, vault, funded, confirmed, files, signatures, log>>

(* Mutant of Balances: a sub-instruction may overdraw the vault. *)
BalancesOverdrawn(data, balance) ==
    {b \in [0..Len(data) -> (-2)..balance] :
        /\ b[0] = balance
        /\ \A i \in 1..Len(data) : b[i - 1] = b[i] + data[i]}

(* The vault's balance before and after each sub-instruction of a list     *)
(* that runs to its end: no balance may go below zero.                     *)
Balances(data, balance) ==
    {b \in [0..Len(data) -> 0..balance] :
        /\ b[0] = balance
        /\ \A i \in 1..Len(data) : b[i - 1] = b[i] + data[i]}

(* The precompile instruction before ours carries (authority, digest). *)
Authorized(p, digest) == [key |-> p.authority, digest |-> digest] \in signatures

(* execute: digest from the stored seed, signature, CPIs, new seed. *)
Execute(p, data) ==
    /\ vector[p] # NoAccount
    /\ LET digest == DigestExecute(vector[p], p.program, data)
       IN  /\ Authorized(p, digest)
           /\ \E b \in Balances(data, vault[p]) :
                 vault' = [vault EXCEPT ![p] = b[Len(data)]]
           /\ vector' = [vector EXCEPT ![p] = AdvanceSeed(@, digest)]
           /\ log' = Append(log, [pda |-> p, digest |-> digest])
    /\ UNCHANGED <<now, funded, confirmed, files, signatures>>

(* close: digest binds close_to, the vault is drained, Anchor deletes the  *)
(* state PDA.                                                              *)
Close(p, to) ==
    /\ vector[p] # NoAccount
    /\ LET digest == DigestClose(vector[p], p.program, to)
       IN  /\ Authorized(p, digest)
           /\ vault' = [vault EXCEPT ![p] = 0]
           /\ vector' = [vector EXCEPT ![p] = NoAccount]
           /\ log' = Append(log, [pda |-> p, digest |-> digest])
    /\ UNCHANGED <<now, funded, confirmed, files, signatures>>

-----------------------------------------------------------------------------
(* The environment.                                                        *)

(* Anyone sends a lamport to a vault PDA, initialised or not. *)
Fund(p) ==
    /\ funded < MaxFunding
    /\ vault' = [vault EXCEPT ![p] = @ + 1]
    /\ funded' = funded + 1
    /\ UNCHANGED <<now, vector, confirmed, files, signatures, log>>

(* The slot ends.  What RPC nodes report at "confirmed" catches up with    *)
(* the bank of the slot that ended, or stays behind, PDA by PDA.           *)
Tick ==
    /\ now < MaxTick
    /\ now' = now + 1
    /\ \E seen \in SUBSET Pda :
          confirmed' = [p \in Pda |-> IF p \in seen THEN vector[p] ELSE confirmed[p]]
    /\ UNCHANGED <<vector, vault, funded, files, signatures, log>>

(* A construct command: fetchVectorAccount at "confirmed", digest, file. *)
Produce(p, digest) ==
    /\ Cardinality(files) < MaxFiles
    /\ files' = files \union {[pda |-> p, digest |-> digest]}
    /\ UNCHANGED <<now, vector, vault, funded, confirmed, signatures, log>>

ConstructExecute(p, data) ==
    /\ confirmed[p] # NoAccount
    /\ Produce(p, DigestExecute(confirmed[p], p.program, data))

ConstructClose(p, to) ==
    /\ confirmed[p] # NoAccount
    /\ Produce(p, DigestClose(confirmed[p], p.program, to))

(* sign: at any later time, with no view of the chain. *)
Sign(f) ==
    /\ signatures' = signatures \union {[key |-> f.pda.authority, digest |-> f.digest]}
    /\ UNCHANGED <<now, vector, vault, funded, confirmed, files, log>>

-----------------------------------------------------------------------------
Next ==
    \/ Tick
    \/ \E p \in Pda : Initialize(p) \/ Fund(p)
    \/ \E p \in Pda, data \in SubIxData : Execute(p, data) \/ ConstructExecute(p, data)
    \/ \E p \in Pda, to \in Address : Close(p, to) \/ ConstructClose(p, to)
    \/ \E f \in files : Sign(f)

Spec == Init /\ [][Next]_vars

-----------------------------------------------------------------------------
(* Types: every seed anywhere is one the program could have stored. *)
TypeOK ==
    /\ now \in 0..MaxTick
    /\ vector \in [Pda -> Seed \union {NoAccount}]
    /\ vault \in [Pda -> Nat]
    /\ funded \in Nat
    /\ confirmed \in [Pda -> Seed \union {NoAccount}]
    /\ files \subseteq File
    /\ signatures \subseteq Signature
    /\ log \in Seq(Entry)

(* What a seed and a program id together allow: at most one accepted       *)
(* action, ever.  Over closes and re-initialisations, over deployments and *)
(* clusters, an authorisation cannot be used twice, and of two             *)
(* authorisations given on the same seed only one can be.                  *)
(* (execute.rs:82 "replay protection", initialize.rs:44, README 178-182.)  *)
OnePerSeed ==
    \A i, j \in 1..Len(log) :
        /\ log[i].digest.seed = log[j].digest.seed
        /\ log[i].digest.program = log[j].digest.program
        => i = j

(* Some deployment would accept this signature now. *)
Usable(g) ==
    \E p \in Pda :
        /\ vector[p] = g.digest.seed
        /\ p.program = g.digest.program
        /\ p.authority = g.key

(* A signature that no deployment accepts now is dead for good: no later   *)
(* execute, close, re-initialisation or clock value brings back the seed   *)
(* it was made for.  It covers signatures that were never used as well.    *)
(* (initialize.rs:44-45 "cannot resurrect old pre-signed digests".)        *)
NoRevival ==
    [][\A g \in signatures : ~Usable(g) => ~Usable(g)']_vars

(* A signature kept in escrow stays usable until it is used itself.        *)
(* (README.md:346-348: pre-signed files are "useful for break-glass        *)
(* 'deactivate everything' procedures held in escrow".)                    *)
EscrowHolds ==
    [][\A g \in signatures : Usable(g) =>
          \/ Usable(g)'
          \/ \E i \in 1..Len(log') : log'[i].digest = g.digest]_vars

(* Where in the log the executes of p stand that were accepted since its   *)
(* state PDA was last created: no close of p follows them.                 *)
Past(p) ==
    {i \in 1..Len(log) :
        /\ log[i].pda = p
        /\ \A j \in i..Len(log) : log[j].pda = p => log[j].digest.action # ACTION_CLOSE}

(* The how-many-th of them the i-th entry of the log is. *)
Turn(p, i) == Cardinality({j \in Past(p) : j <= i})

(* The stored seed commits to the whole history of its account: it is the  *)
(* hash chain of exactly the executes accepted since initialisation, in    *)
(* order.  So a signer who is shown a seed authorises the next action      *)
(* after that history and after no other.  (execute.rs:83)                 *)
SeedCommitsToHistory ==
    \A p \in Pda :
        vector[p] # NoAccount =>
            /\ Len(vector[p].chain) = Cardinality(Past(p))
            /\ \A i \in Past(p) :
                  vector[p].chain[Turn(p, i)] =
                      [program |-> p.program, data |-> log[i].digest.body]

=============================================================================
