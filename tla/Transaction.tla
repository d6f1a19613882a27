----------------------------- MODULE Transaction -----------------------------
(***************************************************************************)
(* One execute at a time, opened up: the transaction that carries it is    *)
(* put together by broadcast or by another client, the program verifies    *)
(* the signature, walks remaining_accounts and makes one CPI after the     *)
(* other with the vault's signature, and stores the new seed at the end.   *)
(* Whatever fails on the way undoes the transaction.                       *)
(*                                                                         *)
(* Seeds are epochs, as VectorProgram implements OneShot.  A program that  *)
(* a CPI calls is what it may do to lamports: take one from the first      *)
(* account, which has to sign, for the second.                             *)
(***************************************************************************)
EXTENDS Integers, FiniteSets, SequencesExt

CONSTANTS
    Key,            \* accounts
    Vault,          \* the vault PDA
    Payer,          \* the hot wallet that pays the fee
    Wallet,         \* accounts that can sign a transaction
    System,         \* the System program
    Governance,     \* the canonical SPL Governance program
    Vector,         \* the Vector program itself
    NoKey,          \* co_signer omitted
    Lists,          \* decoded sub-instruction lists
    Signed,         \* the lists the cold wallet signed on each seed
    Lamports,       \* what each account starts with
    MaxSeed         \* bound: seeds of the run

Program == {System, Governance, Vector}

Account == [key : Key, signer : BOOLEAN]

(* What runs re-entered if a sub-instruction called the Vector program: an *)
(* execute of the list it carries.                                         *)
SubIx == [program : Program, accounts : Seq(Account), inner : Seq(Lists)]

ASSUME KeysAssumption ==
    /\ Vault \in Key /\ Wallet \subseteq Key \ {Vault}
    /\ Payer \in Wallet
    /\ NoKey \notin Key
    /\ \A list \in Lists : list \in Seq(SubIx) /\ \A i \in 1..Len(list) : Len(list[i].accounts) >= 2
    /\ MaxSeed \in Nat
    /\ Signed \in [0..MaxSeed -> SUBSET Lists]
    /\ Lamports \in [Key -> Nat]

(* Nothing is signed for a seed beyond the bound. *)
SignedOn(seed) == IF seed \in DOMAIN Signed THEN Signed[seed] ELSE {}

VARIABLES
    ledger,         \* what is committed: seed, balances, executes accepted
    work,           \* the same as the running transaction has it
    tx,             \* the transaction running, or NoTx
    at,             \* instruction, sub-instruction, cursor, and the seed read
    refused         \* why the last transaction was undone

vars == <<ledger, work, tx, at, refused>>

NoTx == [built |-> FALSE, signers |-> {}, ixs |-> <<>>]

Nowhere == [ix |-> 0, sub |-> 0, cursor |-> 0, seed |-> 0]

Init ==
    /\ ledger = [seed |-> 0, balance |-> Lamports, log |-> <<>>]
    /\ work = ledger
    /\ tx = NoTx
    /\ at = Nowhere
    /\ refused = [why |-> "nothing", built |-> FALSE]

-----------------------------------------------------------------------------
(* Clients.                                                                *)

KeysOf(sub) == [i \in 1..Len(sub.accounts) |-> sub.accounts[i].key]

(* remaining_accounts: of each sub-instruction the program and its         *)
(* accounts.                                                               *)
Remaining(list) ==
    FlattenSeq([i \in 1..Len(list) |-> <<list[i].program>> \o KeysOf(list[i])])

(* The signers a list asks for besides the vault. *)
ExtraSigners(list) ==
    (UNION {{a.key : a \in {b \in ToSet(list[i].accounts) : b.signer}} : i \in 1..Len(list)})
        \ {Vault}

(* findCoSigner: there may be one, or none. *)
HasCoSigner(list) == Cardinality(ExtraSigners(list)) <= 1

CoSigner(list) ==
    IF ExtraSigners(list) = {} THEN NoKey ELSE CHOOSE k \in ExtraSigners(list) : TRUE

(* Mutant of InScope: any program may have the fee payer sign. *)
InScopeAnyProgram(list) == ExtraSigners(list) \subseteq {Payer}

(* assertCoSignerScope: nobody but the fee payer co-signs, and only for    *)
(* SPL Governance.                                                         *)
InScope(list) ==
    /\ ExtraSigners(list) \subseteq {Payer}
    /\ \A i \in 1..Len(list) :
          ExtraSigners(<<list[i]>>) # {} => list[i].program = Governance

(* Mutant of BuildExecute: the co-signer slot is always left empty. *)
BuildExecuteAlone(list) ==
    [list |-> list, remaining |-> Remaining(list), coSigner |-> NoKey]

BuildExecute(list) ==
    [list |-> list, remaining |-> Remaining(list), coSigner |-> CoSigner(list)]

Run(t) ==
    /\ tx = NoTx
    /\ tx' = t
    /\ work' = ledger
    /\ at' = [Nowhere EXCEPT !.ix = 1]
    /\ UNCHANGED <<ledger, refused>>

(* broadcast: one precompile, one execute, signed by the payer. *)
Broadcast(list) ==
    /\ InScope(list)
    /\ HasCoSigner(list)
    /\ Run([built |-> TRUE, signers |-> {Payer}, ixs |-> <<BuildExecute(list)>>])

(* Another client: other accounts, other signers, several executes. *)
OtherRemaining(list) ==
    {Remaining(list), Front(Remaining(list)), Append(Remaining(list), Payer),
     Reverse(Remaining(list))}

OtherExecute(signers) ==
    UNION {[list : {list}, remaining : OtherRemaining(list), coSigner : signers \union {NoKey}] :
              list \in Lists}

(* Anchor's Signer: a co-signer has signed the transaction. *)
Submit(signers, ixs) ==
    /\ Payer \in signers
    /\ \A i \in 1..Len(ixs) : ixs[i].coSigner \in signers \union {NoKey}
    /\ Run([built |-> FALSE, signers |-> signers, ixs |-> ixs])

-----------------------------------------------------------------------------
(* The runtime.                                                            *)

Abort(why) ==
    /\ tx' = NoTx
    /\ work' = ledger
    /\ at' = Nowhere
    /\ refused' = [why |-> why, built |-> tx.built]
    /\ UNCHANGED ledger

Moved(balance, sub) ==
    [balance EXCEPT ![sub.accounts[1].key] = @ - 1, ![sub.accounts[2].key] = @ + 1]

Ran(balance, list) == FoldLeft(Moved, balance, list)

(* Mutant of Succeeds: an account may be overdrawn. *)
SucceedsOverdrawn(sub) ==
    /\ \A a \in ToSet(sub.accounts) : a.signer => a.key \in tx.signers \union {Vault}
    /\ sub.accounts[1].signer

(* A called program fails if the account it takes from has not signed or   *)
(* has nothing, and the runtime does not let a caller pass on a signature  *)
(* it does not have.  Re-entered, the Vector program would verify the      *)
(* signature of the list carried against the seed still stored.            *)
Succeeds(sub) ==
    /\ \A a \in ToSet(sub.accounts) : a.signer => a.key \in tx.signers \union {Vault}
    /\ IF sub.program = Vector
       THEN sub.inner[1] \in SignedOn(work.seed)
       ELSE sub.accounts[1].signer /\ work.balance[sub.accounts[1].key] > 0

Effect(sub) ==
    IF sub.program = Vector
    THEN [work EXCEPT
            !.balance = Ran(@, sub.inner[1]),
            !.log = Append(@, [seed |-> work.seed, list |-> sub.inner[1],
                               coSigner |-> NoKey, built |-> tx.built])]
    ELSE [work EXCEPT !.balance = Moved(@, sub)]

-----------------------------------------------------------------------------
(* execute.                                                                *)

Ix == tx.ixs[at.ix]

Sub == Ix.list[at.sub]

(* The seed is read and the signature over the digest verified. *)
Verify ==
    /\ tx # NoTx
    /\ at.sub = 0
    /\ IF Ix.list \in SignedOn(work.seed)
       THEN /\ at' = [at EXCEPT !.sub = 1, !.cursor = 0, !.seed = work.seed]
            /\ UNCHANGED <<ledger, work, tx, refused>>
       ELSE Abort("signature")

(* Mutant of SelfCpi: the Vector program may be called. *)
SelfCpiAllowed(sub) == FALSE

SelfCpi(sub) == sub.program = Vector

(* The accounts walked are the ones the sub-instruction names. *)
Walked(sub) ==
    LET names == <<sub.program>> \o KeysOf(sub)
    IN  /\ at.cursor + Len(names) <= Len(Ix.remaining)
        /\ \A i \in 1..Len(names) : Ix.remaining[at.cursor + i] = names[i]

(* Mutant of SignersAllowed: whoever signed the transaction may sign. *)
SignersAllowedAny(sub) == TRUE

(* Only the vault and the co-signer sign inside a sub-instruction. *)
SignersAllowed(sub) ==
    \A a \in ToSet(sub.accounts) : a.signer => a.key \in {Vault, Ix.coSigner}

(* Mutant of Cpi: an error of the called program is logged and dropped. *)
CpiErrorsDropped ==
    /\ tx # NoTx
    /\ at.sub \in 1..Len(Ix.list)
    /\ IF SelfCpi(Sub) THEN Abort("self")
       ELSE IF ~Walked(Sub) \/ ~SignersAllowed(Sub) THEN Abort("accounts")
       ELSE /\ work' = IF Succeeds(Sub) THEN Effect(Sub) ELSE work
            /\ at' = [at EXCEPT !.sub = @ + 1, !.cursor = @ + 1 + Len(Sub.accounts)]
            /\ UNCHANGED <<ledger, tx, refused>>

(* The next sub-instruction is checked and called. *)
Cpi ==
    /\ tx # NoTx
    /\ at.sub \in 1..Len(Ix.list)
    /\ IF SelfCpi(Sub) THEN Abort("self")
       ELSE IF ~Walked(Sub) \/ ~SignersAllowed(Sub) THEN Abort("accounts")
       ELSE IF ~Succeeds(Sub) THEN Abort("cpi")
       ELSE /\ work' = Effect(Sub)
            /\ at' = [at EXCEPT !.sub = @ + 1, !.cursor = @ + 1 + Len(Sub.accounts)]
            /\ UNCHANGED <<ledger, tx, refused>>

(* All accounts walked, the seed that follows the one read is stored, and  *)
(* after the last instruction the transaction is committed.                *)
Advance ==
    /\ tx # NoTx
    /\ at.sub = Len(Ix.list) + 1
    /\ IF at.cursor # Len(Ix.remaining) THEN Abort("accounts")
       ELSE LET done == [work EXCEPT
                           !.seed = at.seed + 1,
                           !.log = Append(@, [seed |-> at.seed, list |-> Ix.list,
                                              coSigner |-> Ix.coSigner, built |-> tx.built])]
            IN  IF at.ix < Len(tx.ixs)
                THEN /\ work' = done
                     /\ at' = [Nowhere EXCEPT !.ix = at.ix + 1]
                     /\ UNCHANGED <<ledger, tx, refused>>
                ELSE /\ ledger' = done
                     /\ work' = done
                     /\ tx' = NoTx
                     /\ at' = Nowhere
                     /\ UNCHANGED refused

Next ==
    \/ \E list \in Lists : Broadcast(list)
    \/ \E signers \in SUBSET Wallet :
          \/ \E ix \in OtherExecute(signers) : Submit(signers, <<ix>>)
          \/ \E ix1, ix2 \in {BuildExecute(list) : list \in {l \in Lists : HasCoSigner(l)}} :
                Submit(signers, <<ix1, ix2>>)
    \/ Verify
    \/ Cpi
    \/ Advance

Spec == Init /\ [][Next]_vars

-----------------------------------------------------------------------------
(* Types, and what a transaction has done stays in it until it is whole:   *)
(* between transactions there is nothing but what is committed.            *)
TypeOK ==
    /\ ledger.seed \in 0..MaxSeed + 1
    /\ work.seed \in 0..MaxSeed + 1
    /\ ledger.balance \in [Key -> Nat]
    /\ work.balance \in [Key -> Nat]
    /\ tx = NoTx => work = ledger /\ at = Nowhere
    /\ tx # NoTx => at.ix \in 1..Len(tx.ixs) /\ at.sub \in 0..Len(Ix.list) + 1

(* No two actions are accepted on one seed, although an execute stores the *)
(* next seed only after its last CPI, and computes it from the seed it     *)
(* read before the first.                                                  *)
(* (sub_instructions.rs:103-108, execute.rs:49, 82-83.)                    *)
OneActionPerSeed ==
    \A i, j \in 1..Len(ledger.log) :
        ledger.log[i].seed = ledger.log[j].seed => i = j

(* What is committed is all of every list accepted, each sub-instruction   *)
(* once and in order, and nothing of any other.                            *)
(* (sub_instructions.rs:162-168.)                                          *)
AllOrNothing ==
    ledger.balance =
        Ran(Lamports, FlattenSeq([i \in 1..Len(ledger.log) |-> ledger.log[i].list]))

(* Without a co-signer an execute takes from the vault alone, and with one *)
(* from nobody else, whoever signed the transaction.                       *)
(* (execute.rs:23-37 "those keep the strict vault-only rule".)             *)
VaultOnly ==
    \A i \in 1..Len(ledger.log) :
        LET e == ledger.log[i]
        IN  \A j \in 1..Len(e.list) : e.list[j].accounts[1].key \in {Vault, e.coSigner}

(* What broadcast sends takes nothing from the hot wallet but through SPL  *)
(* Governance, whatever the cold wallet signed.                            *)
(* (broadcast.ts:223-231.)                                                 *)
HotWalletSpared ==
    \A i \in 1..Len(ledger.log) :
        LET e == ledger.log[i]
        IN  \A j \in 1..Len(e.list) :
                e.built /\ e.list[j].accounts[1].key = Payer
                    => e.list[j].program = Governance

(* The client's layout is the program's walk: what broadcast builds is     *)
(* never refused for its accounts or its signers.                          *)
(* (vector.ts:261-278 "matches Rust execute_sub_instructions walk".)       *)
BuiltIsWalked == refused.built => refused.why # "accounts"
=============================================================================
