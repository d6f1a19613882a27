--------------------------- MODULE VectorInvariant ---------------------------
(***************************************************************************)
(* The inductive invariant behind replay protection: where every seed that *)
(* is stored, reported, signed or spent came from, and how it stands to    *)
(* the seed its account holds now.                                         *)
(***************************************************************************)
EXTENDS VectorOneShot

(* The chain of s was started by an initialize of p before tick n. *)
BornBefore(p, s, n) ==
    /\ s.authority = p.authority
    /\ \E t \in 0..MaxTick :
          /\ t < n
          /\ s.slot = Clock[p.cluster][t].slot
          /\ s.unix = Clock[p.cluster][t].unix

(* If p is still on the chain of s, it is at s or further on. *)
NotAhead(p, s) ==
    vector[p] # NoAccount /\ SameOrigin(s, vector[p]) =>
        Len(s.chain) <= Len(vector[p].chain)

(* If p is still on the chain of s, it is further on. *)
Superseded(p, s) ==
    vector[p] # NoAccount /\ SameOrigin(s, vector[p]) =>
        Len(s.chain) < Len(vector[p].chain)

LiveSeeds ==
    \A p \in Pda : vector[p] # NoAccount => BornBefore(p, vector[p], now + 1)

ConfirmedSeeds ==
    \A p \in Pda :
        confirmed[p] # NoAccount =>
            BornBefore(p, confirmed[p], now) /\ NotAhead(p, confirmed[p])

FileSeeds ==
    \A f \in files :
        /\ f.digest.program = f.pda.program
        /\ BornBefore(f.pda, f.digest.seed, now)
        /\ NotAhead(f.pda, f.digest.seed)

SignedFiles ==
    \A g \in signatures :
        \E f \in files : g = [key |-> f.pda.authority, digest |-> f.digest]

SpentSeeds ==
    \A i \in 1..Len(log) :
        /\ log[i].digest.program = log[i].pda.program
        /\ BornBefore(log[i].pda, log[i].digest.seed, now)
        /\ Superseded(log[i].pda, log[i].digest.seed)

(* No seed that was signed can be one a later initialize or execute will   *)
(* store: signing needs a "confirmed" view, so it happens in a later slot  *)
(* than the initialize, and an execute only ever lengthens the chain.      *)
SeedDiscipline ==
    /\ LiveSeeds
    /\ ConfirmedSeeds
    /\ FileSeeds
    /\ SignedFiles
    /\ SpentSeeds

(* Nothing is reported or put in a file that no PDA ever held. *)
KnownEntered ==
    /\ \A p \in Pda :
          confirmed[p] # NoAccount => <<p, EpochOf(p, confirmed[p])>> \in Entered
    /\ \A f \in files : <<f.pda, EpochOf(f.pda, f.digest.seed)>> \in Entered

(* A closed account has no executes since it was last created. *)
ClosedIsForgotten == \A p \in Pda : vector[p] = NoAccount => Past(p) = {}

Inv == TypeOK /\ SeedDiscipline /\ OnePerSeed
=============================================================================
