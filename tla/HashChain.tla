------------------------------ MODULE HashChain ------------------------------
(***************************************************************************)
(* The values the Vector program and the CLI hash, with SHA-256 taken as   *)
(* collision-free: a hash is the record of what went into it, flattened.   *)
(*                                                                         *)
(* A seed is sha256 of the initialisation inputs (authority, slot, unix    *)
(* time), re-hashed once with every digest executed since.  A digest adds  *)
(* to the seed it starts from only the action tag, the program id and the  *)
(* body, and execute always uses the same tag, so what a re-hash adds to a *)
(* seed is the pair (program id, sub_ix_data): the chain below.            *)
(***************************************************************************)
EXTENDS Naturals, Sequences

CONSTANTS
    Authority,      \* cold public keys
    Program,        \* ids under which the Vector program is deployed
    SubIxData,      \* encoded sub-instruction lists
    Address         \* destinations a close may name

ACTION_EXECUTE == 0
ACTION_CLOSE   == 1

Link == [program : Program, data : SubIxData]

Seed == [authority : Authority, slot : Nat, unix : Nat, chain : Seq(Link)]

Digest ==
    [seed : Seed, action : {ACTION_EXECUTE, ACTION_CLOSE},
     program : Program, body : SubIxData \union Address]

(* Mutant of InitSeed: only the second of the clock goes in, not the slot. *)
InitSeedNoSlot(a, clock) ==
    [authority |-> a, slot |-> 0, unix |-> clock.unix, chain |-> <<>>]

(* sha256("vector-init" || authority || slot || unix_timestamp) *)
InitSeed(a, clock) ==
    [authority |-> a, slot |-> clock.slot, unix |-> clock.unix, chain |-> <<>>]

(* sha256(seed || ACTION_EXECUTE || program_id || sub_ix_data) *)
DigestExecute(seed, program, data) ==
    [seed |-> seed, action |-> ACTION_EXECUTE, program |-> program, body |-> data]

(* sha256(seed || ACTION_CLOSE || program_id || close_to) *)
DigestClose(seed, program, to) ==
    [seed |-> seed, action |-> ACTION_CLOSE, program |-> program, body |-> to]

(* Mutant of AdvanceSeed: the seed is not advanced. *)
AdvanceSeedNot(seed, digest) == seed

(* Mutant of AdvanceSeed: the last link is replaced, not extended. *)
AdvanceSeedForgets(seed, digest) ==
    [seed EXCEPT !.chain = <<[program |-> digest.program, data |-> digest.body]>>]

(* sha256(seed || digest), for the digest of an execute on that seed *)
AdvanceSeed(seed, digest) ==
    [seed EXCEPT !.chain =
        Append(@, [program |-> digest.program, data |-> digest.body])]

(* The two initialisations that started these seeds hashed the same input. *)
SameOrigin(s, t) ==
    /\ s.authority = t.authority
    /\ s.slot = t.slot
    /\ s.unix = t.unix
=============================================================================
