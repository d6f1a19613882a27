----------------------------- MODULE Precompile -----------------------------
(***************************************************************************)
(* How execute and close know that the authority signed their digest: the  *)
(* native ed25519 program has run on an earlier instruction of the same    *)
(* transaction, and verify_ed25519_precompile reads that instruction.      *)
(*                                                                         *)
(* The instruction's data is a header of offsets followed by anything; the *)
(* native program follows the offsets, to whichever instruction they name, *)
(* and so does the program.  Data is counted in cells: the header, a       *)
(* public key, a signature, and a 32-byte message are one cell each.       *)
(***************************************************************************)
EXTENDS Naturals, Sequences

CONSTANTS
    Key,            \* public keys
    Message,        \* 32-byte messages
    Signed,         \* pairs <<key, cells>>: what was ever signed
    Header,         \* the first cell of every instruction's data
    Other,          \* the data of another instruction of the transaction
    MaxCells        \* bound: cells after the header

(* There is room for a public key, a signature and a message. *)
ASSUME CellsAssumption == MaxCells \in Nat /\ MaxCells >= 3

SELF_REF == "self"
OTHER_IX == "other"

(* Genuine signatures. *)
Signature == [key : Key, over : {s[2] : s \in Signed}]

Cell == Key \union Message \union {g \in Signature : <<g.key, g.over>> \in Signed}

(* num_signatures, and the offsets of signature, public key and message,   *)
(* each with the instruction it refers to.  Offset 0 is the header itself, *)
(* and the last one is past the end.                                       *)
Offset == 0..MaxCells + 1
Ref == {SELF_REF, OTHER_IX}
Offsets ==
    [num : 0..2, sigAt : Offset, sigIn : Ref, keyAt : Offset, keyIn : Ref,
     msgAt : Offset, msgSize : 0..2, msgIn : Ref]

VARIABLES
    place,          \* of the instruction the client points to: "before" ours or "after"
    program,        \* the program of that instruction: "ed25519" or "another"
    offsets,        \* its header
    ixData,         \* all cells of that instruction, the header first
    expected,       \* the authority and the digest of the instruction after it
    verdict         \* "pending", "accepted" or "rejected"

precompileVars == <<place, program, offsets, ixData, expected, verdict>>

-----------------------------------------------------------------------------
(* The native program.                                                     *)

(* The cells an offset and a length name: none if they run past the end.   *)
Slice(cells, at, size) ==
    IF at + size <= Len(cells) THEN {SubSeq(cells, at + 1, at + size)} ELSE {}

In(ref, own) == IF ref = SELF_REF THEN own ELSE Other

(* Without signatures there may be no data; otherwise the first signature  *)
(* verifies, and so do those after it, wherever their offsets are.         *)
NativeVerifies(o, own) ==
    /\ o.num > 0
    /\ \E s \in Slice(In(o.sigIn, own), o.sigAt, 1),
          k \in Slice(In(o.keyIn, own), o.keyAt, 1),
          m \in Slice(In(o.msgIn, own), o.msgAt, o.msgSize) :
          /\ <<k[1], m>> \in Signed
          /\ s[1] = [key |-> k[1], over |-> m]

(* What buildEd25519PrecompileInstruction makes: public key, signature and *)
(* message after the header, all in the instruction itself.                *)
Built(k, m) ==
    [offsets |-> [num |-> 1, sigAt |-> 2, sigIn |-> SELF_REF, keyAt |-> 1,
                  keyIn |-> SELF_REF, msgAt |-> 3, msgSize |-> 1, msgIn |-> SELF_REF],
     data |-> <<Header, k, [key |-> k, over |-> <<m>>], m>>]

-----------------------------------------------------------------------------
(* verify_ed25519_precompile.                                              *)

(* Mutant of InOwnData: the instruction a part is in is not looked at. *)
InOwnDataUnchecked(o) == TRUE

(* All three parts are in the ed25519 instruction itself. *)
InOwnData(o) == o.sigIn = SELF_REF /\ o.keyIn = SELF_REF /\ o.msgIn = SELF_REF

(* Mutant of Fits: a part may not reach the end of the data. *)
FitsShort(o, cells) ==
    /\ o.sigAt + 1 < Len(cells)
    /\ o.keyAt + 1 < Len(cells)
    /\ o.msgAt + o.msgSize < Len(cells)

(* Every part is within the data. *)
Fits(o, cells) ==
    /\ o.sigAt + 1 <= Len(cells)
    /\ o.keyAt + 1 <= Len(cells)
    /\ o.msgAt + o.msgSize <= Len(cells)

(* Every check, in the order of the code; the last two compare what the    *)
(* native program verified with what the instruction is to be run on.      *)
Accepts(o, cells, authority, digest) ==
    /\ place = "before"
    /\ program = "ed25519"
    /\ Len(cells) >= 3
    /\ o.num = 1
    /\ InOwnData(o)
    /\ o.msgSize = 1
    /\ Fits(o, cells)
    /\ cells[o.keyAt + 1] = authority
    /\ cells[o.msgAt + 1] = digest

(* The native program has verified the instruction; or it is one of        *)
(* another program, which checks nothing, or one whose turn has not come,  *)
(* with data like Built.                                                   *)
PrecompileInit ==
    /\ \/ /\ place = "before" /\ program = "ed25519"
          /\ \E n \in 0..MaxCells : \E cells \in [1..n -> Cell] : ixData = <<Header>> \o cells
          /\ offsets \in {o \in Offsets : NativeVerifies(o, ixData)}
       \/ /\ \/ place = "before" /\ program = "another"
             \/ place = "after" /\ program \in {"ed25519", "another"}
          /\ \E k \in Key, m \in Message :
                offsets = Built(k, m).offsets /\ ixData = Built(k, m).data
    /\ expected \in [authority : Key, digest : Message]
    /\ verdict = "pending"

Verify ==
    /\ verdict = "pending"
    /\ verdict' = IF Accepts(offsets, ixData, expected.authority, expected.digest)
                  THEN "accepted" ELSE "rejected"
    /\ UNCHANGED <<place, program, offsets, ixData, expected>>

PrecompileSpec == PrecompileInit /\ [][Verify]_precompileVars

-----------------------------------------------------------------------------
(* Whatever the header and the data, and whatever else is in the           *)
(* transaction, an accepted instruction shows that the authority signed    *)
(* exactly the digest.  (precompile.rs:52-55, README.md:598-600.)          *)
AcceptedWasSigned ==
    verdict = "accepted" => <<expected.authority, <<expected.digest>>>> \in Signed

(* The client's instruction for a signed digest is accepted.               *)
(* (vector.ts:341-348.)                                                    *)
BuiltIsAccepted ==
    /\ verdict = "rejected"
    /\ place = "before" /\ program = "ed25519"
    /\ <<expected.authority, <<expected.digest>>>> \in Signed
    => [offsets |-> offsets, data |-> ixData] # Built(expected.authority, expected.digest)
=============================================================================
