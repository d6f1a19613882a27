-------------------------- MODULE SubInstructions --------------------------
(***************************************************************************)
(* The bytes a signature is for, and what the program makes of them: the   *)
(* client encodes a list of instructions (encodeSubInstructions), the      *)
(* program decodes whatever bytes it is given (decode_sub_instructions).   *)
(*                                                                         *)
(* The decoder moves a cursor that the data itself steers: the counts and  *)
(* lengths it reads say how far to go.  Each of its reads is a step, and   *)
(* one past the end of the data is a panic.                                *)
(***************************************************************************)
EXTENDS Naturals, SequencesExt

CONSTANTS
    BYTE,           \* values of a byte: 256
    KEY,            \* bytes of a public key: 32
    Received        \* pairs <<list, bytes>>: bytes that reach the program
                    \* after the client has encoded the list

Byte == 0..BYTE - 1

PublicKey == [1..KEY -> Byte]

AccountMeta == [pubkey : PublicKey, is_writable : BOOLEAN, is_signer : BOOLEAN]

Instruction == [program_id : PublicKey, accounts : Seq(AccountMeta), data : Seq(Byte)]

-----------------------------------------------------------------------------
(* The client's encoder.                                                   *)

(* Counts and lengths fit one and two bytes, or the client gives up. *)
Encodable(list) ==
    /\ Len(list) < BYTE
    /\ \A i \in 1..Len(list) : Len(list[i].accounts) < BYTE /\ Len(list[i].data) < BYTE * BYTE

Flags(acc) == (IF acc.is_writable THEN 1 ELSE 0) + (IF acc.is_signer THEN 2 ELSE 0)

EncodeMeta(acc) == acc.pubkey \o <<Flags(acc)>>

EncodeIx(ix) ==
    ix.program_id
    \o <<Len(ix.accounts)>>
    \o FlattenSeq([i \in 1..Len(ix.accounts) |-> EncodeMeta(ix.accounts[i])])
    \o <<Len(ix.data) % BYTE, Len(ix.data) \div BYTE>>
    \o ix.data

Encode(list) == <<Len(list)>> \o FlattenSeq([i \in 1..Len(list) |-> EncodeIx(list[i])])

(* A byte holds two flags, and a public key is not empty.  The client      *)
(* encodes instructions; what arrives may be any bytes.                    *)
ASSUME ByteAssumption == BYTE \in Nat /\ BYTE >= 4
ASSUME KeyAssumption == KEY \in Nat \ {0}
ASSUME ReceivedAssumption ==
    \A r \in Received :
        r[1] \in Seq(Instruction) /\ Encodable(r[1]) /\ r[2] \in Seq(Byte)

-----------------------------------------------------------------------------
(* The program's decoder.  Each read has a check in front of it, and says  *)
(* for itself which bytes it takes and how far the cursor moves.           *)

VARIABLES
    list,           \* what the client encoded
    data,           \* what the program was given
    cur,            \* bytes of data read so far
    next,           \* what is read next; at last "ok", "error" or "panic"
    todo,           \* instructions, accounts and data bytes still to be read
    ix,             \* the instruction being read
    out             \* the instructions read

decoderVars == <<list, data, cur, next, todo, ix, out>>

NoIx == [program_id |-> <<>>, accounts |-> <<>>, data |-> <<>>]

Bytes(from, n) == [i \in 1..n |-> data[from + i]]

(* How far past the cursor the check in front of a read looks. *)
Checked ==
    CASE next \in {"num_ixs", "num_accounts"} -> 1
      [] next = "program" -> KEY
      [] next = "account" -> KEY + 1
      [] next = "data_len" -> 2
      [] next = "data" -> todo.data

(* Mutant of Room: the check of an account forgets its flags. *)
RoomWithoutFlags == cur + (IF next = "account" THEN KEY ELSE Checked) <= Len(data)

Room == cur + Checked <= Len(data)

(* The bytes of data that a read takes. *)
Taken ==
    CASE next \in {"num_ixs", "num_accounts"} -> {cur + 1}
      [] next = "program" -> cur + 1..cur + KEY
      [] next = "account" -> (cur + 1..cur + KEY) \union {cur + KEY + 1}
      [] next = "data_len" -> {cur + 1, cur + 2}
      [] next = "data" -> cur + 1..cur + todo.data

Readable == Room /\ Taken \subseteq DOMAIN data

(* Mutant of FlagsOf: the bits the other way round. *)
FlagsOfSwapped(byte) == [is_writable |-> (byte \div 2) % 2 = 1, is_signer |-> byte % 2 = 1]

FlagsOf(byte) == [is_writable |-> byte % 2 = 1, is_signer |-> (byte \div 2) % 2 = 1]

DecoderInit ==
    /\ \E r \in Received : list = r[1] /\ data = r[2]
    /\ cur = 0
    /\ next = "num_ixs"
    /\ todo = [ixs |-> 0, accounts |-> 0, data |-> 0]
    /\ ix = NoIx
    /\ out = <<>>

NumIxs ==
    /\ next = "num_ixs" /\ Readable
    /\ todo' = [todo EXCEPT !.ixs = data[cur + 1]]
    /\ next' = IF data[cur + 1] = 0 THEN "end" ELSE "program"
    /\ cur' = cur + 1
    /\ UNCHANGED <<list, data, ix, out>>

Program ==
    /\ next = "program" /\ Readable
    /\ ix' = [NoIx EXCEPT !.program_id = Bytes(cur, KEY)]
    /\ next' = "num_accounts"
    /\ cur' = cur + KEY
    /\ UNCHANGED <<list, data, todo, out>>

NumAccounts ==
    /\ next = "num_accounts" /\ Readable
    /\ todo' = [todo EXCEPT !.accounts = data[cur + 1]]
    /\ next' = IF data[cur + 1] = 0 THEN "data_len" ELSE "account"
    /\ cur' = cur + 1
    /\ UNCHANGED <<list, data, ix, out>>

Account ==
    LET flags == FlagsOf(data[cur + KEY + 1])
    IN  /\ next = "account" /\ Readable
        /\ ix' = [ix EXCEPT !.accounts = Append(@,
                     [pubkey |-> Bytes(cur, KEY), is_writable |-> flags.is_writable,
                      is_signer |-> flags.is_signer])]
        /\ todo' = [todo EXCEPT !.accounts = @ - 1]
        /\ next' = IF todo.accounts = 1 THEN "data_len" ELSE "account"
        /\ cur' = cur + KEY + 1
        /\ UNCHANGED <<list, data, out>>

DataLen ==
    /\ next = "data_len" /\ Readable
    /\ todo' = [todo EXCEPT !.data = data[cur + 1] + BYTE * data[cur + 2]]
    /\ next' = "data"
    /\ cur' = cur + 2
    /\ UNCHANGED <<list, data, ix, out>>

Data ==
    /\ next = "data" /\ Readable
    /\ out' = Append(out, [ix EXCEPT !.data = Bytes(cur, todo.data)])
    /\ ix' = NoIx
    /\ todo' = [todo EXCEPT !.ixs = @ - 1, !.data = 0]
    /\ next' = IF todo.ixs = 1 THEN "end" ELSE "program"
    /\ cur' = cur + todo.data
    /\ UNCHANGED <<list, data>>

(* A check refuses, or the read behind it is out of bounds and panics. *)
Abort ==
    /\ next \notin {"end", "ok", "error", "panic"} /\ ~Readable
    /\ next' = IF Room THEN "panic" ELSE "error"
    /\ UNCHANGED <<list, data, cur, todo, ix, out>>

(* Mutant of Consumed: bytes may be left over. *)
ConsumedAnyway == TRUE

Consumed == cur = Len(data)

End ==
    /\ next = "end"
    /\ next' = IF Consumed THEN "ok" ELSE "error"
    /\ UNCHANGED <<list, data, cur, todo, ix, out>>

DecoderNext ==
    \/ NumIxs \/ Program \/ NumAccounts \/ Account \/ DataLen \/ Data
    \/ Abort
    \/ End

DecoderSpec == DecoderInit /\ [][DecoderNext]_decoderVars

-----------------------------------------------------------------------------
(* Whatever bytes arrive, cut off anywhere, with counts and lengths that   *)
(* lie, the decoder answers ok or an error of its own: the check in front  *)
(* of each read reaches as far as the slices and single bytes it takes,    *)
(* wherever the reads before have left the cursor.                         *)
(* (sub_instructions.rs:36-71.)                                            *)
NeverPanics == next # "panic"

(* What the client encoded, the program decodes to the same list: the      *)
(* action that is carried out is the one the digest was made for.          *)
(* (vector.ts:131-180 against sub_instructions.rs:34-81.)                  *)
RoundTrip ==
    (next \in {"ok", "error", "panic"} /\ data = Encode(list)) => (next = "ok" /\ out = list)

(* Two byte strings that decode to one list differ in spare flag bits only *)
(* (the bits above the second): every byte that was signed is accounted    *)
(* for.  (sub_instructions.rs:79.)                                         *)
EveryByteCounts ==
    next = "ok" =>
        LET again == Encode(out)
        IN  /\ Len(again) = Len(data)
            /\ \A i \in 1..Len(data) : again[i] \in {data[i], data[i] % 4}
=============================================================================
