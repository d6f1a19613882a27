------------------------- MODULE MCSubInstructions -------------------------
(***************************************************************************)
(* A small instance of SubInstructions for TLC: bytes of five values, so   *)
(* that one flag bit is spare, and keys of two bytes.                      *)
(***************************************************************************)
EXTENDS SubInstructions, TLC

Keys == {<<0, 1>>, <<4, 3>>}

Accs == [pubkey : Keys, is_writable : BOOLEAN, is_signer : BOOLEAN]

(* The order of two accounts: the same key twice, once as a signer. *)
Two ==
    {<<[pubkey |-> <<4, 3>>, is_writable |-> w, is_signer |-> s],
       [pubkey |-> <<4, 3>>, is_writable |-> FALSE, is_signer |-> ~s]>> : w, s \in BOOLEAN}

Small ==
    [program_id : Keys, accounts : {<<>>} \cup {<<acc>> : acc \in Accs} \cup Two,
     data : {<<>>, <<3>>, <<0, 3>>}]
Tiny ==
    [program_id : {<<1, 2>>}, accounts : {<<>>, <<[pubkey |-> <<2, 0>>,
        is_writable |-> TRUE, is_signer |-> FALSE]>>}, data : {<<>>, <<1>>}]

(* At the limits: as many instructions, accounts or data bytes as fit,     *)
(* and one more of each, which the client refuses.                         *)
Acc == [pubkey |-> <<1, 1>>, is_writable |-> TRUE, is_signer |-> TRUE]
Big(accs, bytes) ==
    [program_id |-> <<1, 2>>, accounts |-> [i \in 1..accs |-> Acc],
     data |-> [i \in 1..bytes |-> 4]]
Large ==
    {[i \in 1..n |-> Big(0, 0)] : n \in {BYTE - 1, BYTE}}
    \cup {<<Big(n, 1)>> : n \in {BYTE - 1, BYTE}}
    \cup {<<Big(1, n)>> : n \in {BYTE - 1, BYTE, BYTE * BYTE - 1, BYTE * BYTE}}

AllLists ==
    {<<>>} \cup {<<i>> : i \in Small} \cup {<<i, j>> : i, j \in Tiny} \cup Large

(* The encoded bytes, cut off anywhere, with a byte more, or with one byte *)
(* changed.                                                                *)
Edited(bytes) ==
    {SubSeq(bytes, 1, n) : n \in 0..Len(bytes)}
    \cup {Append(bytes, b) : b \in Byte}
    \cup {[bytes EXCEPT ![i] = b] : i \in 1..Len(bytes), b \in Byte}

Encodings == {<<l, Encode(l)>> : l \in {m \in AllLists : Encodable(m)}}
Arriving == UNION {{<<e[1], bytes>> : bytes \in Edited(e[2])} : e \in Encodings}
=============================================================================
