----------------------------- MODULE MCAlgorithms -----------------------------
(***************************************************************************)
(* Four sequential algorithms that share no state, each on all its inputs, *)
(* side by side in one run: amounts, the pre-instructions of broadcast,    *)
(* the decoder, and the look at the precompile instruction.  In a          *)
(* behaviour one of them has something to do and the others are done with  *)
(* a trivial input.                                                        *)
(***************************************************************************)
EXTENDS MCPrecompile, MCSubInstructions, Amounts, PreInstructions

CONSTANTS gold, silver, alice, bob, dao, guild

NoSignature ==
    /\ place = "after" /\ program = "another"
    /\ offsets = Built(a, d).offsets /\ ixData = Built(a, d).data
    /\ expected = [authority |-> a, digest |-> d]
    /\ verdict = "rejected"

NothingReceived ==
    /\ list = <<>> /\ data = Encode(<<>>)
    /\ cur = Len(data) /\ next = "ok"
    /\ todo = [ixs |-> 0, accounts |-> 0, data |-> 0]
    /\ ix = NoIx /\ out = <<>>

NothingTyped ==
    /\ decimals = 0 /\ typed = 0
    /\ amount = Float(0, 1) /\ raw = 0

NothingSent ==
    /\ unsigned = [list |-> <<>>, meta |-> NoMeta]
    /\ accounts = {} /\ at = [loop |-> "landed", i |-> 0]
    /\ pre = <<>> /\ paid = {} /\ churn = 0

Init ==
    \/ PrecompileInit /\ NothingReceived /\ NothingTyped /\ NothingSent
    \/ DecoderInit /\ NoSignature /\ NothingTyped /\ NothingSent
    \/ AmountInit /\ NoSignature /\ NothingReceived /\ NothingSent
    \/ PreInit /\ NoSignature /\ NothingReceived /\ NothingTyped

Next ==
    \/ Verify /\ UNCHANGED <<decoderVars, amountVars, preVars>>
    \/ DecoderNext /\ UNCHANGED <<precompileVars, amountVars, preVars>>
    \/ AmountNext /\ UNCHANGED <<precompileVars, decoderVars, preVars>>
    \/ PreNext /\ UNCHANGED <<precompileVars, decoderVars, amountVars>>

Spec == Init /\ [][Next]_<<precompileVars, decoderVars, amountVars, preVars>>
=============================================================================
