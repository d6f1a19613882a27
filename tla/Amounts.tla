-------------------------------- MODULE Amounts --------------------------------
(***************************************************************************)
(* From the amount on the command line to base units (lamports, or the     *)
(* smallest unit of a token): a decimal is read into a binary              *)
(* floating-point number, multiplied by 10^decimals and rounded.           *)
(*                                                                         *)
(* A double has 53 significant bits; here a number has P of them, and an   *)
(* exponent that is never at its limit.                                    *)
(* 10^decimals is a whole number, as it is in doubles up to 22 decimals.   *)
(***************************************************************************)
EXTENDS Integers

CONSTANTS
    P,              \* significant bits
    Decimals,       \* the decimals of the mints
    MaxExponent,    \* bound: large enough for the amounts and decimals below
    MaxUnits        \* bound: base units typed

(* b^n. *)
Power(b, n) == LET p[i \in 0..n] == IF i = 0 THEN 1 ELSE b * p[i - 1] IN p[n]

ASSUME AmountsAssumption ==
    /\ P \in Nat \ {0, 1} /\ Decimals \subseteq Nat /\ MaxUnits \in Nat
    /\ MaxExponent \in Nat /\ P <= MaxExponent
    /\ \A d \in Decimals : Power(10, d) * Power(2, P - 1) <= Power(2, MaxExponent)

VARIABLES
    decimals,       \* of the mint (9 for SOL)
    typed,          \* the amount typed, exactly, in base units
    amount,         \* argv.amount, a number; NoNumber before it is read
    raw             \* the amount in the instruction; None before that

amountVars == <<decimals, typed, amount, raw>>

None == -1
NoNumber == [m |-> None, e |-> 0]

-----------------------------------------------------------------------------
(* Numbers are mantissa * 2^exponent, 0 apart with mantissas of P bits.    *)

(* The nearest integer to a/b, even ones first (IEEE 754). *)
Nearest(a, b) ==
    LET q == a \div b
        r == a % b
    IN  IF 2 * r < b \/ (2 * r = b /\ q % 2 = 0) THEN q ELSE q + 1

(* a/b has P bits before the binary point. *)
Significant(a, b) == b * Power(2, P - 1) <= a /\ a < b * Power(2, P)

(* The number nearest to a/b: scaled up or down to P bits before the       *)
(* binary point, then rounded.                                             *)
Float(a, b) ==
    CASE a = 0 -> [m |-> 0, e |-> 0]
      [] a > 0 /\ a < b * Power(2, P) ->
            LET k == CHOOSE i \in 0..MaxExponent : Significant(a * Power(2, i), b)
            IN  [m |-> Nearest(a * Power(2, k), b), e |-> -k]
      [] OTHER ->
            LET k == CHOOSE i \in 0..MaxExponent : Significant(a, b * Power(2, i))
            IN  [m |-> Nearest(a, b * Power(2, k)), e |-> k]

(* x * n, rounded to a number. *)
Times(x, n) ==
    IF x.e >= 0 THEN Float(x.m * Power(2, x.e) * n, 1) ELSE Float(x.m * n, Power(2, -x.e))

(* Mutant of Round: the fraction is cut off. *)
RoundDown(x) == IF x.e >= 0 THEN x.m * Power(2, x.e) ELSE x.m \div Power(2, -x.e)

(* Math.round: halves go up. *)
Round(x) ==
    IF x.e >= 0 THEN x.m * Power(2, x.e) ELSE (2 * x.m + Power(2, -x.e)) \div (2 * Power(2, -x.e))

-----------------------------------------------------------------------------
AmountInit ==
    /\ decimals \in Decimals
    /\ typed \in 0..MaxUnits
    /\ amount = NoNumber
    /\ raw = None

(* The command line: an option of type number. *)
Read ==
    /\ amount = NoNumber
    /\ amount' = Float(typed, Power(10, decimals))
    /\ UNCHANGED <<decimals, typed, raw>>

(* Math.round(amount * 10^decimals). *)
Scale ==
    /\ amount # NoNumber /\ raw = None
    /\ raw' = Round(Times(amount, Power(10, decimals)))
    /\ UNCHANGED <<decimals, typed, amount>>

AmountNext == Read \/ Scale

AmountSpec == AmountInit /\ [][AmountNext]_amountVars

-----------------------------------------------------------------------------
(* An amount of less than 2^(P-2) base units goes into the instruction as  *)
(* it was typed, whatever the decimals of the mint: for doubles, less than *)
(* 2^51 base units, 2251799 SOL.  (sol_transfer.ts:47, stake.ts:91 and     *)
(* 254, token_transfer.ts:40, governance.ts:156.)                          *)
AsTyped == raw # None /\ typed < Power(2, P - 2) => raw = typed
=============================================================================
