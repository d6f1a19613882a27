---------------------------- MODULE MCTransaction ----------------------------
(***************************************************************************)
(* A small instance of Transaction for TLC: payments out of the vault, a   *)
(* vote the hot wallet pays for, a transfer from the hot wallet or from a  *)
(* third account, a payment that does not say who signs, and a call of the *)
(* Vector program itself.                                                  *)
(***************************************************************************)
EXTENDS Transaction
CONSTANTS third, dest

Takes(program, from, signer) ==
    [program |-> program,
     accounts |-> <<[key |-> from, signer |-> signer], [key |-> dest, signer |-> FALSE]>>,
     inner |-> <<>>]

Pay      == Takes(System, Vault, TRUE)
Unsigned == Takes(System, Vault, FALSE)
Vote     == Takes(Governance, Payer, TRUE)
TakeHot  == Takes(System, Payer, TRUE)
TakeThird == Takes(System, third, TRUE)
Reenter  == [Takes(Vector, Vault, TRUE) EXCEPT !.inner = <<<<Pay>>>>]

SomeLists ==
    {<<Pay>>, <<Pay, Pay>>, <<Pay, Unsigned>>, <<Pay, Vote>>, <<TakeHot>>,
     <<Vote, TakeThird>>, <<TakeThird>>, <<Reenter>>, <<>>}

(* On the first seed all are signed, on the second some. *)
SignedLists ==
    [s \in 0..MaxSeed |-> IF s = 0 THEN SomeLists ELSE {<<Pay>>, <<Pay, Vote>>, <<>>}]

Balances == [k \in Key |-> IF k = Vault THEN 2 ELSE 1]
=============================================================================
