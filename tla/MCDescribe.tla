------------------------------ MODULE MCDescribe ------------------------------
(***************************************************************************)
(* Two values of each argument that matters to a command, and in place of  *)
(* an account any of those the others use.                                 *)
(***************************************************************************)
EXTENDS Describe
CONSTANTS alice, bob, usd, gov, vote2, prop2

Addresses ==
    {Vault, Payer, alice, bob, vote2, prop2, Ata(gov, Vault), Ata(usd, alice),
     StakeAddress(Vault, "b"), Tor(Governance, Dao, usd, Vault),
     VoteRecord(Governance, prop2, Tor(Governance, Dao, gov, Vault))}
=============================================================================
