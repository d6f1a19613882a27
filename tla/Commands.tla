------------------------------- MODULE Commands -------------------------------
(***************************************************************************)
(* What the construct commands put into unsigned-tx.json: for each command *)
(* the list of sub-instructions it builds.  An instruction is a program,   *)
(* an operation (the discriminator its data starts with), the rest of its  *)
(* data, and its accounts with their flags; sysvars and programs at the    *)
(* end of the accounts, which no code here looks at, are left out.         *)
(*                                                                         *)
(* A derived address (PDA, associated token account, address with seed) is *)
(* the tuple of what it is derived from.                                   *)
(***************************************************************************)
EXTENDS Integers, SequencesExt

CONSTANTS
    Vault,          \* the vault PDA
    Payer,          \* the hot wallet
    System, Token, Stake, Governance,   \* programs; Governance is the canonical one
    Default         \* an argument that is not there

Meta(key, w, s) == [key |-> key, w |-> w, s |-> s]

Ix(program, op, arg, keys) == [program |-> program, op |-> op, arg |-> arg, keys |-> keys]

Ata(mint, owner) == <<"ata", mint, owner>>
StakeAddress(base, seed) == <<"stake", base, seed>>
Holding(program, realm, mint) == <<"holding", program, realm, mint>>
Tor(program, realm, mint, owner) == <<"tor", program, realm, mint, owner>>
VoteRecord(program, proposal, tor) == <<"vote", program, proposal, tor>>

(* Signers of a list besides the vault, who has the program sign for it.   *)
ExtraSigners(list) ==
    {m.key : m \in {n \in UNION {ToSet(list[i].keys) : i \in 1..Len(list)} : n.s}} \ {Vault}

-----------------------------------------------------------------------------
(* Transfers.                                                              *)

SolTransfer(to, n) ==
    <<Ix(System, "Transfer", <<n>>, <<Meta(Vault, TRUE, TRUE), Meta(to, TRUE, FALSE)>>)>>

TokenTransfer(mint, to, n) ==
    <<Ix(Token, "Transfer", <<n>>,
         <<Meta(Ata(mint, Vault), TRUE, FALSE), Meta(Ata(mint, to), TRUE, FALSE),
           Meta(Vault, FALSE, TRUE)>>)>>

-----------------------------------------------------------------------------
(* Stake.                                                                  *)

CreateWithSeed(seed, n) ==
    Ix(System, "CreateWithSeed", <<Vault, seed, n, Stake>>,
       <<Meta(Vault, TRUE, TRUE), Meta(StakeAddress(Vault, seed), TRUE, FALSE)>>)

InitializeStake(seed, staker, withdrawer) ==
    Ix(Stake, "Initialize", <<staker, withdrawer>>,
       <<Meta(StakeAddress(Vault, seed), TRUE, FALSE)>>)

(* Mutant of StakeCreate: the account is created and left to be            *)
(* initialised by a later action.                                          *)
StakeCreateOnly(seed, n) == <<CreateWithSeed(seed, n)>>

StakeCreate(seed, n) ==
    <<CreateWithSeed(seed, n), InitializeStake(seed, Vault, Vault)>>

StakeDelegate(stake, vote) ==
    <<Ix(Stake, "Delegate", <<>>,
         <<Meta(stake, TRUE, FALSE), Meta(vote, FALSE, FALSE), Meta(Vault, FALSE, TRUE)>>)>>

StakeDeactivate(stake) ==
    <<Ix(Stake, "Deactivate", <<>>, <<Meta(stake, TRUE, FALSE), Meta(Vault, FALSE, TRUE)>>)>>

(* Mutant of StakeWithdraw: the recipient is forgotten. *)
StakeWithdrawToPayer(stake, to, n) ==
    <<Ix(Stake, "Withdraw", <<n>>,
         <<Meta(stake, TRUE, FALSE), Meta(Payer, TRUE, FALSE), Meta(Vault, FALSE, TRUE)>>)>>

StakeWithdraw(stake, to, n) ==
    <<Ix(Stake, "Withdraw", <<n>>,
         <<Meta(stake, TRUE, FALSE), Meta(to, TRUE, FALSE), Meta(Vault, FALSE, TRUE)>>)>>

-----------------------------------------------------------------------------
(* Governance.  The SPL library lays the accounts out and sets the flags.  *)

(* takeIx: the instruction the library appended last. *)
TakeIx(ixs) == Last(ixs)

(* Mutant of StripNonVaultSigners: the flags stay as the library set them. *)
StripNothing(ix) == ix

(* stripNonVaultSigners: nobody but the vault is asked to sign. *)
StripNonVaultSigners(ix) ==
    [ix EXCEPT !.keys =
        [i \in DOMAIN @ |-> Meta(@[i].key, @[i].w, @[i].s /\ @[i].key = Vault)]]

GovernanceDeposit(program, realm, mint, n) ==
    <<StripNonVaultSigners(TakeIx(<<
        Ix(program, "Deposit", <<n>>,
           <<Meta(realm, FALSE, FALSE), Meta(Holding(program, realm, mint), TRUE, FALSE),
             Meta(Ata(mint, Vault), TRUE, FALSE), Meta(Vault, FALSE, TRUE),
             Meta(Vault, FALSE, TRUE), Meta(Tor(program, realm, mint, Vault), TRUE, FALSE),
             Meta(Payer, TRUE, TRUE)>>)>>))>>

(* voteFromString: the four votes; any other word is refused.  A yes is    *)
(* all for the first option of the proposal.                               *)
Vote == {"yes", "no", "abstain", "veto"}
VoteData(vote) == IF vote = "yes" THEN <<vote, "first option">> ELSE <<vote>>

GovernanceCastVote(program, realm, governance, proposal, ownerRecord, mint, vote) ==
    LET tor == Tor(program, realm, mint, Vault)
    IN  <<TakeIx(<<
            Ix(program, "CastVote", VoteData(vote),
               <<Meta(realm, FALSE, FALSE), Meta(governance, TRUE, FALSE),
                 Meta(proposal, TRUE, FALSE), Meta(ownerRecord, TRUE, FALSE),
                 Meta(tor, TRUE, FALSE), Meta(Vault, FALSE, TRUE),
                 Meta(VoteRecord(program, proposal, tor), TRUE, FALSE),
                 Meta(mint, FALSE, FALSE), Meta(Payer, TRUE, TRUE)>>)>>)>>

GovernanceRelinquishVote(program, realm, governance, proposal, mint) ==
    LET tor == Tor(program, realm, mint, Vault)
    IN  <<TakeIx(<<
            Ix(program, "Relinquish", <<>>,
               <<Meta(realm, FALSE, FALSE), Meta(governance, TRUE, FALSE),
                 Meta(proposal, TRUE, FALSE), Meta(tor, TRUE, FALSE),
                 Meta(VoteRecord(program, proposal, tor), TRUE, FALSE),
                 Meta(mint, FALSE, FALSE), Meta(Vault, FALSE, TRUE),
                 Meta(Payer, TRUE, FALSE)>>)>>)>>

(* The tokens go to the token account of an owner. *)
WithdrawTo(program, realm, mint, owner) ==
    <<StripNonVaultSigners(TakeIx(<<
        Ix(program, "Withdraw", <<>>,
           <<Meta(realm, FALSE, FALSE), Meta(Holding(program, realm, mint), TRUE, FALSE),
             Meta(Ata(mint, owner), TRUE, FALSE), Meta(Vault, FALSE, TRUE),
             Meta(Tor(program, realm, mint, Vault), TRUE, FALSE)>>)>>))>>

(* Mutant of GovernanceWithdraw: to the fee payer's token account. *)
GovernanceWithdrawToPayer(program, realm, mint) == WithdrawTo(program, realm, mint, Payer)

GovernanceWithdraw(program, realm, mint) == WithdrawTo(program, realm, mint, Vault)
=============================================================================
