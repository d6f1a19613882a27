-------------------------- MODULE ColdSigningProofs --------------------------
(***************************************************************************)
(* "What you see is what you sign", for any number of keys, actions and    *)
(* seeds.                                                                  *)
(*                                                                         *)
(* ExecutedWasApproved is not inductive: it says nothing of signatures     *)
(* that are still on their way.  What holds at every step is that the      *)
(* digest about to be signed is that of the action on screen, and that     *)
(* every signature in any file is over an approved digest.                 *)
(***************************************************************************)
EXTENDS ColdSigning, TLAPS

(* The digest about to be signed is that of the action on screen. *)
ScreenIsDigest ==
    signer # None => signer.expected.body = signer.shown

Genuine(s) == s # None => s.message \in approved

(* What was signed was approved, wherever the signature is by now. *)
SignedWasApproved ==
    /\ Genuine(online.signed)
    /\ Genuine(offline.signed)
    /\ Genuine(sent.signed)

(* What is sent is a pair of files, of one key, whose signature verifies   *)
(* over the digest in the unsigned one.                                    *)
SentVerifies ==
    sent # Empty =>
        /\ sent.unsigned # None /\ sent.signed # None
        /\ Verifies(sent.unsigned, sent.signed)

Inv ==
    /\ TypeOK
    /\ ScreenIsDigest
    /\ SignedWasApproved
    /\ SentVerifies
    /\ ExecutedWasApproved

(* A digest of a seed and an action is a digest. *)
LEMMA DigestType ==
    ASSUME NEW s \in Seed, NEW b \in Body
    PROVE  DigestOf(s, b) \in Digest
BY DEF DigestOf, Digest

(* Whatever is saved over the unsigned file of a directory, and the signed *)
(* one, leaves a directory.                                                *)
LEMMA DirectoryType ==
    ASSUME NEW d \in Directory, NEW u \in Unsigned \union {None}, NEW s \in Signed \union {None}
    PROVE  /\ [d EXCEPT !.unsigned = u] \in Directory
           /\ [d EXCEPT !.signed = s] \in Directory
           /\ [d EXCEPT !.unsigned = u].signed = d.signed
           /\ [d EXCEPT !.signed = s].unsigned = d.unsigned
           /\ [d EXCEPT !.unsigned = u].unsigned = u
           /\ [d EXCEPT !.signed = s].signed = s
BY DEF Directory

(* Nothing is signed or executed before anything was approved. *)
LEMMA InitInv == Init => Inv
<1>1. SUFFICES ASSUME Init PROVE Inv
  OBVIOUS
<1>2. TypeOK
  <2>1. stored \in [Cold -> Seed]
    BY <1>1, WantedAssumption DEF Init, Seed
  <2>2. Empty \in Directory
    BY DEF Empty, Directory
  <2>3. log \in Seq(Digest)
    BY <1>1 DEF Init
  <2>4. QED
    BY <1>1, <2>1, <2>2, <2>3 DEF Init, TypeOK
<1>3. QED
  BY <1>1, <1>2 DEF Init, Inv, ScreenIsDigest, SignedWasApproved, Genuine, SentVerifies,
     ExecutedWasApproved, Empty

(* One step, action by action. *)
LEMMA NextInv == Inv /\ [Next]_vars => Inv'
<1> SUFFICES ASSUME Inv, [Next]_vars PROVE Inv'
  OBVIOUS
<1> USE DEF Inv
<1>1. ASSUME NEW c \in Cold, NEW body \in Body, Construct(c, body)
      PROVE  Inv'
  <2>1. [cold |-> c, seed |-> stored[c], body |-> body,
         digest |-> DigestOf(stored[c], body)] \in Unsigned
    BY <1>1, DigestType DEF TypeOK, Unsigned
  <2>2. online' \in Directory /\ online'.signed = online.signed
    BY <1>1, <2>1, DirectoryType DEF Construct, TypeOK
  <2>3. QED
    BY <1>1, <2>2 DEF Construct, TypeOK, ScreenIsDigest, SignedWasApproved, Genuine,
       SentVerifies, ExecutedWasApproved
<1>2. ASSUME NEW f \in Unsigned, Rewrite(f)
      PROVE  Inv'
  <2>1. online' \in Directory /\ online'.signed = online.signed
    BY <1>2, DirectoryType DEF Rewrite, TypeOK
  <2>2. QED
    BY <1>2, <2>1 DEF Rewrite, TypeOK, ScreenIsDigest, SignedWasApproved, Genuine,
       SentVerifies, ExecutedWasApproved
<1>3. ASSUME CarryOver
      PROVE  Inv'
  <2>1. online.unsigned \in Unsigned \union {None}
    BY DEF TypeOK, Directory
  <2>2. offline' \in Directory /\ offline'.signed = offline.signed
    BY <1>3, <2>1, DirectoryType DEF CarryOver, TypeOK
  <2>3. UNCHANGED <<stored, online, signer, sent, approved, log>>
    BY <1>3 DEF CarryOver
  <2>4. TypeOK' /\ ScreenIsDigest' /\ ExecutedWasApproved'
    BY <2>2, <2>3 DEF TypeOK, ScreenIsDigest, ExecutedWasApproved
  <2>5. SignedWasApproved'
    BY <2>2, <2>3 DEF SignedWasApproved, Genuine
  <2>6. SentVerifies'
    BY <2>3 DEF SentVerifies
  <2>7. QED
    BY <2>4, <2>5, <2>6
<1>4. ASSUME CarryBack
      PROVE  Inv'
  <2>1. offline.signed \in Signed \union {None}
    BY DEF TypeOK, Directory
  <2>2. online' \in Directory /\ online'.signed = offline.signed
    BY <1>4, <2>1, DirectoryType DEF CarryBack, TypeOK
  <2>3. QED
    BY <1>4, <2>2 DEF CarryBack, TypeOK, ScreenIsDigest, SignedWasApproved, Genuine,
       SentVerifies, ExecutedWasApproved
<1>5. ASSUME NEW k \in Cold, Show(k)
      PROVE  Inv'
  <2>1. offline.unsigned \in Unsigned
    BY <1>5 DEF Show, TypeOK, Directory
  <2>2. DigestOf(offline.unsigned.seed, offline.unsigned.body) \in Digest
    BY <2>1, DigestType DEF Unsigned
  <2>3. signer' \in [key : Cold, shown : Body, expected : Digest]
    BY <1>5, <2>1, <2>2 DEF Show, Unsigned
  <2>4. signer'.expected.body = signer'.shown
    BY <1>5 DEF Show, DigestOf
  <2>5. QED
    BY <1>5, <2>3, <2>4 DEF Show, TypeOK, ScreenIsDigest, SignedWasApproved, Genuine,
       SentVerifies, ExecutedWasApproved
<1>6. ASSUME Yes
      PROVE  Inv'
  <2> DEFINE s == [cold |-> signer.key, action |-> Action(signer.shown),
                   key |-> signer.key, message |-> signer.expected]
  <2>1. signer \in [key : Cold, shown : Body, expected : Digest]
    BY <1>6 DEF Yes, TypeOK
  <2>2. s \in Signed
    BY <2>1 DEF Signed, Action
  <2>3. offline' \in Directory /\ offline'.signed = s
    <3>1. offline' = [offline EXCEPT !.signed = s]
      BY <1>6 DEF Yes
    <3>2. offline \in Directory /\ s \in Signed \union {None} /\ None \in Unsigned \union {None}
      BY <2>2 DEF TypeOK
    <3> HIDE DEF s
    <3>3. QED
      BY <3>1, <3>2, DirectoryType
  <2>4. signer.expected \in [seed : Seed, body : Wanted]
    BY <1>6, <2>1 DEF Yes, ScreenIsDigest, Digest
  <2>5. approved' = approved \union {signer.expected}
    BY <1>6 DEF Yes
  <2>6. TypeOK'
    BY <1>6, <2>3, <2>4, <2>5 DEF Yes, TypeOK
  <2>7. SignedWasApproved'
    <3>1. s.message \in approved'
      BY <2>5
    <3>2. QED
      BY <1>6, <2>3, <2>5, <3>1 DEF Yes, SignedWasApproved, Genuine
  <2>8. QED
    BY <1>6, <2>5, <2>6, <2>7 DEF Yes, ScreenIsDigest, SentVerifies, ExecutedWasApproved
<1>7. ASSUME No
      PROVE  Inv'
  BY <1>7 DEF No, TypeOK, ScreenIsDigest, SignedWasApproved, Genuine, SentVerifies,
     ExecutedWasApproved
<1>8. ASSUME Broadcast
      PROVE  Inv'
  BY <1>8 DEF Broadcast, TypeOK, ScreenIsDigest, SignedWasApproved, Genuine, SentVerifies,
     ExecutedWasApproved
<1>9. ASSUME Land
      PROVE  Inv'
  <2> DEFINE c == sent.unsigned.cold
             d == DigestOf(stored[c], sent.unsigned.body)
  <2>1. sent.unsigned \in Unsigned
    BY <1>9 DEF Land, SentVerifies, TypeOK, Directory
  <2>2. c \in Cold /\ stored[c] \in Seed /\ sent.unsigned.body \in Body
    BY <2>1 DEF Unsigned, TypeOK
  <2>3. d \in approved
    BY <1>9 DEF Land, AcceptedBy, SentVerifies, SignedWasApproved, Genuine
  <2>4. d \in Digest /\ d.body \in Wanted
    BY <2>2, <2>3, DigestType DEF TypeOK
  <2>5. stored' \in [Cold -> Seed]
    <3>1. /\ stored' = [stored EXCEPT ![c].number = @ + 1]
          /\ stored[c].number < MaxEpoch
      BY <1>9 DEF Land
    <3>2. stored[c].number + 1 \in 0..MaxEpoch
      BY <2>2, <3>1, WantedAssumption DEF Seed
    <3>3. [stored[c] EXCEPT !.number = stored[c].number + 1] \in Seed
      BY <2>2, <3>2 DEF Seed
    <3>4. stored \in [Cold -> Seed]
      BY DEF TypeOK
    <3>5. QED
      BY <2>2, <3>1, <3>3, <3>4
  <2>6. log' = Append(log, d)
    BY <1>9 DEF Land
  <2>7. log' \in Seq(Digest)
    BY <2>4, <2>6 DEF TypeOK
  <2>8. TypeOK'
    BY <1>9, <2>5, <2>7 DEF Land, TypeOK
  <2>9. ExecutedWasApproved'
    BY <1>9, <2>3, <2>4, <2>6 DEF Land, ExecutedWasApproved, TypeOK
  <2>10. QED
    BY <1>9, <2>8, <2>9 DEF Land, ScreenIsDigest, SignedWasApproved, Genuine, SentVerifies
<1>10. ASSUME UNCHANGED vars
       PROVE  Inv'
  BY <1>10 DEF vars, TypeOK, ScreenIsDigest, SignedWasApproved, Genuine, SentVerifies,
     ExecutedWasApproved
<1>11. QED
  BY <1>1, <1>2, <1>3, <1>4, <1>5, <1>6, <1>7, <1>8, <1>9, <1>10 DEF Next

(* A pair that was sent, if its unsigned file is as constructed, carries   *)
(* an approval of exactly its action.                                      *)
LEMMA SentApproved == Inv => SentWasApproved
<1> SUFFICES ASSUME Inv, sent # Empty, AsConstructed(sent.unsigned)
             PROVE  /\ sent.unsigned.digest \in approved
                    /\ AcceptedBy(sent, sent.unsigned.seed)
  BY DEF SentWasApproved
<1>1. sent.signed # None /\ Verifies(sent.unsigned, sent.signed)
  BY DEF Inv, SentVerifies
<1>2. sent.unsigned.digest \in approved
  BY <1>1 DEF Inv, SignedWasApproved, Genuine, Verifies
<1>3. QED
  BY <1>1, <1>2 DEF AsConstructed, AcceptedBy, Verifies

(* The inductive invariant of the ceremony holds at every step. *)
THEOREM CeremonyInvariant == Spec => []Inv
BY InitInv, NextInv, PTL DEF Spec

(* Every file, screen and history is of its type. *)
THEOREM CeremonyTypeCorrect == Spec => []TypeOK
<1>1. Inv => TypeOK
  BY DEF Inv
<1>2. QED
  BY CeremonyInvariant, <1>1, PTL

(* What you see is what you sign (sign.ts:99-104): nothing is executed but *)
(* what was on the offline screen, wanted and approved, on the seed it was *)
(* shown for.                                                              *)
THEOREM WhatYouSeeIsWhatYouSign == Spec => []ExecutedWasApproved
<1>1. Inv => ExecutedWasApproved
  BY DEF Inv
<1>2. QED
  BY CeremonyInvariant, <1>1, PTL

(* No fee is risked on a mixed-up pair (broadcast.ts:84-95). *)
THEOREM NoMixedPairs == Spec => []SentWasApproved
BY CeremonyInvariant, SentApproved, PTL
=============================================================================
