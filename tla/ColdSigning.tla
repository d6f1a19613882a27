----------------------------- MODULE ColdSigning -----------------------------
(***************************************************************************)
(* The ceremony around the offline key: a construct command on the online  *)
(* machine writes unsigned-tx.json, the file is carried to the offline     *)
(* machine, `sign` shows what is in it and signs, signed-tx.json is        *)
(* carried back, and `broadcast` pairs the two files and sends.            *)
(*                                                                         *)
(* Both files have fixed names, so every command overwrites what the last  *)
(* one left, on whichever machine it runs; commands and carriers run at    *)
(* their own pace.  `sign` trusts nothing in its file: it may be anything  *)
(* that can be made from what is public.                                   *)
(*                                                                         *)
(* Seeds are epochs, numbered as they are entered: VectorProgram           *)
(* implements OneShot, so a seed is stored once and never comes back.      *)
(*                                                                         *)
(* An account that was closed is taken to be initialised again in the same *)
(* step: either way the seed is used up and another one follows.           *)
(***************************************************************************)
EXTENDS Naturals, Sequences

CONSTANTS
    Cold,           \* cold keys, each the authority of one account
    Execution,      \* sub-instruction lists
    Closing,        \* addresses to close to
    Wanted,         \* the actions the holder of the cold keys means to authorise
    None,           \* no file, or nothing under way
    MaxEpoch        \* bound: seeds of an account that files are made for

Body == Execution \union Closing

ASSUME WantedAssumption == Wanted \subseteq Body /\ MaxEpoch \in Nat

Seed == [cold : Cold, number : 0..MaxEpoch]

(* sha256 over a seed, the tag of the action and its body; here the body   *)
(* tells the action.                                                       *)
Digest == [seed : Seed, body : Body]

DigestOf(seed, body) == [seed |-> seed, body |-> body]

Action(body) == IF body \in Execution THEN "execute" ELSE "close"

(* unsigned-tx.json: coldAddress, seedBase64, the instructions or closeTo, *)
(* and digestBase64.                                                       *)
Unsigned == [cold : Cold, seed : Seed, body : Body, digest : Digest]

(* signed-tx.json; a signature is the key that made it and the message. *)
Signed == [cold : Cold, action : {"execute", "close"}, key : Cold, message : Digest]

VARIABLES
    stored,         \* the seed stored in each account
    online,         \* the two files in the online machine's directory
    offline,        \* the two files in the offline machine's directory
    signer,         \* a sign command between showing the action and "yes"
    sent,           \* the pair of files broadcast last sent as a transaction
    approved,       \* history: the digests of the actions on screen at each "yes"
    log             \* history: the actions executed, in order

vars == <<stored, online, offline, signer, sent, approved, log>>

Directory == [unsigned : Unsigned \union {None}, signed : Signed \union {None}]

Empty == [unsigned |-> None, signed |-> None]

Init ==
    /\ stored = [c \in Cold |-> [cold |-> c, number |-> 0]]
    /\ online = Empty
    /\ offline = Empty
    /\ signer = None
    /\ sent = Empty
    /\ approved = {}
    /\ log = <<>>

-----------------------------------------------------------------------------
(* The online machine, before signing.                                     *)

(* A construct command reads the stored seed, computes the digest and      *)
(* saves the file over the one that was there.                             *)
Construct(c, body) ==
    /\ stored[c].number < MaxEpoch
    /\ online' = [online EXCEPT !.unsigned =
                    [cold |-> c, seed |-> stored[c], body |-> body,
                     digest |-> DigestOf(stored[c], body)]]
    /\ UNCHANGED <<stored, offline, signer, sent, approved, log>>

(* What the file may hold if the machine that wrote it is not trusted: any *)
(* action, any seed ever stored, and a digest of any such, not just its    *)
(* own.                                                                    *)
Public(s) == s.number <= stored[s.cold].number /\ s.number < MaxEpoch

Rewrite(f) ==
    /\ online.unsigned # None
    /\ Public(f.seed) /\ Public(f.digest.seed)
    /\ online' = [online EXCEPT !.unsigned = f]
    /\ UNCHANGED <<stored, offline, signer, sent, approved, log>>

-----------------------------------------------------------------------------
(* The carriers.                                                           *)

CarryOver ==
    /\ online.unsigned # None
    /\ offline' = [offline EXCEPT !.unsigned = online.unsigned]
    /\ UNCHANGED <<stored, online, signer, sent, approved, log>>

CarryBack ==
    /\ offline.signed # None
    /\ online' = [online EXCEPT !.signed = offline.signed]
    /\ UNCHANGED <<stored, offline, signer, sent, approved, log>>

-----------------------------------------------------------------------------
(* The offline machine.                                                    *)

(* sign with key k: refuse a file of another authority, recompute the      *)
(* digest from the seed and the action in the file, refuse a file that     *)
(* claims another, and show the action.                                    *)
Show(k) ==
    LET f == offline.unsigned
    IN  /\ signer = None
        /\ f # None
        /\ f.cold = k
        /\ f.digest = DigestOf(f.seed, f.body)
        /\ signer' = [key |-> k, shown |-> f.body, expected |-> DigestOf(f.seed, f.body)]
        /\ UNCHANGED <<stored, online, offline, sent, approved, log>>

(* Mutant of Yes: the file is read again for the digest to sign. *)
YesRereads ==
    /\ signer # None
    /\ signer.shown \in Wanted
    /\ offline' = [offline EXCEPT !.signed =
                     [cold |-> signer.key, action |-> Action(signer.shown),
                      key |-> signer.key, message |-> offline.unsigned.digest]]
    /\ approved' = approved \union {signer.expected}
    /\ signer' = None
    /\ UNCHANGED <<stored, online, sent, log>>

(* Mutant of Yes: the answer is not waited for, so any answer signs. *)
YesUnawaited ==
    /\ signer # None
    /\ offline' = [offline EXCEPT !.signed =
                     [cold |-> signer.key, action |-> Action(signer.shown),
                      key |-> signer.key, message |-> signer.expected]]
    /\ approved' = approved \union {signer.expected}
    /\ signer' = None
    /\ UNCHANGED <<stored, online, sent, log>>

(* The holder of the key reads the screen and types "yes", which they do   *)
(* if it shows what they mean to authorise: the digest computed before     *)
(* showing is signed and saved, over the last signature there was.         *)
Yes ==
    /\ signer # None
    /\ signer.shown \in Wanted
    /\ offline' = [offline EXCEPT !.signed =
                     [cold |-> signer.key, action |-> Action(signer.shown),
                      key |-> signer.key, message |-> signer.expected]]
    /\ approved' = approved \union {signer.expected}
    /\ signer' = None
    /\ UNCHANGED <<stored, online, sent, log>>

(* Anything but "yes": nothing is signed, and an older signed-tx.json is   *)
(* still there.                                                            *)
No ==
    /\ signer # None
    /\ signer' = None
    /\ UNCHANGED <<stored, online, offline, sent, approved, log>>

-----------------------------------------------------------------------------
(* The online machine, after signing, and the chain.                       *)

(* Mutant of Verifies: any signature of the cold key will do. *)
VerifiesKey(u, s) == s.key = u.cold

(* nacl.sign.detached.verify over the digest in the unsigned file. *)
Verifies(u, s) == s.key = u.cold /\ s.message = u.digest

(* broadcast: the pair must be of one action and one authority and the     *)
(* signature must verify; what is sent is the action of the unsigned file  *)
(* with the signature of the signed one.                                   *)
Broadcast ==
    LET u == online.unsigned
        s == online.signed
    IN  /\ u # None /\ s # None
        /\ Action(u.body) = s.action
        /\ u.cold = s.cold
        /\ Verifies(u, s)
        /\ sent' = online
        /\ UNCHANGED <<stored, online, offline, signer, approved, log>>

(* The program computes the digest from its own seed and the action        *)
(* submitted, and wants it signed by the authority.                        *)
AcceptedBy(t, seed) ==
    t.signed.key = seed.cold /\ t.signed.message = DigestOf(seed, t.unsigned.body)

(* The transaction lands, now or after any number of other steps, and an   *)
(* accepted action changes the seed.                                       *)
Land ==
    /\ sent # Empty
    /\ LET c == sent.unsigned.cold
       IN  /\ stored[c].number < MaxEpoch
           /\ AcceptedBy(sent, stored[c])
           /\ stored' = [stored EXCEPT ![c].number = @ + 1]
           /\ log' = Append(log, DigestOf(stored[c], sent.unsigned.body))
    /\ UNCHANGED <<online, offline, signer, sent, approved>>

Next ==
    \/ \E c \in Cold, body \in Body : Construct(c, body)
    \/ \E f \in Unsigned : Rewrite(f)
    \/ CarryOver
    \/ \E k \in Cold : Show(k)
    \/ Yes
    \/ No
    \/ CarryBack
    \/ Broadcast
    \/ Land

Spec == Init /\ [][Next]_vars

-----------------------------------------------------------------------------
(* Nothing is executed but what the holder of the authority's key read on  *)
(* the offline screen, wanted and approved, on the very seed it was shown  *)
(* for, whatever the online machine put in the files, whatever overwrote   *)
(* what, and whichever pair was broadcast.  (sign.ts:99-104 "what you see  *)
(* is what you sign".)                                                     *)
ExecutedWasApproved ==
    \A i \in 1..Len(log) : log[i] \in approved /\ log[i].body \in Wanted

AsConstructed(u) == u.seed.cold = u.cold /\ u.digest = DigestOf(u.seed, u.body)

(* A fee is never risked on a mixed-up pair: if the unsigned file is as    *)
(* its construct command wrote it, broadcast sends it only with a          *)
(* signature given for exactly its action on exactly its seed, and not     *)
(* with the signature an earlier ceremony left behind.                     *)
(* (broadcast.ts:84-95 "before paying for a doomed tx".)                   *)
SentWasApproved ==
    sent # Empty =>
        LET u == sent.unsigned
        IN  AsConstructed(u) =>
                /\ u.digest \in approved
                /\ AcceptedBy(sent, u.seed)

(* Types of the files, the screen and the histories. *)
TypeOK ==
    /\ stored \in [Cold -> Seed]
    /\ online \in Directory
    /\ offline \in Directory
    /\ signer \in [key : Cold, shown : Body, expected : Digest] \union {None}
    /\ sent \in Directory
    /\ approved \subseteq [seed : Seed, body : Wanted]
    /\ log \in Seq(Digest)
=============================================================================
