------------------------------ MODULE Evidence ------------------------------
(***************************************************************************)
(* An exported trail in the hands of someone who can edit it but does not  *)
(* hold the signing keys, and what verify_chain then says of it.           *)
(*                                                                         *)
(* The trails grow, fork and roll back as in module Trails.  A pack is a   *)
(* copy of any list a Chain ever held; it is then edited, one change at a  *)
(* time: a field altered, the hash recomputed, a signature replaced,       *)
(* dropped, moved or written in another way, an entry deleted, inserted,   *)
(* swapped, or replaced by something that is no entry at all.              *)
(***************************************************************************)
EXTENDS Trails, SequencesExt

CONSTANTS
  MaxLen,       \* bound: entries in a trail
  MaxHeld,      \* bound: different lists over all trails
  MaxCopied,    \* bound: different lists up to the moment a pack is copied
  MaxEdits,     \* bound: changes made to a pack
  Writing       \* bound: ways of writing a signature or a key that are tried

ASSUME EvidenceBounds ==
  /\ MaxLen \in Nat /\ MaxHeld \in Nat \ {0} /\ MaxCopied \in Nat
  /\ MaxEdits \in Nat /\ "standard" \notin Writing

VARIABLES
  pack,         \* the list of entries under audit
  edits         \* how many changes were made to it

evars == <<trails, held, pack, edits>>

Outsider == Key \ Writers

EvidenceInit == Init /\ pack = <<>> /\ edits = 0

(* The trails move on; once a pack is being edited they no longer matter,   *)
(* since the pack could have been copied later.                             *)
LogStep ==
  /\ Next
  /\ edits = 0 /\ pack = <<>>
  /\ Cardinality(held') =< MaxHeld
  /\ \A h \in Handle : Len(trails'[h]) =< MaxLen
  /\ UNCHANGED <<pack, edits>>

Copy ==
  /\ edits = 0 /\ pack = <<>>
  /\ Cardinality(held) =< MaxCopied
  /\ pack' \in held \ {<<>>}
  /\ UNCHANGED <<trails, held, edits>>

Edit(new) ==
  /\ edits < MaxEdits
  /\ edits' = edits + 1
  /\ pack' = new
  /\ UNCHANGED <<trails, held>>

Put(i, e) == Edit([pack EXCEPT ![i] = e])

(* One field changed, everything else left as it was. *)
Altered(e) ==
  UNION {{[e EXCEPT !.version = "witnesskit/v1"]},
         {[e EXCEPT !.seq = n] : n \in (0..MaxLen) \cup {True, False}},
         {[e EXCEPT !.timestamp = ts] : ts \in Time \cup {None, True, False}},
         {[e EXCEPT !.actor = None]},
         {[e EXCEPT !.body = b] : b \in Body},
         {[e EXCEPT !.prev_hash = hash] : hash \in {d.hash : d \in Issued} \cup {None}},
         {[e EXCEPT !.hash = hash] : hash \in {d.hash : d \in Issued} \cup {None}}}

Alter ==
  \E i \in DOMAIN pack :
    pack[i] # None /\ \E e \in Altered(pack[i]) : Put(i, e)

(* The hash made to match the altered content. *)
Rehash ==
  \E i \in DOMAIN pack :
    pack[i] # None /\ Put(i, [pack[i] EXCEPT !.hash = Recomputed(pack[i])])

(* A signature of an outsider or junk, under any public key, or no          *)
(* signature at all.                                                        *)
Signatures(hash) ==
  [public_key : Key, value : {b64(sign(hash, k)) : k \in Outsider} \cup {b64(Junk)}]
  \cup {None}

Resign ==
  \E i \in DOMAIN pack :
    pack[i] # None /\ \E sig \in Signatures(pack[i].hash) :
      Put(i, [pack[i] EXCEPT !.signature = sig])

(* The signature of another entry. *)
MoveSignature ==
  \E i \in DOMAIN pack, d \in Issued :
    pack[i] # None /\ Put(i, [pack[i] EXCEPT !.signature = d.signature])

(* The same signature or key written in another way. *)
Reencode ==
  \E i \in DOMAIN pack, writing \in Writing :
    /\ pack[i] # None /\ pack[i].signature # None
    /\ \/ Put(i, [pack[i] EXCEPT !.signature.value.writing = writing])
       \/ Put(i, [pack[i] EXCEPT !.signature.public_key =
                                   [KeyText(@) EXCEPT !.writing = writing]])

(* Altered content, rehashed and signed by an outsider. *)
Forge ==
  \E i \in DOMAIN pack, body \in Canonical, key \in Outsider :
    pack[i] # None /\ LET e == pack[i] IN
      Put(i, build_entry(e.seq, e.timestamp, e.actor, body, e.prev_hash, key))

Delete == \E i \in DOMAIN pack : Edit(RemoveAt(pack, i))

Insert ==
  \E i \in 1 .. Len(pack) + 1, e \in Issued \cup {None} :
    Len(pack) < MaxLen /\ Edit(InsertAt(pack, i, e))

(* An entry exchanged for another, or for something that is no entry.       *)
Replace ==
  \E i \in DOMAIN pack, e \in Issued \cup {None} : Put(i, e)

Swap ==
  \E i, j \in DOMAIN pack :
    i < j /\ Edit([pack EXCEPT ![i] = pack[j], ![j] = pack[i]])

Annotate ==
  \E i \in DOMAIN pack : pack[i] # None /\ Put(i, [pack[i] EXCEPT !.extra = "note"])

Tamper ==
  \/ Alter \/ Rehash \/ Resign \/ MoveSignature \/ Reencode \/ Forge
  \/ Delete \/ Insert \/ Replace \/ Swap \/ Annotate

EvidenceNext == LogStep \/ Copy \/ Tamper

EvidenceSpec == EvidenceInit /\ [][EvidenceNext]_evars

-----------------------------------------------------------------------------
Auditor(monotonic, head) == Options(Writers, FALSE, monotonic, head)

(* Types, of what the audit reads. *)
EvidenceTypeOK ==
  /\ edits \in 0 .. MaxEdits
  /\ DOMAIN trails = Handle /\ \A h \in Handle : trails[h] \in held
  /\ Cardinality(held) =< MaxHeld
  /\ \A e \in Issued : e.seq \in 0 .. MaxLen - 1 /\ e.signature.public_key \in Writers

(* A pack that verify_chain accepts under pinned keys says, entry by entry, *)
(* what some Chain once held: nothing altered, inserted, reordered or       *)
(* spliced from two forks; at most the end is missing.                      *)
AcceptedWasHeld ==
  verify_chain(pack, Auditor(FALSE, None)).valid =>
    \E s \in held : Content(pack) = Content(s)

(* Under an anchored head the end cannot be missing either: whatever the    *)
(* pack is, if it satisfies the head of a list a Chain held, it says what   *)
(* that list says.                                                          *)
AnchoredIsComplete ==
  \A s \in held :
    head_hash(s) # None /\ verify_chain(pack, Auditor(FALSE, head_hash(s))).valid =>
      Content(pack) = Content(s)

(* An entry without the keys that no code reads, and with its signature as  *)
(* the text that decodes to the same bytes.                                 *)
AsRead(sig) ==
  IF sig = None \/ Undecodable(sig.value) THEN sig
  ELSE [sig EXCEPT !.value = b64(unb64(@))]
Bare(e) ==
  IF e = None THEN None
  ELSE [e EXCEPT !.extra = None, !.signature = AsRead(@)]

(* The first n entries of the pack are those of a list some Chain held. *)
Untouched(n) ==
  \E s \in held : Len(s) = n /\ \A i \in 1..n : Bare(pack[i]) = s[i]

(* "detected and located": with one signing key, the verdict names the      *)
(* first entry that is not as it was signed in its place, and is valid if   *)
(* there is none.                                                           *)
TamperIsLocated ==
  LET verdict == verify_chain(pack, Auditor(FALSE, None))
      touched == {n \in 1 .. Len(pack) : ~Untouched(n)}
  IN  /\ verdict.valid <=> touched = {}
      /\ touched # {} => /\ verdict.broken_at + 1 \in touched
                         /\ \A n \in touched : verdict.broken_at + 1 =< n
=============================================================================
