--------------------------- MODULE EntriesProofs ---------------------------
(***************************************************************************)
(* Lemmas about the operators of module Entries: what verify_chain's       *)
(* acceptance means, and why one hash stands for a whole history.          *)
(***************************************************************************)
EXTENDS Entries, TLAPS, SequenceTheorems, WellFoundedInduction

(* None is a value of its own: no number, no set of keys, and none of the   *)
(* entries, signatures and hashes that build_entry makes.                   *)
NoneIsApart ==
  /\ None \notin Nat /\ None \notin SUBSET Key
  /\ \A e, keys : IsBuilt(e, keys) => e # None /\ e.signature # None /\ e.hash # None

(* A nonempty set of positions has a last one. *)
LEMMA LastPosition ==
  ASSUME NEW n \in Nat, NEW S \in SUBSET (1 .. n), S # {}
  PROVE  \E m \in S : \A i \in S : i =< m
<1> DEFINE T == {n - i : i \in S}
<1>1. T \in SUBSET Nat /\ T # {}
  <2>1. ASSUME NEW i \in S PROVE n - i \in Nat
    BY SMT
  <2>2. T \subseteq Nat
    BY <2>1
  <2>3. PICK i \in S : TRUE
    OBVIOUS
  <2>4. n - i \in T
    OBVIOUS
  <2> QED BY <2>2, <2>4
<1>2. PICK x \in T : \A y \in T : ~ (<<y, x>> \in OpToRel(<, Nat))
  <2> HIDE DEF T
  <2> QED BY <1>1, NatLessThanWellFounded, WFMin
<1>3. \A y \in T : ~(y < x)
  BY <1>1, <1>2 DEF OpToRel
<1>4. PICK m \in S : x = n - m
  OBVIOUS
<1>5. ASSUME NEW i \in S PROVE i =< m
  <2>1. ~(n - i < n - m)
    BY <1>3, <1>4
  <2> HIDE DEF T
  <2>2. i \in Int /\ m \in Int
    OBVIOUS
  <2> QED BY <2>1, <2>2
<1> QED BY <1>5

(* A nonempty set of positions has a first one. *)
LEMMA FirstPosition ==
  ASSUME NEW S \in SUBSET Nat, S # {}
  PROVE  \E m \in S : \A i \in S : m =< i
<1>1. PICK m \in S : \A i \in S : ~ (<<i, m>> \in OpToRel(<, Nat))
  BY NatLessThanWellFounded, WFMin
<1>2. \A i \in S : ~(i < m)
  BY <1>1 DEF OpToRel
<1> QED BY <1>2

(* A text as b64encode writes it decodes to what it was made of. *)
LEMMA Decoding ==
  ASSUME NEW bytes
  PROVE  ~Undecodable(b64(bytes)) /\ unb64(b64(bytes)) = bytes
BY DEF Undecodable, unb64, b64

(* A key as it is pinned is read as the key. *)
LEMMA KeyDecoding ==
  ASSUME NEW key \in Key
  PROVE  /\ ~Unhashable(key) /\ ~Undecodable(KeyText(key))
         /\ unb64(KeyText(key)) = key
<1>1. KeyText(key) = b64(key) /\ KeyText(key).writing = "standard"
  BY DEF KeyText, b64
<1> QED BY <1>1, Decoding DEF Unhashable

(* A number is compared as what it is. *)
LEMMA IndexOfNumber ==
  ASSUME NEW n \in Nat PROVE index(n) = n
<1>1. n # True /\ n # False
  BY BooleanAssumption
<1> QED BY <1>1 DEF index

(* A digest determines every field it was taken over. *)
LEMMA HashIsInjective ==
  ASSUME NEW d, NEW e, Recomputed(d) = Recomputed(e)
  PROVE  /\ d.seq = e.seq /\ d.timestamp = e.timestamp /\ d.actor = e.actor
         /\ d.body = e.body /\ d.prev_hash = e.prev_hash
BY DEF Recomputed, entry_hash

(* A list as verify_chain follows it: true passes for 1. *)
LinkedAsRead(entries) ==
  \A i \in DOMAIN entries :
    /\ index(entries[i].seq) = i - 1
    /\ entries[i].prev_hash = IF i = 1 THEN None ELSE entries[i - 1].hash
    /\ entries[i].hash = Recomputed(entries[i])

LEMMA LinkedIsRead ==
  ASSUME NEW s, DOMAIN s \subseteq Nat \ {0}, Linked(s) PROVE LinkedAsRead(s)
<1>1. ASSUME NEW i \in DOMAIN s PROVE index(s[i].seq) = i - 1
  <2>1. s[i].seq = i - 1 /\ i - 1 \in Nat
    BY DEF Linked
  <2> QED BY <2>1, IndexOfNumber
<1> QED BY <1>1 DEF Linked, LinkedAsRead

(* Two lists, one of them as it was written, that share a hash at some      *)
(* position say the same up to there: the hash covers the link, the link    *)
(* the entry before.                                                        *)
LEMMA OneHashOneHistory ==
  ASSUME NEW s, NEW u, NEW n \in Nat, NEW m \in Nat,
         1 .. n \subseteq DOMAIN s, 1 .. m \subseteq DOMAIN u,
         n # 0, m # 0, LinkedAsRead(s), Linked(u), s[n].hash = u[m].hash
  PROVE  n = m /\ \A i \in 1 .. n : Said(s[i]) = Said(u[i])
<1>1. n = m
  <2>1. index(s[n].seq) = n - 1 /\ u[m].seq = m - 1 /\ m - 1 \in Nat
    BY DEF Linked, LinkedAsRead
  <2>2. Recomputed(s[n]) = Recomputed(u[m])
    BY DEF Linked, LinkedAsRead
  <2>3. s[n].seq = u[m].seq
    BY <2>2, HashIsInjective
  <2>4. index(m - 1) = m - 1
    BY <2>1, IndexOfNumber
  <2> QED BY <2>1, <2>3, <2>4
<1> DEFINE Bad == {i \in 1 .. n : s[i].hash # u[i].hash}
<1>2. Bad = {}
  <2> SUFFICES ASSUME Bad # {} PROVE FALSE
    OBVIOUS
  <2>1. Bad \in SUBSET (1 .. n)
    OBVIOUS
  <2>2. PICK b \in Bad : \A i \in Bad : i =< b
    <3> HIDE DEF Bad
    <3> QED BY <2>1, LastPosition
  <2>3. b \in 1 .. n /\ b # n /\ b + 1 \in 1 .. n /\ b + 1 \notin Bad
    BY <1>1, <2>2
  <2>4. s[b + 1].hash = u[b + 1].hash
    BY <2>3
  <2>5. /\ s[b + 1].hash = Recomputed(s[b + 1]) /\ s[b + 1].prev_hash = s[b].hash
        /\ u[b + 1].hash = Recomputed(u[b + 1]) /\ u[b + 1].prev_hash = u[b].hash
    BY <1>1, <2>3 DEF Linked, LinkedAsRead
  <2>6. s[b + 1].prev_hash = u[b + 1].prev_hash
    <3>1. Recomputed(s[b + 1]) = Recomputed(u[b + 1])
      BY <2>4, <2>5
    <3> QED BY <3>1, HashIsInjective
  <2>7. s[b].hash = u[b].hash
    BY <2>5, <2>6
  <2> QED BY <2>2, <2>7
<1>3. ASSUME NEW i \in 1 .. n PROVE Said(s[i]) = Said(u[i])
  <2>1. s[i].hash = u[i].hash
    BY <1>2
  <2>2. s[i].hash = Recomputed(s[i]) /\ u[i].hash = Recomputed(u[i])
    BY <1>1 DEF Linked, LinkedAsRead
  <2>3. Recomputed(s[i]) = Recomputed(u[i])
    BY <2>1, <2>2
  <2>4. /\ s[i].seq = u[i].seq /\ s[i].timestamp = u[i].timestamp
        /\ s[i].actor = u[i].actor /\ s[i].body = u[i].body
        /\ s[i].prev_hash = u[i].prev_hash
    BY <2>3, HashIsInjective
  <2> QED BY <2>1, <2>4 DEF Said
<1> QED BY <1>1, <1>3

(* What verify_chain's acceptance of a nonempty list means. *)
LEMMA AcceptedMeans ==
  ASSUME NEW s, NEW o, IsList(s), s # <<>>, verify_chain(s, o).valid
  PROVE  /\ ~FailsClosed(o)
         /\ LinkedAsRead(s)
         /\ \A i \in DOMAIN s :
              /\ s[i] # None /\ s[i].signature # None
              /\ o.trusted # None => s[i].signature.public_key \in o.trusted
              /\ ~Undecodable(s[i].signature.value)
              /\ unb64(s[i].signature.value)
                   = sign(s[i].hash, unb64(KeyText(s[i].signature.public_key)))
         /\ o.head # None => s[Len(s)].hash = o.head
<1>1. ~FailsClosed(o) /\ Broken(s, o) = {} /\ ~HeadMismatch(s, o)
  BY DEF verify_chain, _result
<1>2. ASSUME NEW i \in DOMAIN s
      PROVE  Defect(s[i], i - 1, Before(s, i), o) = "none"
  BY <1>1 DEF Broken
<1>3. ASSUME NEW i \in DOMAIN s
      PROVE  /\ s[i] # None /\ index(s[i].seq) = i - 1
             /\ s[i].prev_hash = Before(s, i).hash
             /\ OwnDefect(s[i], Before(s, i), o) = "none"
  BY <1>2 DEF Defect, IsObject
<1>4. ASSUME NEW i \in DOMAIN s
      PROVE  /\ s[i].hash = Recomputed(s[i])
             /\ s[i].signature # None
             /\ o.trusted # None => s[i].signature.public_key \in o.trusted
             /\ ~Undecodable(s[i].signature.value)
             /\ unb64(s[i].signature.value)
                  = sign(s[i].hash, unb64(KeyText(s[i].signature.public_key)))
  BY <1>3 DEF OwnDefect, verify
<1>5. LinkedAsRead(s)
  <2>1. ASSUME NEW i \in DOMAIN s
        PROVE  s[i].prev_hash = IF i = 1 THEN None ELSE s[i - 1].hash
    <3>1. CASE i = 1
      BY <1>3, <3>1 DEF Before
    <3>2. CASE i # 1
      <4>1. i - 1 \in DOMAIN s
        BY <3>2 DEF IsList
      <4> QED BY <1>3, <3>2, <4>1 DEF Before, IsObject
    <3> QED BY <3>1, <3>2
  <2> QED BY <1>3, <1>4, <2>1 DEF LinkedAsRead
<1>6. o.head # None => s[Len(s)].hash = o.head
  BY <1>1 DEF HeadMismatch, head_hash
<1> QED BY <1>1, <1>3, <1>4, <1>5, <1>6

(* What a written entry carries passes the checks of its own. *)
LEMMA OwnChecksPass ==
  ASSUME NEW e, NEW prev, NEW o, ~o.monotonic, e.body \in Canonical,
         Recomputed(e) = e.hash, e.signature # None,
         e.signature.public_key \in Key,
         o.trusted # None => e.signature.public_key \in o.trusted,
         ~Undecodable(e.signature.value),
         unb64(e.signature.value) = sign(e.hash, e.signature.public_key)
  PROVE  OwnDefect(e, prev, o) = "none"
BY KeyDecoding DEF OwnDefect, verify

(* The check of an entry depends on it and on what precedes it only. *)
LEMMA BrokenSoFar ==
  ASSUME NEW s, IsList(s), NEW n \in DOMAIN s, NEW o
  PROVE  LET p == SubSeq(s, 1, n) IN
         /\ p # <<>> /\ Len(p) = n
         /\ Broken(p, o) = Broken(s, o) \cap (1 .. n)
         /\ \A i \in 1 .. n : Defect(p[i], i - 1, Before(p, i), o)
                             = Defect(s[i], i - 1, Before(s, i), o)
<1> DEFINE p == SubSeq(s, 1, n)
<1>1. s \in Seq(Elements(s)) /\ DOMAIN s = 1 .. Len(s) /\ Len(s) \in Nat
  BY DEF IsList
<1>2. /\ Len(p) = n /\ DOMAIN p = 1 .. n /\ n \in 1 .. Len(s)
      /\ \A i \in 1 .. n : p[i] = s[i]
  BY <1>1
<1>3. p # <<>>
  BY <1>2
<1> HIDE DEF p
<1>4. ASSUME NEW i \in 1 .. n PROVE p[i] = s[i] /\ Before(p, i) = Before(s, i)
  <2>1. i # 1 => i - 1 \in 1 .. n
    BY <1>2
  <2> QED BY <1>2, <2>1 DEF Before
<1>5. Broken(p, o) = Broken(s, o) \cap (1 .. n)
  <2>1. 1 .. n \subseteq DOMAIN s
    BY <1>1, <1>2
  <2> QED BY <1>2, <1>4, <2>1 DEF Broken
<1> QED BY <1>2, <1>3, <1>4, <1>5 DEF p

LEMMA StartIsList ==
  ASSUME NEW s, IsList(s), NEW n \in 0 .. Len(s)
  PROVE  LET p == SubSeq(s, 1, n) IN
         /\ IsList(p) /\ Len(p) = n /\ DOMAIN p = 1 .. n
         /\ \A i \in 1 .. n : p[i] = s[i]
<1> DEFINE p == SubSeq(s, 1, n)
<1>1. s \in Seq(Elements(s)) /\ Len(s) \in Nat
  BY DEF IsList
<1>2. p \in Seq(Elements(s)) /\ Len(p) = n /\ DOMAIN p = 1 .. n /\ \A i \in 1 .. n : p[i] = s[i]
  BY <1>1
<1> HIDE DEF p
<1>3. \A i \in 1 .. n : p[i] \in Elements(p)
  BY <1>2 DEF Elements
<1>4. p \in [1 .. n -> Elements(p)]
  BY <1>2, <1>3
<1>5. IsList(p)
  BY <1>1, <1>4, SeqDef DEF IsList
<1> QED BY <1>2, <1>5 DEF p

(* The fields of a verdict. *)
LEMMA ResultFields ==
  ASSUME NEW valid, NEW length, NEW broken_at, NEW reason,
         NEW v, v = _result(valid, length, broken_at, reason)
  PROVE  /\ v.valid = valid /\ v.length = length
         /\ v.broken_at = broken_at /\ v.reason = reason
BY DEF _result

LEMMA ResultOfLength ==
  ASSUME NEW valid, NEW m, NEW n, NEW broken_at, NEW reason
  PROVE  \A v : v = _result(valid, m, broken_at, reason)
               => _result(valid, n, broken_at, reason) = [v EXCEPT !.length = n]
BY DEF _result

(* verify_chain reports the first entry whose check fails. *)
LEMMA FirstDefectIsReported ==
  ASSUME NEW s, IsList(s), NEW o, ~FailsClosed(o), NEW n \in DOMAIN s,
         \A m \in 1 .. n - 1 : Defect(s[m], m - 1, Before(s, m), o) = "none",
         Defect(s[n], n - 1, Before(s, n), o) # "none"
  PROVE  verify_chain(s, o)
           = _result(FALSE, Len(s), n - 1, Defect(s[n], n - 1, Before(s, n), o))
<1>1. DOMAIN s = 1 .. Len(s) /\ Len(s) \in Nat /\ s # <<>>
  <2>1. s \in Seq(Elements(s))
    BY DEF IsList
  <2> QED BY <2>1
<1>2. Broken(s, o) \in SUBSET (1 .. Len(s)) /\ n \in Broken(s, o)
  BY <1>1 DEF Broken
<1>3. \A m \in Broken(s, o) : n =< m
  <2> SUFFICES ASSUME NEW m \in Broken(s, o), m < n PROVE FALSE
    BY <1>1, <1>2
  <2>1. m \in 1 .. n - 1
    BY <1>1, <1>2
  <2> QED BY <2>1 DEF Broken
<1>4. FirstBroken(s, o) = n
  <2>1. \A m \in Broken(s, o) : (\A j \in Broken(s, o) : m =< j) => m = n
    BY <1>1, <1>2, <1>3
  <2> QED BY <1>2, <1>3, <2>1 DEF FirstBroken
<1>5. Broken(s, o) # {}
  BY <1>2
<1> QED BY <1>1, <1>4, <1>5 DEF verify_chain

(* Where every check passes, the verdict is about the head alone.           *)
LEMMA HeadDecides ==
  ASSUME NEW s, IsList(s), s # <<>>, NEW o, ~FailsClosed(o), Broken(s, o) = {}
  PROVE  verify_chain(s, o) =
           IF o.head # None /\ s[Len(s)].hash # o.head
           THEN _result(FALSE, Len(s), Len(s) - 1, "head hash does not match")
           ELSE _result(TRUE, Len(s), None, "chain intact")
BY DEF verify_chain, HeadMismatch, head_hash
=============================================================================
