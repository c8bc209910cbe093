--------------------------- MODULE EvidenceProofs ---------------------------
(***************************************************************************)
(* Trails and packs, for every number of trails, keys, entries and edits:  *)
(* the history of append-only trails is a tree of linked lists, a head     *)
(* hash names one node of it, and verify_chain's acceptance proves that a  *)
(* pack is one of them. Then packs whose entries lack keys, and the two    *)
(* ports of verify_chain, which give one verdict on them.                  *)
(***************************************************************************)
EXTENDS VerifyPorts, EntriesProofs, FiniteSetTheorems

(* Trails                                                                   *)

(* A list grown by the entry its Chain writes next keeps every part of      *)
(* HistoryOK.                                                               *)
LEMMA GrownList ==
  ASSUME NEW s, IsList(s), Linked(s), \A e \in Elements(s) : IsWritten(e),
         NEW body \in Appendable, NEW timestamp \in Time, NEW key \in Writers,
         NEW e, e = build_entry(Len(s), timestamp, Actor, body, head_hash(s), key)
  PROVE  LET u == Append(s, e) IN
         /\ IsList(u) /\ Linked(u) /\ \A d \in Elements(u) : IsWritten(d)
         /\ Len(u) = Len(s) + 1
         /\ SubSeq(u, 1, Len(u)) = u
         /\ \A n \in 1 .. Len(s) : SubSeq(u, 1, n) = SubSeq(s, 1, n)
<1> DEFINE u == Append(s, e)
           S == Elements(s) \cup {e}
<1>1. s \in Seq(S) /\ e \in S /\ Len(s) \in Nat /\ DOMAIN s = 1 .. Len(s)
  BY DEF IsList
<1>2. /\ u \in Seq(S) /\ Len(u) = Len(s) + 1 /\ DOMAIN u = 1 .. Len(u)
      /\ u[Len(u)] = e
      /\ \A i \in 1 .. Len(s) : u[i] = s[i]
  <2> HIDE DEF S
  <2> QED BY <1>1, AppendProperties
<1>3. Elements(u) \subseteq S
  BY <1>1, <1>2 DEF Elements
<1>4. IsList(u)
  <2>1. \A i \in DOMAIN u : u[i] \in Elements(u)
    BY DEF Elements
  <2> HIDE DEF S, u
  <2> QED BY <1>2, <2>1, SeqDef DEF IsList
<1>5. IsWritten(e)
  BY DEF IsWritten, IsBuilt, build_entry
<1>6. \A d \in Elements(u) : IsWritten(d)
  BY <1>3, <1>5
<1>7. Linked(u)
  <2>1. e.seq = Len(s) /\ e.prev_hash = head_hash(s) /\ e.hash = Recomputed(e)
    BY DEF build_entry, Recomputed
  <2>2. Len(s) # 0 => head_hash(s) = s[Len(s)].hash
    BY <1>1 DEF head_hash
  <2>3. Len(s) = 0 => head_hash(s) = None
    BY <1>1 DEF head_hash
  <2> HIDE DEF u
  <2>4. ASSUME NEW i \in DOMAIN u
        PROVE  /\ u[i].seq = i - 1
               /\ u[i].prev_hash = IF i = 1 THEN None ELSE u[i - 1].hash
               /\ u[i].hash = Recomputed(u[i])
    <3>1. CASE i = Len(u)
      BY <1>1, <1>2, <2>1, <2>2, <2>3, <3>1
    <3>2. CASE i # Len(u)
      <4>1. i \in 1 .. Len(s) /\ (i # 1 => i - 1 \in 1 .. Len(s))
        BY <1>1, <1>2, <3>2
      <4> QED BY <1>1, <1>2, <4>1 DEF Linked
    <3> QED BY <3>1, <3>2
  <2> QED BY <2>4 DEF Linked
<1>8. SubSeq(u, 1, Len(u)) = u
  BY <1>1, <1>2
<1>9. ASSUME NEW n \in 1 .. Len(s) PROVE SubSeq(u, 1, n) = SubSeq(s, 1, n)
  BY <1>1, <1>2
<1> QED BY <1>2, <1>4, <1>6, <1>7, <1>8, <1>9

LEMMA HistoryInit == Init => HistoryOK
<1> SUFFICES ASSUME Init PROVE HistoryOK
  OBVIOUS
<1>1. held = {<<>>} /\ trails \in [Handle -> held]
  BY DEF Init
<1>2. Elements(<<>>) = {} /\ IsList(<<>>) /\ Linked(<<>>)
  BY DEF Elements, IsList, Linked
<1>3. 1 .. Len(<<>>) = {}
  OBVIOUS
<1> QED BY <1>1, <1>2, <1>3 DEF HistoryOK

LEMMA HistoryStep == HistoryOK /\ [Next]_vars => HistoryOK'
<1> SUFFICES ASSUME HistoryOK, [Next]_vars PROVE HistoryOK'
  OBVIOUS
<1>1. ASSUME NEW h \in Handle, Extend(h) PROVE HistoryOK'
  <2> DEFINE s == trails[h]
  <2>1. PICK body \in Appendable, timestamp \in Time :
          /\ KeyOf[h] \in Key
          /\ trails' = [trails EXCEPT ![h] = Append(s, Next_entry(h, body, timestamp))]
          /\ held' = held \cup {Append(s, Next_entry(h, body, timestamp))}
    BY <1>1 DEF Extend
  <2> DEFINE e == Next_entry(h, body, timestamp)
             u == Append(s, e)
  <2>2. /\ s \in held /\ IsList(s) /\ Linked(s)
        /\ \A d \in Elements(s) : IsWritten(d)
        /\ \A n \in 1 .. Len(s) : SubSeq(s, 1, n) \in held
    BY DEF HistoryOK
  <2>3. KeyOf[h] \in Writers
    BY <2>1, KeyAssumption DEF Writers
  <2>4. e = build_entry(Len(s), timestamp, Actor, body, head_hash(s), KeyOf[h])
    BY DEF Next_entry
  <2> HIDE DEF e
  <2>5. /\ IsList(u) /\ Linked(u) /\ \A d \in Elements(u) : IsWritten(d)
        /\ Len(u) = Len(s) + 1
        /\ SubSeq(u, 1, Len(u)) = u
        /\ \A n \in 1 .. Len(s) : SubSeq(u, 1, n) = SubSeq(s, 1, n)
    <3> HIDE DEF s
    <3> QED BY <2>2, <2>3, <2>4, GrownList
  <2>6. ASSUME NEW n \in 1 .. Len(u) PROVE SubSeq(u, 1, n) \in held \cup {u}
    <3>1. Len(s) \in Nat
      BY <2>2 DEF IsList
    <3>2. CASE n = Len(u)
      BY <2>5, <3>2
    <3>3. CASE n # Len(u)
      <4>1. n \in 1 .. Len(s)
        BY <2>5, <3>1, <3>3
      <4> QED BY <2>2, <2>5, <4>1
    <3> QED BY <3>2, <3>3
  <2>7. held' = held \cup {u} /\ trails' = [trails EXCEPT ![h] = u]
    BY <2>1 DEF e
  <2> HIDE DEF s, u
  <2>8. trails' \in [Handle -> held']
    BY <2>7 DEF HistoryOK
  <2>9. \A d : IsWritten(d)' <=> IsWritten(d)
    BY DEF IsWritten, IsBuilt, Writers
  <2> QED BY <2>5, <2>6, <2>7, <2>8, <2>9 DEF HistoryOK
<1>2. ASSUME NEW h \in Handle, Reopen(h) PROVE HistoryOK'
  BY <1>2 DEF Reopen, HistoryOK, IsWritten, Writers
<1>3. CASE UNCHANGED vars
  BY <1>3 DEF vars, HistoryOK, IsWritten, Writers
<1> QED BY <1>1, <1>2, <1>3 DEF Next

(* In a well-formed history a head hash stands for one list.                *)
LEMMA HeadsAreUnique == HistoryOK => HeadCommits
<1> SUFFICES ASSUME HistoryOK, NEW s \in held \ {<<>>}, NEW u \in held \ {<<>>},
                    head_hash(s) = head_hash(u)
             PROVE  Content(s) = Content(u)
  BY DEF HeadCommits
<1>1. /\ Linked(s) /\ Len(s) \in Nat \ {0} /\ DOMAIN s = 1 .. Len(s)
      /\ Linked(u) /\ Len(u) \in Nat \ {0} /\ DOMAIN u = 1 .. Len(u)
  <2>1. s \in Seq(Elements(s)) /\ u \in Seq(Elements(u)) /\ s # <<>> /\ u # <<>>
    BY DEF HistoryOK, IsList
  <2> QED BY <2>1, EmptySeq DEF HistoryOK
<1>2. s[Len(s)].hash = u[Len(u)].hash
  BY DEF head_hash
<1>3. Len(s) = Len(u) /\ \A i \in 1 .. Len(s) : Said(s[i]) = Said(u[i])
  <2>1. LinkedAsRead(s)
    BY <1>1, LinkedIsRead
  <2> QED BY <1>1, <1>2, <2>1, OneHashOneHistory
<1> QED BY <1>1, <1>3 DEF Content

(* Every list a Chain ever holds is linked and signed, and so is every      *)
(* start of it: appends, restarts and forks build a tree.                   *)
THEOREM HistoryInvariant == Spec => []HistoryOK
<1> QED BY HistoryInit, HistoryStep, PTL DEF Spec

(* The head hash of a trail commits to everything the trail says            *)
(* (entry_hash covers the link), for any number of Chains and forks.        *)
THEOREM HeadHashCommits == Spec => []HeadCommits
<1> QED BY HistoryInvariant, HeadsAreUnique, PTL

-----------------------------------------------------------------------------
(* The pack                                                                 *)

IsSignature(sig) ==
  sig = [public_key |-> sig.public_key,
         value |-> [writing |-> sig.value.writing, bytes |-> sig.value.bytes]]

(* Nobody but the writers signs for the writers: a writer's signature in a  *)
(* pack, wherever it was moved and however it is written, is one of the     *)
(* history's.                                                               *)
Unforged(e) ==
  /\ e = [version |-> e.version, seq |-> e.seq, timestamp |-> e.timestamp,
          actor |-> e.actor, body |-> e.body, prev_hash |-> e.prev_hash,
          hash |-> e.hash, signature |-> e.signature, extra |-> e.extra]
  /\ e.signature # None =>
       /\ IsSignature(e.signature)
       /\ e.signature.value.bytes.by \in Writers =>
            e.signature.value.bytes.signed \in {d.hash : d \in Issued}

PackOK ==
  /\ IsList(pack)
  /\ \A e \in Elements(pack) : e # None => Unforged(e)

(* The inductive invariant: the history is a tree of signed lists, and the  *)
(* pack holds no signature of a writer that the history does not.           *)
IInv == HistoryOK /\ PackOK

-----------------------------------------------------------------------------
(* Elements of a pack                                                       *)

Harmless(e) == e # None => Unforged(e)

LEMMA HarmlessList ==
  ASSUME NEW S, NEW new \in Seq(S), \A e \in S : Harmless(e)
  PROVE  IsList(new) /\ \A e \in Elements(new) : Harmless(e)
<1>1. DOMAIN new = 1 .. Len(new) /\ Len(new) \in Nat /\ \A i \in 1 .. Len(new) : new[i] \in S
  BY LenProperties, ElementOfSeq
<1>2. \A e \in Elements(new) : e \in S
  BY <1>1 DEF Elements
<1>3. \A i \in 1 .. Len(new) : new[i] \in Elements(new)
  BY <1>1 DEF Elements
<1>4. new \in [1 .. Len(new) -> S]
  BY LenProperties
<1>5. new \in [1 .. Len(new) -> Elements(new)]
  BY <1>3, <1>4
<1>6. IsList(new)
  BY <1>1, <1>5, SeqDef DEF IsList
<1> QED BY <1>2, <1>6

(* An edit that brings in at most one new, harmless element.               *)
LEMMA EditKeeps ==
  ASSUME PackOK, NEW x, Harmless(x),
         NEW new \in Seq(Elements(pack) \cup {x}), Edit(new)
  PROVE  PackOK'
<1>1. \A e \in Elements(pack) \cup {x} : Harmless(e)
  BY DEF PackOK, Harmless
<1>2. IsList(new) /\ \A e \in Elements(new) : Harmless(e)
  BY <1>1, HarmlessList
<1>3. pack' = new /\ held' = held
  BY DEF Edit
<1>4. Writers' = Writers /\ Issued' = Issued
  BY <1>3 DEF Writers, Issued
<1> QED BY <1>2, <1>3, <1>4 DEF PackOK, Harmless, Unforged

LEMMA PutKeeps ==
  ASSUME PackOK, NEW i \in DOMAIN pack, NEW x, Harmless(x), Put(i, x)
  PROVE  PackOK'
<1>1. pack \in Seq(Elements(pack) \cup {x}) /\ i \in 1 .. Len(pack)
  BY DEF PackOK, IsList
<1>2. [pack EXCEPT ![i] = x] \in Seq(Elements(pack) \cup {x})
  BY <1>1, ExceptSeq
<1> QED BY <1>2, EditKeeps DEF Put

(* Changing any field but the signature of a harmless entry.               *)
LEMMA AlteredIsHarmless ==
  ASSUME NEW e, Unforged(e), NEW d \in Altered(e)
  PROVE  Unforged(d)
<1> DEFINE Shape(v, n, ts, a, b, p, hash) ==
      [version |-> v, seq |-> n, timestamp |-> ts, actor |-> a, body |-> b,
       prev_hash |-> p, hash |-> hash, signature |-> e.signature, extra |-> e.extra]
<1>1. e = Shape(e.version, e.seq, e.timestamp, e.actor, e.body, e.prev_hash, e.hash)
  BY DEF Unforged
<1>2. \A v, n, ts, a, b, p, hash : Unforged(Shape(v, n, ts, a, b, p, hash))
  BY DEF Unforged
<1>3. PICK v, n, ts, a, b, p, hash : d = Shape(v, n, ts, a, b, p, hash)
  BY <1>1 DEF Altered
<1> QED BY <1>2, <1>3

LEMMA ResignedIsHarmless ==
  ASSUME NEW e, Unforged(e), NEW sig,
         sig # None =>
           /\ IsSignature(sig)
           /\ sig.value.bytes.by \in Writers =>
                sig.value.bytes.signed \in {d.hash : d \in Issued}
  PROVE  Unforged([e EXCEPT !.signature = sig])
<1> DEFINE d == [e EXCEPT !.signature = sig]
<1>1. d = [version |-> e.version, seq |-> e.seq, timestamp |-> e.timestamp,
           actor |-> e.actor, body |-> e.body, prev_hash |-> e.prev_hash,
           hash |-> e.hash, signature |-> sig, extra |-> e.extra]
  BY DEF Unforged
<1> HIDE DEF d
<1> QED BY <1>1 DEF Unforged, d

(* Entries of the history are harmless: their signatures are of their own   *)
(* hashes.                                                                  *)
LEMMA IssuedIsHarmless ==
  ASSUME HistoryOK, NEW d \in Issued
  PROVE  /\ Unforged(d)
         /\ IsSignature(d.signature)
         /\ d.signature.value.bytes.signed \in {c.hash : c \in Issued}
<1>1. PICK s \in held : d \in Elements(s)
  BY DEF Issued
<1>2. IsBuilt(d, Writers)
  BY <1>1 DEF HistoryOK, IsWritten
<1>3. /\ d.signature.value.bytes = sign(d.hash, d.signature.public_key)
      /\ IsSignature(d.signature)
  BY <1>2 DEF IsBuilt, build_entry, IsSignature, b64
<1>4. d.signature.value.bytes.signed = d.hash
  BY <1>3 DEF sign
<1>5. d = [version |-> d.version, seq |-> d.seq, timestamp |-> d.timestamp,
           actor |-> d.actor, body |-> d.body, prev_hash |-> d.prev_hash,
           hash |-> d.hash, signature |-> d.signature, extra |-> d.extra]
  BY <1>2 DEF IsBuilt, build_entry
<1> QED BY <1>3, <1>4, <1>5 DEF Unforged

-----------------------------------------------------------------------------
(* The invariant                                                            *)

LEMMA PackInit == EvidenceInit => PackOK
BY DEF EvidenceInit, PackOK, IsList, Elements

LEMMA LogStepKeeps == ASSUME LogStep PROVE PackOK'
BY DEF LogStep, PackOK, IsList, Elements

LEMMA CopyKeeps ==
  ASSUME HistoryOK, Copy PROVE PackOK'
<1>1. pack' \in held /\ held' = held
  BY DEF Copy
<1>2. IsList(pack')
  BY <1>1 DEF HistoryOK
<1>3. \A e \in Elements(pack') : e \in Issued
  BY <1>1 DEF Issued
<1>4. \A e \in Elements(pack') : Unforged(e)
  BY <1>3, IssuedIsHarmless
<1>5. Writers' = Writers /\ Issued' = Issued
  BY <1>1 DEF Writers, Issued
<1> QED BY <1>2, <1>4, <1>5 DEF PackOK, Unforged

LEMMA TamperKeeps ==
  ASSUME HistoryOK, PackOK, Tamper
  PROVE  PackOK'
<1>0. /\ pack \in Seq(Elements(pack))
      /\ \A i \in DOMAIN pack : pack[i] # None => Unforged(pack[i])
  BY DEF PackOK, IsList, Elements
<1>1. CASE Alter
  <2>1. PICK i \in DOMAIN pack : pack[i] # None /\ \E e \in Altered(pack[i]) : Put(i, e)
    BY <1>1 DEF Alter
  <2>2. PICK e \in Altered(pack[i]) : Put(i, e)
    BY <2>1
  <2>3. Harmless(e)
    BY <1>0, <2>1, AlteredIsHarmless DEF Harmless
  <2> QED BY <1>0, <2>2, <2>3, PutKeeps
<1>2. CASE Rehash
  <2>1. PICK i \in DOMAIN pack :
          pack[i] # None /\ Put(i, [pack[i] EXCEPT !.hash = Recomputed(pack[i])])
    BY <1>2 DEF Rehash
  <2>2. Unforged([pack[i] EXCEPT !.hash = Recomputed(pack[i])])
    BY <1>0, <2>1 DEF Unforged
  <2> QED BY <1>0, <2>1, <2>2, PutKeeps DEF Harmless
<1>3. CASE Resign
  <2>1. PICK i \in DOMAIN pack :
          /\ pack[i] # None
          /\ \E sig \in Signatures(pack[i].hash) : Put(i, [pack[i] EXCEPT !.signature = sig])
    BY <1>3 DEF Resign
  <2>2. PICK sig \in Signatures(pack[i].hash) : Put(i, [pack[i] EXCEPT !.signature = sig])
    BY <2>1
  <2>3. sig # None => sig.value.bytes.by \notin Writers /\ IsSignature(sig)
    BY <2>2 DEF Signatures, sign, b64, Outsider, Junk, Writers, IsSignature
  <2>4. Unforged([pack[i] EXCEPT !.signature = sig])
    BY <1>0, <2>1, <2>3, ResignedIsHarmless
  <2> QED BY <1>0, <2>2, <2>4, PutKeeps DEF Harmless
<1>4. CASE MoveSignature
  <2>1. PICK i \in DOMAIN pack, d \in Issued :
          pack[i] # None /\ Put(i, [pack[i] EXCEPT !.signature = d.signature])
    BY <1>4 DEF MoveSignature
  <2>2. Unforged([pack[i] EXCEPT !.signature = d.signature])
    BY <1>0, <2>1, IssuedIsHarmless, ResignedIsHarmless
  <2> QED BY <1>0, <2>1, <2>2, PutKeeps DEF Harmless
<1>5. CASE Forge
  <2>1. PICK i \in DOMAIN pack, body \in Canonical, key \in Outsider :
          Put(i, build_entry(pack[i].seq, pack[i].timestamp, pack[i].actor, body,
                             pack[i].prev_hash, key))
    BY <1>5 DEF Forge
  <2> DEFINE e == build_entry(pack[i].seq, pack[i].timestamp, pack[i].actor, body,
                              pack[i].prev_hash, key)
  <2>2. Unforged(e)
    BY DEF Unforged, build_entry, sign, b64, Outsider, IsSignature
  <2> QED BY <1>0, <2>1, <2>2, PutKeeps DEF Harmless
<1>6. CASE Delete
  <2>1. PICK i \in DOMAIN pack : Edit(RemoveAt(pack, i))
    BY <1>6 DEF Delete
  <2> DEFINE S == Elements(pack) \cup {None}
  <2>2. i \in 1 .. Len(pack) /\ Len(pack) \in Nat /\ pack \in Seq(S)
    BY <1>0
  <2>3. SubSeq(pack, 1, i - 1) \in Seq(S) /\ SubSeq(pack, i + 1, Len(pack)) \in Seq(S)
    <3> HIDE DEF S
    <3>1. \A j \in 1 .. Len(pack) : pack[j] \in S
      BY <2>2
    <3> QED BY <2>2, <3>1, SubSeqProperties
  <2>4. RemoveAt(pack, i) \in Seq(S)
    <3> HIDE DEF S
    <3> QED BY <2>3, ConcatProperties DEF RemoveAt
  <2> QED BY <1>0, <2>1, <2>4, EditKeeps DEF Harmless
<1>7. CASE Insert
  <2>1. PICK i \in 1 .. Len(pack) + 1, e \in Issued \cup {None} : Edit(InsertAt(pack, i, e))
    BY <1>7 DEF Insert
  <2> DEFINE S == Elements(pack) \cup {e}
  <2>2. Len(pack) \in Nat /\ pack \in Seq(S) /\ e \in S
    BY <1>0
  <2>3. SubSeq(pack, 1, i - 1) \in Seq(S) /\ SubSeq(pack, i, Len(pack)) \in Seq(S)
    <3> HIDE DEF S
    <3>1. \A j \in 1 .. Len(pack) : pack[j] \in S
      BY <2>2
    <3> QED BY <2>2, <3>1, SubSeqProperties
  <2>4. InsertAt(pack, i, e) \in Seq(S)
    <3> HIDE DEF S
    <3>1. <<e>> \in Seq(S)
      BY <2>2
    <3> QED BY <2>3, <3>1, ConcatProperties DEF InsertAt
  <2>5. Harmless(e)
    BY <1>0, IssuedIsHarmless DEF Harmless
  <2> QED BY <1>0, <2>1, <2>4, <2>5, EditKeeps
<1>8. CASE Swap
  <2>1. PICK i \in DOMAIN pack, j \in DOMAIN pack :
          Edit([pack EXCEPT ![i] = pack[j], ![j] = pack[i]])
    BY <1>8 DEF Swap
  <2> DEFINE S == Elements(pack) \cup {None}
  <2>2. pack \in Seq(S) /\ i \in 1 .. Len(pack) /\ j \in 1 .. Len(pack)
    BY <1>0
  <2>3. [pack EXCEPT ![i] = pack[j], ![j] = pack[i]] \in Seq(S)
    <3> HIDE DEF S
    <3> QED BY <2>2, ExceptSeq, ElementOfSeq
  <2> QED BY <1>0, <2>1, <2>3, EditKeeps DEF Harmless
<1>9. CASE Annotate
  <2>1. PICK i \in DOMAIN pack : pack[i] # None /\ Put(i, [pack[i] EXCEPT !.extra = "note"])
    BY <1>9 DEF Annotate
  <2>2. Unforged([pack[i] EXCEPT !.extra = "note"])
    BY <1>0, <2>1 DEF Unforged
  <2> QED BY <1>0, <2>1, <2>2, PutKeeps DEF Harmless
<1>10. CASE Replace
  <2>1. PICK i \in DOMAIN pack, e \in Issued \cup {None} : Put(i, e)
    BY <1>10 DEF Replace
  <2>2. Harmless(e)
    BY <1>0, IssuedIsHarmless DEF Harmless
  <2> QED BY <1>0, <2>1, <2>2, PutKeeps
<1>11. CASE Reencode
  <2>1. PICK i \in DOMAIN pack, writing \in Writing :
          /\ pack[i] # None /\ pack[i].signature # None
          /\ \/ Put(i, [pack[i] EXCEPT !.signature.value.writing = writing])
             \/ Put(i, [pack[i] EXCEPT !.signature.public_key =
                                         [KeyText(@) EXCEPT !.writing = writing]])
    BY <1>11 DEF Reencode
  <2>2. Unforged(pack[i]) /\ IsSignature(pack[i].signature)
    BY <1>0, <2>1 DEF Unforged
  <2>3. PICK sig :
          /\ IsSignature(sig) /\ sig.value.bytes = pack[i].signature.value.bytes
          /\ Put(i, [pack[i] EXCEPT !.signature = sig])
    <3> DEFINE old == pack[i].signature
    <3>1. CASE Put(i, [pack[i] EXCEPT !.signature.value.writing = writing])
      <4> DEFINE sig == [old EXCEPT !.value.writing = writing]
      <4>1. sig = [public_key |-> old.public_key,
                   value |-> [writing |-> writing, bytes |-> old.value.bytes]]
        BY <2>2 DEF IsSignature
      <4>2. [pack[i] EXCEPT !.signature.value.writing = writing]
              = [pack[i] EXCEPT !.signature = sig]
        OBVIOUS
      <4> HIDE DEF sig
      <4> QED BY <3>1, <4>1, <4>2 DEF IsSignature
    <3>2. CASE Put(i, [pack[i] EXCEPT !.signature.public_key =
                                        [KeyText(@) EXCEPT !.writing = writing]])
      <4> PICK key : key = [KeyText(old.public_key) EXCEPT !.writing = writing]
        OBVIOUS
      <4> DEFINE sig == [old EXCEPT !.public_key = key]
      <4>1. sig = [public_key |-> key,
                   value |-> [writing |-> old.value.writing, bytes |-> old.value.bytes]]
        BY <2>2 DEF IsSignature
      <4>2. [pack[i] EXCEPT !.signature.public_key = [KeyText(@) EXCEPT !.writing = writing]]
              = [pack[i] EXCEPT !.signature = sig]
        OBVIOUS
      <4> HIDE DEF sig
      <4> QED BY <3>2, <4>1, <4>2 DEF IsSignature
    <3> QED BY <2>1, <3>1, <3>2
  <2>4. Unforged([pack[i] EXCEPT !.signature = sig])
    <3>1. sig.value.bytes.by \in Writers =>
            sig.value.bytes.signed \in {d.hash : d \in Issued}
      BY <2>1, <2>2, <2>3 DEF Unforged
    <3> QED BY <2>2, <2>3, <3>1, ResignedIsHarmless
  <2> QED BY <1>0, <2>3, <2>4, PutKeeps DEF Harmless
<1> QED
  BY <1>1, <1>2, <1>3, <1>4, <1>5, <1>6, <1>7, <1>8, <1>9, <1>10, <1>11 DEF Tamper

LEMMA HistoryKept == HistoryOK /\ [EvidenceNext]_evars => HistoryOK'
<1> SUFFICES ASSUME HistoryOK, [EvidenceNext]_evars PROVE HistoryOK'
  OBVIOUS
<1>1. [Next]_vars
  BY DEF EvidenceNext, LogStep, Copy, Tamper, Alter, Rehash, Resign, MoveSignature, Reencode, Forge,
         Delete, Insert, Replace, Swap, Annotate, Put, Edit, evars, vars
<1> QED BY <1>1, HistoryStep

LEMMA PackStep ==
  ASSUME HistoryOK, PackOK,
         [EvidenceNext]_evars
  PROVE  PackOK'
<1>1. CASE LogStep
  BY <1>1, LogStepKeeps
<1>2. CASE Copy
  BY <1>2, CopyKeeps
<1>3. CASE Tamper
  BY <1>3, TamperKeeps
<1>4. CASE UNCHANGED evars
  BY <1>4 DEF evars, PackOK, Unforged, Issued, Writers
<1> QED BY <1>1, <1>2, <1>3, <1>4 DEF EvidenceNext

LEMMA EvidenceInitially == EvidenceInit => IInv
BY PackInit, HistoryInit DEF EvidenceInit, IInv

LEMMA EvidenceStep == IInv /\ [EvidenceNext]_evars => IInv'
BY PackStep, HistoryKept DEF IInv

THEOREM EvidenceInvariant == EvidenceSpec => []IInv
<1> QED BY EvidenceInitially, EvidenceStep, PTL DEF EvidenceSpec

-----------------------------------------------------------------------------
(* What acceptance proves                                                   *)

(* A text that decodes to a writer's signature holds its bytes. *)
LEMMA SeenIsSigned ==
  ASSUME NEW text, NEW hash, NEW key \in Writers,
         unb64(text) = sign(hash, unb64(KeyText(key)))
  PROVE  /\ text.bytes = sign(hash, key) /\ unb64(text) = text.bytes
         /\ text.bytes.by \in Writers /\ text.bytes.signed = hash
<1>1. key \in Key /\ key # None
  BY KeyOfAssumption DEF Writers
<1>2. unb64(text) = sign(hash, key)
  BY <1>1, KeyDecoding
<1>3. Junk # sign(hash, key)
  BY <1>1 DEF Junk, sign
<1>4. unb64(text) = text.bytes
  BY <1>2, <1>3 DEF unb64
<1> QED BY <1>2, <1>4 DEF sign

(* A list that is followed link by link up to a hash of the history says    *)
(* what some Chain held: the hash carries all that is before it.            *)
LEMMA SignedIsOld ==
  ASSUME HistoryOK, NEW p, NEW n \in Nat \ {0}, DOMAIN p = 1 .. n, LinkedAsRead(p),
         NEW d \in Issued, d.hash = p[n].hash
  PROVE  \E s \in held \ {<<>>} :
           /\ Len(s) = n /\ Content(p) = Content(s)
           /\ s[n].hash = p[n].hash
<1>1. PICK t \in held : d \in Elements(t)
  BY DEF Issued
<1>2. /\ Linked(t) /\ Len(t) \in Nat /\ DOMAIN t = 1 .. Len(t)
      /\ \A i \in 1 .. Len(t) : SubSeq(t, 1, i) \in held
  BY DEF HistoryOK, IsList
<1>3. PICK j \in 1 .. Len(t) : d = t[j]
  BY <1>1, <1>2 DEF Elements
<1>4. n = j /\ \A i \in 1 .. n : Said(p[i]) = Said(t[i])
  <2>1. /\ n \in Nat /\ j \in Nat /\ n # 0 /\ j # 0
        /\ 1 .. n \subseteq DOMAIN p /\ 1 .. j \subseteq DOMAIN t
    BY <1>2
  <2>2. p[n].hash = t[j].hash
    BY <1>3
  <2> QED BY <1>2, <2>1, <2>2, OneHashOneHistory
<1> DEFINE s == SubSeq(t, 1, n)
<1>5. /\ s \in held /\ Len(s) = n /\ DOMAIN s = 1 .. n
      /\ \A i \in 1 .. n : s[i] = t[i]
  <2>1. t \in Seq(Elements(t))
    BY DEF HistoryOK, IsList
  <2> QED BY <1>2, <1>3, <1>4, <2>1
<1> HIDE DEF s
<1>6. s # <<>> /\ s[n].hash = p[n].hash
  BY <1>3, <1>4, <1>5
<1>7. Content(p) = Content(s)
  BY <1>4, <1>5 DEF Content
<1> QED BY <1>5, <1>6, <1>7

(* The hash of an entry that carries a writer's signature is one of the     *)
(* history's.                                                               *)
LEMMA SignedIsIssued ==
  ASSUME NEW e, Unforged(e), e.signature # None,
         e.signature.value.bytes.by \in Writers,
         e.signature.value.bytes.signed = e.hash
  PROVE  \E d \in Issued : d.hash = e.hash
BY DEF Unforged

(* The last entry of an accepted pack carries a writer's signature.         *)
LEMMA AcceptedIsOld ==
  ASSUME HistoryOK, NEW p, IsList(p), p # <<>>,
         \A i \in DOMAIN p : p[i] # None => Unforged(p[i]),
         NEW monotonic, NEW head, verify_chain(p, Auditor(monotonic, head)).valid
  PROVE  \E s \in held \ {<<>>} :
           /\ Len(s) = Len(p) /\ Content(p) = Content(s)
           /\ head_hash(p) = head_hash(s)
<1> DEFINE o == Auditor(monotonic, head)
           n == Len(p)
<1>1. IsList(p) /\ n \in Nat \ {0} /\ DOMAIN p = 1 .. n
  <2>1. p \in Seq(Elements(p))
    BY DEF IsList
  <2> QED BY <2>1, EmptySeq DEF IsList
<1>2. o.trusted = Writers /\ ~o.unverified /\ verify_chain(p, o).valid
  BY DEF Auditor, Options
<1> HIDE DEF o
<1>3. /\ ~FailsClosed(o) /\ LinkedAsRead(p)
      /\ \A i \in DOMAIN p :
           /\ p[i] # None /\ p[i].signature # None
           /\ o.trusted # None => p[i].signature.public_key \in o.trusted
           /\ unb64(p[i].signature.value)
                = sign(p[i].hash, unb64(KeyText(p[i].signature.public_key)))
  BY <1>1, <1>2, AcceptedMeans
<1>n. n \in DOMAIN p
  BY <1>1
<1> HIDE DEF n
<1>4. p[n].signature.public_key \in Writers
  BY <1>n, <1>2, <1>3 DEF FailsClosed
<1>5. /\ p[n].signature.value.bytes.by \in Writers
      /\ p[n].signature.value.bytes.signed = p[n].hash
  <2>1. unb64(p[n].signature.value)
          = sign(p[n].hash, unb64(KeyText(p[n].signature.public_key)))
    BY <1>n, <1>3
  <2> QED BY <1>4, <2>1, SeenIsSigned
<1>6. PICK d \in Issued : d.hash = p[n].hash
  <2>1. p[n] # None /\ p[n].signature # None /\ Unforged(p[n])
    BY <1>n, <1>3
  <2> QED BY <1>5, <2>1, SignedIsIssued
<1>7. PICK s \in held \ {<<>>} :
        Len(s) = n /\ Content(p) = Content(s) /\ s[n].hash = p[n].hash
  BY <1>1, <1>3, <1>6, SignedIsOld
<1>8. head_hash(s) = s[n].hash /\ head_hash(p) = p[n].hash
  BY <1>7 DEF head_hash, n
<1> QED BY <1>7, <1>8 DEF n

LEMMA PackElements ==
  ASSUME PackOK
  PROVE  IsList(pack) /\ \A i \in DOMAIN pack : pack[i] # None => Unforged(pack[i])
BY DEF PackOK, Elements

(* A pack that verify_chain accepts under pinned keys says what some Chain  *)
(* once held, whatever was done to it.                                      *)
THEOREM AcceptedPacksWereHeld == EvidenceSpec => []AcceptedWasHeld
<1>1. IInv => AcceptedWasHeld
  <2> SUFFICES ASSUME IInv, verify_chain(pack, Auditor(FALSE, None)).valid
               PROVE  \E s \in held : Content(pack) = Content(s)
    BY DEF AcceptedWasHeld
  <2>1. CASE pack = <<>>
    BY <2>1 DEF IInv, HistoryOK
  <2>2. CASE pack # <<>>
    BY <2>2, AcceptedIsOld, PackElements DEF IInv
  <2> QED BY <2>1, <2>2
<1> QED BY <1>1, EvidenceInvariant, PTL

(* With an anchored head, not even the end can be missing.                  *)
THEOREM AnchoredPacksAreComplete == EvidenceSpec => []AnchoredIsComplete
<1>1. IInv => AnchoredIsComplete
  <2> SUFFICES ASSUME IInv, NEW s \in held, head_hash(s) # None,
                      verify_chain(pack, Auditor(FALSE, head_hash(s))).valid
               PROVE  Content(pack) = Content(s)
    BY DEF AnchoredIsComplete
  <2> DEFINE o == Auditor(FALSE, head_hash(s))
  <2>1. o.head = head_hash(s)
    BY DEF Auditor, Options
  <2>2. pack # <<>>
    BY <2>1 DEF verify_chain, _result
  <2>3. head_hash(pack) = head_hash(s)
    <3>1. IsList(pack)
      BY DEF IInv, PackOK
    <3>2. pack[Len(pack)].hash = o.head
      <4>1. verify_chain(pack, o).valid
        OBVIOUS
      <4> HIDE DEF o
      <4> QED BY <2>1, <2>2, <3>1, <4>1, AcceptedMeans
    <3> QED BY <2>1, <2>2, <3>2 DEF head_hash
  <2>4. PICK u \in held \ {<<>>} : Content(pack) = Content(u) /\ head_hash(pack) = head_hash(u)
    BY <2>2, AcceptedIsOld, PackElements DEF IInv
  <2>5. s # <<>>
    BY DEF head_hash
  <2>6. Content(u) = Content(s)
    BY <2>3, <2>4, <2>5, HeadsAreUnique DEF IInv, HeadCommits
  <2> QED BY <2>4, <2>6
<1> QED BY <1>1, EvidenceInvariant, PTL

-----------------------------------------------------------------------------
(* Bounds                                                                   *)

BInv ==
  /\ HistoryOK
  /\ edits \in 0 .. MaxEdits
  /\ Cardinality(held) =< MaxHeld
  /\ \A s \in held : Len(s) =< MaxLen

LEMMA BoundsInit == EvidenceInit => BInv
<1> SUFFICES ASSUME EvidenceInit PROVE BInv
  OBVIOUS
<1>1. HistoryOK /\ held = {<<>>} /\ edits = 0
  BY HistoryInit DEF EvidenceInit, Init
<1>2. Cardinality({<<>>}) = 1
  BY FS_Singleton
<1>3. Cardinality(held) =< MaxHeld
  BY <1>1, <1>2, EvidenceBounds
<1>4. edits \in 0 .. MaxEdits /\ \A s \in held : Len(s) =< MaxLen
  BY <1>1, EvidenceBounds
<1> QED BY <1>1, <1>3, <1>4 DEF BInv

LEMMA BoundsStep == BInv /\ [EvidenceNext]_evars => BInv'
<1> SUFFICES ASSUME BInv, [EvidenceNext]_evars PROVE BInv'
  OBVIOUS
<1>1. HistoryOK'
  BY HistoryKept DEF BInv
<1>2. CASE LogStep
  <2>1. Cardinality(held') =< MaxHeld /\ edits' = edits
    BY <1>2 DEF LogStep
  <2>2. ASSUME NEW s \in held', s \notin held PROVE Len(s) =< MaxLen
    <3>1. PICK h \in Handle : Extend(h)
      BY <1>2, <2>2 DEF LogStep, Next, Reopen
    <3>2. PICK u : trails' = [trails EXCEPT ![h] = u] /\ held' = held \cup {u}
      BY <3>1 DEF Extend
    <3>3. s = u /\ u = trails'[h]
      BY <2>2, <3>2 DEF BInv, HistoryOK
    <3> QED BY <1>2, <3>3 DEF LogStep
  <2> QED BY <1>1, <2>1, <2>2 DEF BInv
<1>3. CASE Copy \/ UNCHANGED evars
  BY <1>1, <1>3 DEF Copy, evars, BInv
<1>4. CASE Tamper
  <2>1. edits < MaxEdits /\ edits' = edits + 1 /\ held' = held
    BY <1>4 DEF Tamper, Alter, Rehash, Resign, MoveSignature, Reencode, Forge, Delete,
                Insert, Replace, Swap, Annotate, Put, Edit
  <2>2. edits' \in 0 .. MaxEdits
    BY <2>1, EvidenceBounds DEF BInv
  <2> QED BY <1>1, <2>1, <2>2 DEF BInv
<1> QED BY <1>2, <1>3, <1>4 DEF EvidenceNext

(* The trails and the edits stay within their bounds, and what was ever     *)
(* issued carries an index and a key of a writer.                           *)
THEOREM EvidenceTypes == EvidenceSpec => []EvidenceTypeOK
<1>1. BInv => EvidenceTypeOK
  <2> SUFFICES ASSUME BInv PROVE EvidenceTypeOK
    OBVIOUS
  <2>1. ASSUME NEW e \in Issued
        PROVE  e.seq \in 0 .. MaxLen - 1 /\ e.signature.public_key \in Writers
    <3>1. PICK s \in held : e \in Elements(s)
      BY DEF Issued
    <3>2. PICK i \in DOMAIN s : e = s[i]
      BY <3>1 DEF Elements
    <3>3. s \in Seq(Elements(s)) /\ Linked(s) /\ IsWritten(e) /\ Len(s) =< MaxLen
      BY <3>1 DEF BInv, HistoryOK, IsList
    <3>4. e.seq = i - 1 /\ i \in 1 .. Len(s) /\ Len(s) \in Nat
      BY <3>2, <3>3 DEF Linked
    <3>5. e.seq \in 0 .. MaxLen - 1
      BY <3>3, <3>4, EvidenceBounds
    <3> QED BY <3>3, <3>5 DEF IsWritten, IsBuilt
  <2> QED BY <2>1 DEF BInv, HistoryOK, EvidenceTypeOK
<1> QED BY <1>1, BoundsInit, BoundsStep, PTL DEF EvidenceSpec

-----------------------------------------------------------------------------
(* Where the tampering is found                                             *)

(* The trails are signed with one key. *)
OneSigner == \A k, l \in Writers : k = l

(* A copy of a written entry, with its signature, whatever key was added    *)
(* that no code reads.                                                      *)
LEMMA BareCopy ==
  ASSUME NEW e, e # None, Unforged(e), NEW d, IsWritten(d),
         e.version = VERSION, Said(e) = Said(d), AsRead(e.signature) = d.signature
  PROVE  Bare(e) = d
<1> DEFINE Shape(sig, extra) ==
      [version |-> VERSION, seq |-> d.seq, timestamp |-> d.timestamp, actor |-> d.actor,
       body |-> d.body, prev_hash |-> d.prev_hash, hash |-> d.hash,
       signature |-> sig, extra |-> extra]
<1>1. /\ e.seq = d.seq /\ e.timestamp = d.timestamp /\ e.actor = d.actor
      /\ e.body = d.body /\ e.prev_hash = d.prev_hash /\ e.hash = d.hash
  BY DEF Said
<1>2. e = Shape(e.signature, e.extra)
  BY <1>1 DEF Unforged
<1>3. d = Shape(d.signature, None)
  BY DEF IsWritten, IsBuilt, build_entry
<1>4. ASSUME NEW sig, NEW x, NEW read
      PROVE  [Shape(sig, x) EXCEPT !.extra = None, !.signature = read] = Shape(read, None)
  <2> DEFINE old == Shape(sig, x)
             new == [old EXCEPT !.extra = None, !.signature = read]
  <2>1. DOMAIN old = {"version", "seq", "timestamp", "actor", "body", "prev_hash", "hash",
                      "signature", "extra"}
    OBVIOUS
  <2>2. new = [f \in DOMAIN old |-> IF f = "signature" THEN read
                                    ELSE IF f = "extra" THEN None ELSE old[f]]
    <3> HIDE DEF old
    <3> QED BY <2>1
  <2> HIDE DEF new
  <2>3. new = Shape(read, None)
    BY <2>1, <2>2
  <2> HIDE DEF Shape
  <2> QED BY <2>3 DEF new
<1> HIDE DEF Shape
<1>5. Bare(e) = [e EXCEPT !.extra = None, !.signature = AsRead(e.signature)]
  BY DEF Bare
<1>6. \A read : [Shape(e.signature, e.extra) EXCEPT !.extra = None, !.signature = read]
                  = Shape(read, None)
  BY <1>4
<1> QED BY <1>2, <1>3, <1>5, <1>6

(* What is left of an entry without the keys that no code reads. *)
LEMMA BareFields ==
  ASSUME NEW e, e # None, Unforged(e), NEW d, d = Bare(e)
  PROVE  e.version = d.version /\ Said(e) = Said(d) /\ AsRead(e.signature) = d.signature
<1>1. d = [e EXCEPT !.extra = None, !.signature = AsRead(e.signature)]
  BY DEF Bare
<1>2. /\ d.version = e.version /\ d.seq = e.seq /\ d.timestamp = e.timestamp
      /\ d.actor = e.actor /\ d.body = e.body /\ d.prev_hash = e.prev_hash
      /\ d.hash = e.hash /\ d.signature = AsRead(e.signature)
  BY <1>1 DEF Unforged
<1> QED BY <1>2 DEF Said

(* A signature is read as the one a writer made exactly if it decodes to    *)
(* the same bytes beside the same key.                                      *)
LEMMA ReadAsSigned ==
  ASSUME NEW sig, IsSignature(sig), sig # None, NEW bytes, NEW key
  PROVE  AsRead(sig) = [public_key |-> key, value |-> b64(bytes)]
           <=> /\ sig.public_key = key /\ ~Undecodable(sig.value)
               /\ unb64(sig.value) = bytes
<1>1. CASE Undecodable(sig.value)
  <2>1. AsRead(sig).value = sig.value
    BY <1>1 DEF AsRead
  <2>2. ~Undecodable(b64(bytes))
    BY Decoding
  <2> QED BY <1>1, <2>1, <2>2
<1>2. CASE ~Undecodable(sig.value)
  <2>1. AsRead(sig) = [public_key |-> sig.public_key, value |-> b64(unb64(sig.value))]
    BY <1>2 DEF AsRead, IsSignature
  <2> QED BY <1>2, <2>1 DEF b64
<1> QED BY <1>1, <1>2

(* What an entry of the history carries. *)
LEMMA WrittenFields ==
  ASSUME NoneIsApart, NEW d, IsWritten(d)
  PROVE  /\ d # None /\ d.signature # None /\ d.version = VERSION
         /\ d.body \in Canonical /\ Recomputed(d) = d.hash
         /\ d.signature.public_key \in Writers
         /\ d.signature = [public_key |-> d.signature.public_key,
                           value |-> b64(sign(d.hash, d.signature.public_key))]
<1>1. /\ IsBuilt(d, Writers) /\ d.body \in Canonical
  BY DEF IsWritten, Appendable
<1>2. d # None /\ d.signature # None
  BY <1>1 DEF NoneIsApart
<1>3. d.signature.public_key \in Writers
  BY <1>1 DEF IsBuilt
<1>4. /\ d.version = VERSION /\ Recomputed(d) = d.hash
      /\ d.signature = [public_key |-> d.signature.public_key,
                        value |-> b64(sign(d.hash, d.signature.public_key))]
  BY <1>1 DEF IsBuilt, build_entry, Recomputed
<1> QED BY <1>1, <1>2, <1>3, <1>4

(* A start of the pack that is as some Chain held it passes every check. *)
LEMMA UntouchedPasses ==
  ASSUME IInv, NoneIsApart, NEW n \in 1 .. Len(pack), Untouched(n),
         NEW i \in 1 .. n
  PROVE  i \notin Broken(pack, Auditor(FALSE, None))
<1> DEFINE o == Auditor(FALSE, None)
<1>1. PICK s \in held : Len(s) = n /\ \A j \in 1 .. n : Bare(pack[j]) = s[j]
  BY DEF Untouched
<1>2. /\ Linked(s) /\ DOMAIN s = 1 .. n /\ \A j \in 1 .. n : IsWritten(s[j])
      /\ n \in Nat /\ 1 .. n \subseteq DOMAIN pack
  <2>1. s \in Seq(Elements(s)) /\ pack \in Seq(Elements(pack))
    BY DEF IInv, HistoryOK, PackOK, IsList
  <2>2. DOMAIN s = 1 .. n /\ n \in Nat /\ 1 .. n \subseteq DOMAIN pack
    BY <1>1, <2>1
  <2> QED BY <2>2 DEF IInv, HistoryOK, Elements
<1>3. ASSUME NEW j \in 1 .. n
      PROVE  /\ pack[j] # None /\ pack[j].version = s[j].version
             /\ Said(pack[j]) = Said(s[j]) /\ AsRead(pack[j].signature) = s[j].signature
  <2>1. s[j] # None /\ s[j] = Bare(pack[j])
    BY <1>1, <1>2, WrittenFields
  <2>2. pack[j] # None
    BY <2>1 DEF Bare
  <2>3. Unforged(pack[j])
    BY <1>2, <2>2, PackElements DEF IInv
  <2> QED BY <2>1, <2>2, <2>3, BareFields
<1> DEFINE e == pack[i]
           d == s[i]
<1>4. /\ e # None /\ e.version = d.version /\ AsRead(e.signature) = d.signature
      /\ e.seq = d.seq /\ e.timestamp = d.timestamp /\ e.actor = d.actor
      /\ e.body = d.body /\ e.prev_hash = d.prev_hash /\ e.hash = d.hash
  <2>1. Said(e) = Said(d)
    BY <1>3
  <2> HIDE DEF e, d
  <2>2. /\ e.seq = d.seq /\ e.timestamp = d.timestamp /\ e.actor = d.actor
        /\ e.body = d.body /\ e.prev_hash = d.prev_hash /\ e.hash = d.hash
    BY <2>1 DEF Said
  <2> QED BY <1>3, <2>2 DEF e, d
<1>5. /\ d.signature # None /\ d.version = VERSION
      /\ d.body \in Canonical /\ Recomputed(d) = d.hash
      /\ d.signature.public_key \in Writers
      /\ d.signature = [public_key |-> d.signature.public_key,
                        value |-> b64(sign(d.hash, d.signature.public_key))]
  <2>1. IsWritten(d)
    BY <1>2
  <2> HIDE DEF d
  <2> QED BY <2>1, WrittenFields
<1>s. /\ e.signature # None /\ e.signature.public_key \in Writers
      /\ e.signature.public_key \in Key
      /\ ~Undecodable(e.signature.value)
      /\ unb64(e.signature.value) = sign(e.hash, e.signature.public_key)
  <2>1. e.signature # None
    BY <1>4, <1>5 DEF AsRead
  <2>2. IsSignature(e.signature)
    BY <1>2, <1>4, <2>1, PackElements DEF IInv, Unforged
  <2>3. Writers \subseteq Key
    BY KeyOfAssumption DEF Writers
  <2> HIDE DEF e, d
  <2> DEFINE key   == d.signature.public_key
             bytes == sign(d.hash, key)
  <2>4. AsRead(e.signature) = [public_key |-> key, value |-> b64(bytes)]
    BY <1>4, <1>5
  <2> HIDE DEF key, bytes
  <2>5. /\ e.signature.public_key = key /\ ~Undecodable(e.signature.value)
        /\ unb64(e.signature.value) = bytes
    BY <2>1, <2>2, <2>4, ReadAsSigned
  <2> QED BY <1>4, <1>5, <2>1, <2>3, <2>5 DEF key, bytes
<1>6. index(e.seq) = i - 1 /\ e.prev_hash = Before(pack, i).hash
  <2>1. /\ d.seq = i - 1 /\ d.prev_hash = IF i = 1 THEN None ELSE s[i - 1].hash
        /\ index(i - 1) = i - 1
    <3>1. i \in DOMAIN s /\ i - 1 \in Nat
      BY <1>2
    <3>2. index(i - 1) = i - 1
      BY <3>1, IndexOfNumber
    <3> QED BY <1>2, <3>1, <3>2 DEF Linked
  <2>2. CASE i = 1
    BY <1>4, <2>1, <2>2 DEF Before
  <2>3. CASE i # 1
    <3>1. i - 1 \in 1 .. n
      BY <1>2, <2>3
    <3>2. pack[i - 1] # None /\ pack[i - 1].hash = s[i - 1].hash
      BY <1>3, <3>1 DEF Said
    <3> QED BY <1>4, <2>1, <2>3, <3>2 DEF Before, IsObject
  <2> QED BY <2>1, <2>2, <2>3
<1>7. Recomputed(e) = e.hash
  BY <1>4, <1>5 DEF Recomputed
<1>8. o.trusted = Writers /\ o.monotonic = FALSE
  BY DEF Auditor, Options
<1> HIDE DEF e, d, o
<1>9. Defect(e, i - 1, Before(pack, i), o) = "none"
  <2>1. OwnDefect(e, Before(pack, i), o) = "none"
    BY <1>4, <1>5, <1>s, <1>7, <1>8, OwnChecksPass
  <2> QED BY <1>4, <1>5, <1>6, <2>1 DEF Defect, IsObject
<1> QED BY <1>9 DEF Broken, e, o

(* A start of the pack that passes every check is as some Chain held it. *)
LEMMA PassingIsUntouched ==
  ASSUME IInv, NoneIsApart, OneSigner, NEW n \in 1 .. Len(pack),
         \A i \in 1 .. n : i \notin Broken(pack, Auditor(FALSE, None))
  PROVE  Untouched(n)
<1> DEFINE o == Auditor(FALSE, None)
           p == SubSeq(pack, 1, n)
<1>1. IsList(pack) /\ n \in DOMAIN pack /\ n \in Nat /\ n \in 0 .. Len(pack)
      /\ 1 .. n \subseteq DOMAIN pack
  <2>1. pack \in Seq(Elements(pack))
    BY DEF IInv, PackOK, IsList
  <2> QED BY <2>1 DEF IsList
<1>2. /\ IsList(p) /\ Len(p) = n /\ DOMAIN p = 1 .. n
      /\ \A i \in 1 .. n : p[i] = pack[i]
  BY <1>1, StartIsList
<1>3. p # <<>> /\ Broken(p, o) = {}
  <2>1. p # <<>> /\ Broken(p, o) = Broken(pack, o) \cap (1 .. n)
    BY <1>1, BrokenSoFar
  <2> HIDE DEF p, o
  <2> QED BY <2>1 DEF o
<1>4. o.trusted = Writers /\ o.head = None /\ ~FailsClosed(o) /\ ~HeadMismatch(p, o)
  <2>1. Writers # None
    BY KeyOfAssumption DEF Writers, NoneIsApart
  <2> QED BY <2>1 DEF Auditor, Options, FailsClosed, HeadMismatch
<1>5. verify_chain(p, o).valid
  <2> HIDE DEF p, o
  <2>1. \A v, k, b, r : _result(v, k, b, r).valid = v
    BY DEF _result
  <2> QED BY <1>3, <1>4, <2>1 DEF verify_chain
<1>6. ASSUME NEW i \in DOMAIN p, p[i] # None PROVE Unforged(p[i])
  <2> HIDE DEF p
  <2> QED BY <1>1, <1>2, <1>6, PackElements DEF IInv
<1>7. PICK s \in held : Len(s) = n /\ Content(p) = Content(s)
  <2> HIDE DEF p
  <2> QED BY <1>2, <1>3, <1>5, <1>6, AcceptedIsOld DEF IInv
<1>8. ASSUME NEW i \in 1 .. n
      PROVE  /\ p[i] # None /\ p[i].version = VERSION
             /\ p[i].signature # None /\ p[i].signature.public_key \in Writers
             /\ ~Undecodable(p[i].signature.value)
             /\ unb64(p[i].signature.value) = sign(p[i].hash, p[i].signature.public_key)
  <2> HIDE DEF p, o
  <2>1. /\ p[i] # None
        /\ p[i].signature # None /\ p[i].signature.public_key \in Writers
        /\ ~Undecodable(p[i].signature.value)
        /\ unb64(p[i].signature.value) = sign(p[i].hash, p[i].signature.public_key)
    <3>1. Writers # None /\ Writers \subseteq Key
      BY KeyOfAssumption DEF Writers, NoneIsApart
    <3>2. /\ p[i] # None
          /\ p[i].signature # None /\ p[i].signature.public_key \in Writers
          /\ ~Undecodable(p[i].signature.value)
          /\ unb64(p[i].signature.value)
               = sign(p[i].hash, unb64(KeyText(p[i].signature.public_key)))
      BY <1>2, <1>3, <1>4, <1>5, <3>1, AcceptedMeans
    <3> QED BY <3>1, <3>2, KeyDecoding
  <2>2. Defect(p[i], i - 1, Before(p, i), o) = "none"
    BY <1>2, <1>3 DEF Broken
  <2>3. p[i].version = VERSION
    BY <2>2 DEF Defect
  <2> QED BY <2>1, <2>3
<1>9. ASSUME NEW i \in 1 .. n PROVE Bare(pack[i]) = s[i]
  <2> DEFINE e == p[i]
             d == s[i]
  <2>1. IsWritten(d) /\ Said(e) = Said(d)
    <3>1. s \in Seq(Elements(s))
      BY DEF IInv, HistoryOK, IsList
    <3>2. i \in DOMAIN s
      BY <1>7, <3>1
    <3>3. IsWritten(d)
      BY <3>2 DEF IInv, HistoryOK, Elements
    <3>4. Content(p)[i] = Content(s)[i]
      BY <1>7
    <3> HIDE DEF p
    <3> QED BY <1>2, <3>2, <3>3, <3>4 DEF Content
  <2>2. e # None /\ Unforged(e) /\ e.version = VERSION
    BY <1>2, <1>6, <1>8
  <2>3. e.hash = d.hash
    <3> HIDE DEF e, d
    <3> QED BY <2>1 DEF Said
  <2>4. e.signature # None /\ IsSignature(e.signature)
    <3>1. e.signature # None
      BY <1>8
    <3> HIDE DEF e
    <3> QED BY <2>2, <3>1 DEF Unforged
  <2>5. d.signature.public_key \in Writers
        /\ d.signature = [public_key |-> d.signature.public_key,
                          value |-> b64(sign(d.hash, d.signature.public_key))]
    <3> HIDE DEF d
    <3> QED BY <2>1, WrittenFields
  <2>6. e.signature.public_key = d.signature.public_key
    BY <1>8, <2>5 DEF OneSigner
  <2>7. AsRead(e.signature) = d.signature
    <3>1. /\ ~Undecodable(e.signature.value)
          /\ unb64(e.signature.value) = sign(e.hash, e.signature.public_key)
      BY <1>8
    <3> HIDE DEF e, d
    <3> QED BY <2>3, <2>4, <2>5, <2>6, <3>1, ReadAsSigned
  <2>8. Bare(e) = d
    <3> HIDE DEF e, d
    <3> QED BY <2>1, <2>2, <2>7, BareCopy
  <2> QED BY <1>2, <2>8
<1> QED BY <1>7, <1>9 DEF Untouched

(* "Detected and located": with one signing key, whatever was done to a     *)
(* pack, verify_chain names the first entry that is not as it was signed in *)
(* its place, and accepts the pack if there is none.                        *)
THEOREM TamperingIsLocated ==
  ASSUME NoneIsApart, OneSigner PROVE EvidenceSpec => []TamperIsLocated
<1>1. IInv => TamperIsLocated
  <2> SUFFICES ASSUME IInv PROVE TamperIsLocated
    OBVIOUS
  <2> DEFINE o       == Auditor(FALSE, None)
             touched == {n \in 1 .. Len(pack) : ~Untouched(n)}
             broken  == Broken(pack, o)
             verdict == verify_chain(pack, o)
  <2>1. /\ IsList(pack) /\ Len(pack) \in Nat /\ DOMAIN pack = 1 .. Len(pack)
        /\ (pack = <<>> <=> Len(pack) = 0)
    <3>1. pack \in Seq(Elements(pack))
      BY DEF IInv, PackOK, IsList
    <3> QED BY <3>1, EmptySeq DEF IsList
  <2>2. broken \in SUBSET (1 .. Len(pack)) /\ broken \in SUBSET Nat
    <3>1. broken \subseteq DOMAIN pack
      BY DEF Broken
    <3> HIDE DEF broken
    <3> QED BY <2>1, <3>1
  <2>3. ASSUME NEW n \in 1 .. Len(pack)
        PROVE  n \in touched <=> \E i \in 1 .. n : i \in broken
    <3>1. Untouched(n) => \A i \in 1 .. n : i \notin broken
      BY UntouchedPasses
    <3>2. (\A i \in 1 .. n : i \notin broken) => Untouched(n)
      BY PassingIsUntouched
    <3> HIDE DEF broken
    <3> QED BY <3>1, <3>2
  <2>4. o.head = None /\ ~FailsClosed(o) /\ ~HeadMismatch(pack, o)
    <3>1. Writers # None
      BY KeyOfAssumption DEF Writers, NoneIsApart
    <3> QED BY <3>1 DEF Auditor, Options, FailsClosed, HeadMismatch
  <2>5. touched \subseteq 1 .. Len(pack)
    OBVIOUS
  <2> HIDE DEF o, touched
  <2>6. CASE broken = {}
    <3>1. touched = {}
      <4> HIDE DEF broken
      <4> QED BY <2>3, <2>5, <2>6
    <3>2. verdict.valid
      <4>1. \A v, k, b, r : _result(v, k, b, r).valid = v
        BY DEF _result
      <4> QED BY <2>4, <2>6, <4>1 DEF verify_chain
    <3> QED BY <3>1, <3>2 DEF TamperIsLocated, o, touched
  <2>7. CASE broken # {}
    <3>1. PICK first \in broken : \A i \in broken : first =< i
      <4> HIDE DEF broken
      <4> QED BY <2>2, <2>7, FirstPosition
    <3>2. first \in touched /\ \A n \in touched : first =< n
      <4> HIDE DEF broken
      <4>1. first \in 1 .. Len(pack) /\ first \in 1 .. first
        BY <2>2, <3>1
      <4>2. ASSUME NEW n \in touched PROVE first =< n
        <5>1. PICK i \in 1 .. n : i \in broken
          BY <2>3, <2>5, <4>2
        <5>2. n \in 1 .. Len(pack) /\ first =< i
          BY <2>5, <3>1, <5>1
        <5> QED BY <2>1, <4>1, <5>1, <5>2
      <4> QED BY <2>3, <3>1, <4>1, <4>2
    <3>3. ~verdict.valid /\ verdict.broken_at = first - 1
      <4>1. ASSUME NEW m \in 1 .. first - 1
            PROVE  Defect(pack[m], m - 1, Before(pack, m), o) = "none"
        <5>1. m \notin broken /\ m \in DOMAIN pack
          <6> HIDE DEF broken
          <6> QED BY <2>1, <2>2, <3>1
        <5> QED BY <5>1 DEF Broken
      <4>2. first \in DOMAIN pack /\ Defect(pack[first], first - 1, Before(pack, first), o) # "none"
        BY DEF Broken
      <4>3. PICK r : verdict = _result(FALSE, Len(pack), first - 1, r)
        <5>1. verdict = _result(FALSE, Len(pack), first - 1,
                                Defect(pack[first], first - 1, Before(pack, first), o))
          BY <2>1, <2>4, <4>1, <4>2, FirstDefectIsReported
        <5> QED BY <5>1
      <4> HIDE DEF verdict
      <4>4. PICK b : b = FALSE
        OBVIOUS
      <4>5. verdict = _result(b, Len(pack), first - 1, r)
        BY <4>3, <4>4
      <4>6. verdict.valid = b /\ verdict.broken_at = first - 1
        BY <4>5, ResultFields
      <4> QED BY <4>4, <4>6
    <3>4. first \in Nat
      BY <2>2
    <3> HIDE DEF verdict
    <3>5. verdict.broken_at + 1 = first
      BY <3>3, <3>4
    <3>6. verdict.broken_at + 1 \in touched /\ \A n \in touched : verdict.broken_at + 1 =< n
      BY <3>2, <3>5
    <3> QED BY <3>2, <3>3, <3>6 DEF TamperIsLocated, o, touched, verdict
  <2> QED BY <2>6, <2>7
<1> QED BY <1>1, EvidenceInvariant, PTL

-----------------------------------------------------------------------------
(* Both ports of verify_chain, for packs of any length with any keys,       *)
(* fields and edits: whatever an editor without the signing keys did, and   *)
(* whichever keys of the entries were deleted.                              *)

Shape(version, seq, timestamp, actor, body, prev_hash, hash, signature, extra) ==
  [version |-> version, seq |-> seq, timestamp |-> timestamp, actor |-> actor,
   body |-> body, prev_hash |-> prev_hash, hash |-> hash, signature |-> signature,
   extra |-> extra]

HasShape(e) ==
  e = Shape(e.version, e.seq, e.timestamp, e.actor, e.body, e.prev_hash, e.hash,
            e.signature, e.extra)

(* Neither null nor undefined is an object, a number, a boolean, a version, *)
(* a digest, the actor, or a body there is an encoding for.                 *)
AbsenceIsApart ==
  /\ NoneIsApart
  /\ \A v, n, ts, a, b, p, h, sig, x : Shape(v, n, ts, a, b, p, h, sig, x) # None
  /\ \A n, ts, a, b, p : entry_hash(n, ts, a, b, p) \notin {None, Absent}
  /\ \A key, value : [public_key |-> key, value |-> value] # Absent
  /\ Absent \notin Nat
  /\ {None, Absent} \cap (Canonical \cup {Actor, VERSION}) = {}

LEMMA UnforgedShape ==
  ASSUME NEW e, Unforged(e)
  PROVE  HasShape(e)
BY DEF Unforged, HasShape, Shape

-----------------------------------------------------------------------------
(* One entry                                                                *)

(* dict.get for each key of an entry. *)
LEMMA GetFields ==
  ASSUME AbsenceIsApart, NEW e, e # None, HasShape(e), NEW g, g = Get(e)
  PROVE  /\ g # None /\ HasShape(g)
         /\ g.version = OrNull(e.version) /\ g.seq = OrNull(e.seq)
         /\ g.timestamp = OrNull(e.timestamp) /\ g.actor = OrNull(e.actor)
         /\ g.body = OrNull(e.body) /\ g.prev_hash = OrNull(e.prev_hash)
         /\ g.hash = OrNull(e.hash) /\ g.signature = OrNull(e.signature)
         /\ g.extra = OrNull(e.extra)
<1>1. g = [key \in DOMAIN e |-> IF e[key] = Absent THEN None ELSE e[key]]
  BY DEF Get
<1>2. DOMAIN e = {"version", "seq", "timestamp", "actor", "body", "prev_hash", "hash",
                  "signature", "extra"}
  BY DEF HasShape, Shape
<1>3. g = Shape(OrNull(e.version), OrNull(e.seq), OrNull(e.timestamp), OrNull(e.actor),
                OrNull(e.body), OrNull(e.prev_hash), OrNull(e.hash), OrNull(e.signature),
                OrNull(e.extra))
  BY <1>1, <1>2 DEF Shape, OrNull
<1>4. g # None
  BY <1>3 DEF AbsenceIsApart
<1> QED BY <1>3, <1>4 DEF HasShape, Shape

(* What verify_chain reads of an entry, field by field. *)
ReadAs(g, e) ==
  /\ g = None <=> e = None
  /\ e # None =>
       /\ g.version = OrNull(e.version) /\ g.seq = OrNull(e.seq)
       /\ g.timestamp = OrNull(e.timestamp) /\ g.actor = OrNull(e.actor)
       /\ g.body = OrNull(e.body) /\ g.prev_hash = OrNull(e.prev_hash)
       /\ g.hash = OrNull(e.hash) /\ g.signature = e.signature

(* The same checks in the same order, of an entry that the ports read alike *)
(* after one that they read alike and that carries its hash.                *)
LEMMA FaultIsDefect ==
  ASSUME AbsenceIsApart, NEW e, NEW g, ReadAs(g, e), ReadAlike(e),
         NEW before, before # None => before.hash # Absent, ReadAlike(before),
         NEW prev,
         prev.hash = IF before = None THEN None ELSE before.hash,
         prev.timestamp = IF before = None THEN None ELSE before.timestamp,
         NEW i \in Nat, NEW o
  PROVE  Defect(g, i, prev, o) = Fault(e, i, before, o)
<1>1. CASE e = None
  BY <1>1 DEF Defect, Fault, IsObject, ReadAs
<1>2. CASE e # None
  <2> DEFINE sig == e.signature
             prevHash == IF before = None THEN None ELSE before.hash
             prevTs   == IF before = None THEN None ELSE before.timestamp
  <2>1. /\ g # None
        /\ g.version = VERSION <=> e.version = VERSION
        /\ index(g.seq) = i <=> e.seq = i
        /\ g.prev_hash = prev.hash <=> LinksTo(e, prevHash)
        /\ g.body \in Canonical <=> e.body \in JSCanonical
        /\ g.signature = sig /\ g.timestamp = e.timestamp
    <3>1. index(g.seq) = i <=> e.seq = i
      <4>1. e.seq \notin {True, False} /\ g.seq = OrNull(e.seq)
        BY <1>2 DEF ReadAlike, ReadAs
      <4>2. g.seq \notin {True, False} /\ (g.seq = i <=> e.seq = i)
        BY <4>1, BooleanAssumption DEF AbsenceIsApart, NoneIsApart, OrNull
      <4> QED BY <4>2 DEF index
    <3>2. g.body \in Canonical <=> e.body \in JSCanonical
      BY <1>2 DEF ReadAlike, BodyAlike, ReadAs, OrNull, AbsenceIsApart
    <3>3. g.timestamp = e.timestamp
      BY <1>2, AbsentAssumption DEF ReadAlike, ReadAs, OrNull, AbsenceIsApart
    <3>4. g.version = VERSION <=> e.version = VERSION
      BY <1>2 DEF ReadAs, OrNull, AbsenceIsApart
    <3> QED BY <1>2, <3>1, <3>2, <3>3, <3>4 DEF ReadAs, LinksTo
  <2>2. ASSUME e.seq = i, e.body \in JSCanonical
        PROVE  Recomputed(g) = g.hash <=> entryHash(e) = e.hash
    <3>1. /\ g.seq = i /\ g.actor = e.actor /\ g.body = e.body /\ JSForm[e.body] = e.body
          /\ g.prev_hash = OrNull(e.prev_hash)
      BY <1>2, <2>2 DEF ReadAlike, BodyAlike, ReadAs, OrNull, AbsenceIsApart
    <3>2. Recomputed(g) = entryHash(e)
      BY <2>1, <2>2, <3>1 DEF Recomputed, entryHash
    <3>3. g.hash = OrNull(e.hash) /\ entryHash(e) \notin {None, Absent}
      BY <1>2 DEF ReadAs, AbsenceIsApart, entryHash
    <3> QED BY <3>2, <3>3 DEF OrNull
  <2>3. ASSUME sig # None
        PROVE  /\ ~Unhashable(sig.public_key)
               /\ Undecodable(sig.value) <=> Throws(sig.value)
               /\ Undecodable(KeyText(sig.public_key)) <=> Throws(KeyText(sig.public_key))
               /\ unb64(sig.value) = Buffer(sig.value)
               /\ unb64(KeyText(sig.public_key)) = Buffer(KeyText(sig.public_key))
    BY <1>2, <2>3 DEF ReadAlike, TextAlike
  <2>4. ASSUME entryHash(e) = e.hash
        PROVE  g.hash = e.hash
    BY <1>2, <2>4 DEF ReadAs, OrNull, AbsenceIsApart, entryHash
  <2>5. ~Incomparable(g, prev) /\ (GoesBackwards(g, prev) <=> Earlier(e, prevTs))
    <3>1. /\ e.timestamp \in Nat \cup {None} /\ prevTs \in Nat \cup {None}
          /\ prev.timestamp = prevTs
      BY <1>2 DEF ReadAlike
    <3> HIDE DEF prevTs
    <3>2. None \notin Nat /\ Absent \notin Nat /\ Absent # None
      BY AbsentAssumption DEF AbsenceIsApart, NoneIsApart
    <3> QED BY <2>1, <3>1, <3>2
        DEF Incomparable, GoesBackwards, BothGiven, Earlier, IsGiven, OrNull
  <2>6. Fault(e, i, before, o) =
          IF e.version # VERSION THEN "unexpected entry version"
          ELSE IF e.seq # i THEN "seq mismatch"
          ELSE IF ~LinksTo(e, prevHash) THEN "broken chain link"
          ELSE IF e.body \notin JSCanonical THEN "malformed entry"
          ELSE IF entryHash(e) # e.hash THEN "content tampered"
          ELSE IF sig = None THEN "missing or unsupported signature"
          ELSE IF o.trusted # None /\ sig.public_key \notin o.trusted
               THEN "signer is not trusted"
          ELSE IF Throws(sig.value) \/ Throws(KeyText(sig.public_key)) THEN "malformed entry"
          ELSE IF ~verify(Buffer(sig.value), e.hash, Buffer(KeyText(sig.public_key)))
               THEN "invalid signature"
          ELSE IF o.monotonic /\ Earlier(e, prevTs) THEN "timestamp goes backwards"
          ELSE "none"
    BY <1>2, Zenon DEF Fault
  <2> HIDE DEF prevHash, prevTs
  <2>7. Defect(g, i, prev, o) =
          IF g.version # VERSION THEN "unexpected entry version"
          ELSE IF index(g.seq) # i THEN "seq mismatch"
          ELSE IF g.prev_hash # prev.hash THEN "broken chain link"
          ELSE IF g.body \notin Canonical THEN "malformed entry"
          ELSE IF Recomputed(g) # g.hash THEN "content tampered"
          ELSE IF sig = None THEN "missing or unsupported signature"
          ELSE IF o.trusted # None /\ Unhashable(sig.public_key)
               THEN "malformed entry"
          ELSE IF o.trusted # None /\ sig.public_key \notin o.trusted
               THEN "signer is not trusted"
          ELSE IF Undecodable(sig.value) \/ Undecodable(KeyText(sig.public_key))
               THEN "malformed entry"
          ELSE IF ~verify(unb64(sig.value), g.hash, unb64(KeyText(sig.public_key)))
               THEN "invalid signature"
          ELSE IF o.monotonic /\ Incomparable(g, prev) THEN "malformed entry"
          ELSE IF o.monotonic /\ GoesBackwards(g, prev) THEN "timestamp goes backwards"
          ELSE "none"
    BY <2>1 DEF Defect, OwnDefect, IsObject
  <2> HIDE DEF sig
  <2> DEFINE placed == e.version = VERSION /\ e.seq = i /\ LinksTo(e, prevHash)
  <2>8. CASE ~placed \/ e.body \notin JSCanonical
    <3>1. CASE e.version # VERSION \/ e.seq # i
      BY <2>1, <2>6, <2>7, <3>1
    <3>2. CASE e.version = VERSION /\ e.seq = i /\ ~LinksTo(e, prevHash)
      BY <2>1, <2>6, <2>7, <3>2
    <3>3. CASE placed /\ e.body \notin JSCanonical
      BY <2>1, <2>6, <2>7, <3>3
    <3> QED BY <2>8, <3>1, <3>2, <3>3
  <2>9. CASE placed /\ e.body \in JSCanonical /\ entryHash(e) # e.hash
    BY <2>1, <2>2, <2>6, <2>7, <2>9
  <2>10. CASE placed /\ e.body \in JSCanonical /\ entryHash(e) = e.hash
    <3>1. Recomputed(g) = g.hash /\ g.hash = e.hash
      BY <2>2, <2>4, <2>10
    <3>2. CASE sig = None
      BY <2>1, <2>6, <2>7, <2>10, <3>1, <3>2
    <3>3. CASE sig # None
      BY <2>1, <2>3, <2>5, <2>6, <2>7, <2>10, <3>1, <3>3
    <3> QED BY <3>2, <3>3
  <2> QED BY <2>8, <2>9, <2>10
<1> QED BY <1>1, <1>2

-----------------------------------------------------------------------------
(* One list                                                                 *)

FaultAt(p, i, o) == Fault(p[i], i - 1, IF i = 1 THEN None ELSE p[i - 1], o)
DefectAt(q, i, o) == Defect(q[i], i - 1, Before(q, i), o)

ListBounds(s) == Len(s) \in Nat /\ DOMAIN s = 1 .. Len(s) /\ (s = <<>> <=> Len(s) = 0)

LEMMA ListHasBounds ==
  ASSUME NEW s, IsList(s) PROVE ListBounds(s)
<1>1. s \in Seq(Elements(s))
  BY DEF IsList
<1> QED BY <1>1, EmptySeq DEF ListBounds

(* The position a verdict blames. *)
LEMMA Blamed ==
  ASSUME NEW v, NEW n, NEW k, \E b, r : v = _result(b, n, k, r)
  PROVE  v.broken_at = k
BY DEF _result

(* verify_chain blames nothing before the first defect. *)
LEMMA DefectsComeFirst ==
  ASSUME NoneIsApart, NEW q, IsList(q), NEW o, NEW f \in DOMAIN q,
         \A m \in 1 .. f - 1 : DefectAt(q, m, o) = "none",
         NEW v, v = verify_chain(q, o), v.broken_at # None
  PROVE  v.broken_at \in Int /\ f - 1 =< v.broken_at
<1>1. ListBounds(q) /\ f \in Nat /\ f =< Len(q) /\ q # <<>>
  BY ListHasBounds DEF ListBounds
<1>2. CASE FailsClosed(o)
  <2>1. v = _result(FALSE, Len(q), None, "no trusted issuer keys supplied")
    BY <1>2 DEF verify_chain
  <2>2. v.broken_at = None
    <3>1. \E b, r : v = _result(b, Len(q), None, r)
      BY <2>1
    <3> QED BY <3>1, Blamed
  <2> QED BY <2>2
<1>3. CASE ~FailsClosed(o) /\ Broken(q, o) = {}
  <2>1. \/ v = _result(FALSE, Len(q), Len(q) - 1, "head hash does not match")
        \/ v = _result(TRUE, Len(q), None, "chain intact")
    BY <1>1, <1>3, HeadDecides
  <2>2. v.broken_at = Len(q) - 1
    <3>1. \/ \E b, r : v = _result(b, Len(q), Len(q) - 1, r)
          \/ \E b, r : v = _result(b, Len(q), None, r)
      BY <2>1
    <3> QED BY <3>1, Blamed
  <2> QED BY <1>1, <2>2 DEF ListBounds
<1>4. CASE ~FailsClosed(o) /\ Broken(q, o) # {}
  <2> DEFINE first == FirstBroken(q, o)
  <2>1. v = _result(FALSE, Len(q), first - 1,
                    Defect(q[first], first - 1, Before(q, first), o))
    BY <1>1, <1>4 DEF verify_chain
  <2>2. Broken(q, o) \in SUBSET Nat
    BY <1>1 DEF Broken, ListBounds
  <2>3. first \in Broken(q, o)
    <3>1. \E m \in Broken(q, o) : \A j \in Broken(q, o) : m =< j
      BY <1>4, <2>2, FirstPosition
    <3> QED BY <3>1 DEF FirstBroken
  <2>4. f =< first
    <3> SUFFICES ASSUME first < f PROVE FALSE
      BY <1>1, <2>2, <2>3
    <3>1. first \in 1 .. f - 1 /\ DefectAt(q, first, o) # "none"
      BY <1>1, <2>2, <2>3 DEF Broken, DefectAt, ListBounds
    <3> QED BY <3>1
  <2>5. v.broken_at = first - 1
    <3> HIDE DEF first
    <3> QED BY <2>1 DEF _result
  <2> HIDE DEF first
  <2> QED BY <1>1, <2>2, <2>3, <2>4, <2>5
<1> QED BY <1>2, <1>3, <1>4

(* The loop of verifyChain, with the first fault named. *)
StopsAt(p, i, o) ==
  FaultAt(p, i, o) # "none" /\ \A j \in 1 .. i - 1 : FaultAt(p, j, o) = "none"

LEMMA VerifyChainRule ==
  ASSUME NEW p, NEW o
  PROVE  LET n == Len(p) IN
         verifyChain(p, o) =
           IF FailsClosed(o)
           THEN _result(FALSE, n, None, "no trusted issuer keys supplied")
           ELSE IF n = 0
           THEN _result(o.head = None, 0, None,
                        IF o.head = None THEN "empty chain" ELSE "chain is empty")
           ELSE IF \E i \in 1 .. n : StopsAt(p, i, o)
           THEN _result(FALSE, n, (CHOOSE j \in 1 .. n : StopsAt(p, j, o)) - 1,
                        FaultAt(p, CHOOSE j \in 1 .. n : StopsAt(p, j, o), o))
           ELSE IF o.head # None /\ p[n].hash # o.head
           THEN _result(FALSE, n, n - 1, "head hash does not match")
           ELSE _result(TRUE, n, None, "chain intact")
BY Zenon DEF verifyChain, FailsClosed, FaultAt, StopsAt

(* There is a first fault where there is one. *)
LEMMA FirstFault ==
  ASSUME NEW p, NEW o, NEW n \in Nat,
         \E i \in 1 .. n : FaultAt(p, i, o) # "none"
  PROVE  \E i \in 1 .. n : StopsAt(p, i, o)
<1> DEFINE faults == {i \in 1 .. n : FaultAt(p, i, o) # "none"}
<1>1. PICK first \in faults : \A i \in faults : first =< i
  <2>1. faults \in SUBSET Nat /\ faults # {}
    OBVIOUS
  <2> HIDE DEF faults
  <2> QED BY <2>1, FirstPosition
<1>2. first \in 1 .. n /\ FaultAt(p, first, o) # "none"
  OBVIOUS
<1>3. ASSUME NEW j \in 1 .. first - 1 PROVE FaultAt(p, j, o) = "none"
  <2>1. j \in 1 .. n /\ ~(first =< j)
    BY <1>2
  <2> QED BY <1>1, <2>1
<1> QED BY <1>2, <1>3 DEF StopsAt

LEMMA OneFirstFault ==
  ASSUME NEW p, NEW o, NEW i \in Nat \ {0}, NEW j \in Nat \ {0},
         StopsAt(p, i, o), StopsAt(p, j, o)
  PROVE  i = j
<1>1. i < j => i \in 1 .. j - 1
  OBVIOUS
<1>2. j < i => j \in 1 .. i - 1
  OBVIOUS
<1> QED BY <1>1, <1>2 DEF StopsAt

(* verifyChain reports the first fault ... *)
LEMMA FirstFaultIsReported ==
  ASSUME NEW p, IsList(p), NEW o, ~FailsClosed(o), NEW f \in DOMAIN p, StopsAt(p, f, o)
  PROVE  verifyChain(p, o) = _result(FALSE, Len(p), f - 1, FaultAt(p, f, o))
<1> DEFINE n == Len(p)
<1>1. n \in Nat /\ f \in 1 .. n /\ n # 0
  BY ListHasBounds DEF ListBounds
<1> HIDE DEF n
<1>2. \A j \in 1 .. n : StopsAt(p, j, o) <=> j = f
  BY <1>1, OneFirstFault
<1>3. (CHOOSE j \in 1 .. n : StopsAt(p, j, o)) = f /\ \E i \in 1 .. n : StopsAt(p, i, o)
  BY <1>1, <1>2
<1> QED BY <1>1, <1>3, VerifyChainRule DEF n

(* ... and looks at the head where there is none. *)
LEMMA HeadDecidesBoth ==
  ASSUME NEW p, IsList(p), p # <<>>, NEW o, ~FailsClosed(o),
         \A i \in DOMAIN p : FaultAt(p, i, o) = "none"
  PROVE  verifyChain(p, o) =
           IF o.head # None /\ p[Len(p)].hash # o.head
           THEN _result(FALSE, Len(p), Len(p) - 1, "head hash does not match")
           ELSE _result(TRUE, Len(p), None, "chain intact")
<1> DEFINE n == Len(p)
<1>1. n \in Nat /\ DOMAIN p = 1 .. n /\ n # 0
  BY ListHasBounds DEF ListBounds
<1>2. ~\E i \in 1 .. n : StopsAt(p, i, o)
  BY <1>1 DEF StopsAt
<1> HIDE DEF n
<1> QED BY <1>1, <1>2, VerifyChainRule DEF n

(* Neither port blames anything before the first fault. *)
LEMMA FaultsComeFirst ==
  ASSUME NoneIsApart, NEW p, IsList(p), NEW o, NEW f \in DOMAIN p,
         \A m \in 1 .. f - 1 : FaultAt(p, m, o) = "none",
         NEW v, v = verifyChain(p, o), v.broken_at # None
  PROVE  v.broken_at \in Int /\ f - 1 =< v.broken_at
<1>1. ListBounds(p) /\ f \in Nat \ {0} /\ f =< Len(p) /\ p # <<>>
  BY ListHasBounds DEF ListBounds
<1>2. CASE FailsClosed(o)
  <2>1. v = _result(FALSE, Len(p), None, "no trusted issuer keys supplied")
    BY <1>2, VerifyChainRule
  <2>2. v.broken_at = None
    <3>1. \E b, r : v = _result(b, Len(p), None, r)
      BY <2>1
    <3> QED BY <3>1, Blamed
  <2> QED BY <2>2
<1>3. CASE ~FailsClosed(o) /\ \A i \in DOMAIN p : FaultAt(p, i, o) = "none"
  <2>1. \/ v = _result(FALSE, Len(p), Len(p) - 1, "head hash does not match")
        \/ v = _result(TRUE, Len(p), None, "chain intact")
    BY <1>1, <1>3, HeadDecidesBoth
  <2>2. v.broken_at = Len(p) - 1
    <3>1. \/ \E b, r : v = _result(b, Len(p), Len(p) - 1, r)
          \/ \E b, r : v = _result(b, Len(p), None, r)
      BY <2>1
    <3> QED BY <3>1, Blamed
  <2> QED BY <1>1, <2>2 DEF ListBounds
<1>4. CASE ~FailsClosed(o) /\ ~\A i \in DOMAIN p : FaultAt(p, i, o) = "none"
  <2>1. PICK first \in 1 .. Len(p) : StopsAt(p, first, o)
    BY <1>1, <1>4, FirstFault DEF ListBounds
  <2>2. v = _result(FALSE, Len(p), first - 1, FaultAt(p, first, o))
    BY <1>1, <1>4, <2>1, FirstFaultIsReported DEF ListBounds
  <2>3. v.broken_at = first - 1
    BY <2>2 DEF _result
  <2>4. f =< first
    <3> SUFFICES ASSUME first < f PROVE FALSE
      BY <1>1, <2>1
    <3>1. first \in 1 .. f - 1
      BY <1>1, <2>1
    <3> QED BY <2>1, <3>1 DEF StopsAt
  <2> QED BY <1>1, <2>1, <2>3, <2>4
<1> QED BY <1>2, <1>3, <1>4

-----------------------------------------------------------------------------
(* What Python reads of a list *)
Gotten(p) == [i \in DOMAIN p |-> Get(p[i])]

LEMMA GottenList ==
  ASSUME NEW p, IsList(p)
  PROVE  /\ IsList(Gotten(p)) /\ Len(Gotten(p)) = Len(p) /\ DOMAIN Gotten(p) = DOMAIN p
         /\ \A i \in DOMAIN p : Gotten(p)[i] = Get(p[i])
<1> DEFINE q == Gotten(p)
<1>1. DOMAIN p = 1 .. Len(p) /\ Len(p) \in Nat
  BY DEF IsList
<1>2. /\ q = [i \in 1 .. Len(p) |-> q[i]] /\ DOMAIN q = 1 .. Len(p)
      /\ \A i \in DOMAIN p : q[i] = Get(p[i])
  BY <1>1 DEF Gotten
<1> HIDE DEF q
<1>3. \A i \in 1 .. Len(p) : q[i] \in Elements(q)
  BY <1>2 DEF Elements
<1>4. q \in Seq(Elements(q))
  BY <1>1, <1>2, <1>3
<1>5. Len(q) = Len(p)
  BY <1>1, <1>2, <1>4
<1> QED BY <1>1, <1>2, <1>4, <1>5 DEF IsList, q

LEMMA GottenReadsAs ==
  ASSUME AbsenceIsApart, NEW e, e # None => Unforged(e), NEW g, g = Get(e)
  PROVE  ReadAs(g, e)
<1>1. CASE e = None
  BY <1>1 DEF Get, ReadAs
<1>2. CASE e # None
  <2>1. e.signature # Absent
    <3>1. CASE e.signature = None
      BY <3>1, AbsentAssumption
    <3>2. CASE e.signature # None
      BY <1>2, <3>2 DEF Unforged, IsSignature, AbsenceIsApart
    <3> QED BY <3>1, <3>2
  <2>2. HasShape(e)
    BY <1>2, UnforgedShape
  <2> QED BY <1>2, <2>1, <2>2, GetFields DEF ReadAs, OrNull
<1> QED BY <1>1, <1>2

(* Up to the first fault, the ports find the same where they read alike.    *)
LEMMA FaultsAgree ==
  ASSUME AbsenceIsApart, NEW p, IsList(p), NEW q, DOMAIN q = DOMAIN p,
         \A j \in DOMAIN p : ReadAs(q[j], p[j]),
         NEW o, NEW i \in DOMAIN p, ReadAlike(p[i]),
         i # 1 => ReadAlike(p[i - 1]) /\ FaultAt(p, i - 1, o) = "none"
  PROVE  DefectAt(q, i, o) = FaultAt(p, i, o)
<1> DEFINE before == IF i = 1 THEN None ELSE p[i - 1]
           prev   == Before(q, i)
           e      == p[i]
           g      == q[i]
<1>1. i - 1 \in Nat /\ (i # 1 => i - 1 \in DOMAIN p)
  BY ListHasBounds DEF ListBounds
<1>2. before # None => /\ before.hash \notin {None, Absent}
                       /\ before.timestamp # Absent
  <2>1. CASE i = 1
    BY <2>1
  <2>2. CASE i # 1
    <3>1. p[i - 1] # None /\ entryHash(p[i - 1]) = p[i - 1].hash
      BY <2>2 DEF FaultAt, Fault
    <3>2. p[i - 1].timestamp \in Nat \cup {None}
      BY <2>2, <3>1 DEF ReadAlike
    <3> QED BY <2>2, <3>1, <3>2, AbsentAssumption DEF entryHash, AbsenceIsApart
  <2> QED BY <2>1, <2>2
<1>3. ReadAlike(before)
  BY DEF ReadAlike
<1>4. /\ prev.hash = IF before = None THEN None ELSE before.hash
      /\ prev.timestamp = IF before = None THEN None ELSE before.timestamp
  <2>1. CASE i = 1
    BY <2>1 DEF Before
  <2>2. CASE i # 1
    <3>1. ReadAs(q[i - 1], before)
      BY <1>1, <2>2
    <3>2. before # None
      BY <2>2 DEF FaultAt, Fault
    <3>3. prev = [hash |-> q[i - 1].hash, timestamp |-> q[i - 1].timestamp]
      BY <2>2, <3>1, <3>2 DEF Before, IsObject, ReadAs
    <3> HIDE DEF before, prev
    <3> QED BY <1>2, <3>1, <3>2, <3>3 DEF ReadAs, OrNull
  <2> QED BY <2>1, <2>2
<1>5. ReadAs(g, e) /\ ReadAlike(e)
  OBVIOUS
<1> HIDE DEF before, prev, e, g
<1>6. Defect(g, i - 1, prev, o) = Fault(e, i - 1, before, o)
  BY <1>1, <1>2, <1>3, <1>4, <1>5, FaultIsDefect
<1> QED BY <1>6 DEF DefectAt, FaultAt, before, prev, e, g

(* The verdicts on a list that an editor left are the same, unless the      *)
(* ports read some entry in different ways, at or before whatever index     *)
(* they blame.                                                              *)
LEMMA PortsAgree ==
  ASSUME AbsenceIsApart, NEW p, IsList(p),
         \A i \in DOMAIN p : p[i] # None => Unforged(p[i]), NEW o,
         NEW py, py = verify_chain(Gotten(p), o), NEW ts, ts = verifyChain(p, o)
  PROVE  py = ts \/ \E i \in DOMAIN p :
           /\ ~ReadAlike(p[i])
           /\ \A v \in {py, ts} : v.broken_at # None => i - 1 =< v.broken_at
<1> DEFINE q == Gotten(p)
           n == Len(p)
<1>1. /\ IsList(q) /\ Len(q) = n /\ DOMAIN q = DOMAIN p /\ ListBounds(p) /\ ListBounds(q)
  BY GottenList, ListHasBounds
<1>2. \A i \in DOMAIN p : ReadAs(q[i], p[i])
  BY GottenList, GottenReadsAs
<1>3. py = verify_chain(q, o)
  OBVIOUS
<1> HIDE DEF q
<1>4. CASE FailsClosed(o)
  BY <1>1, <1>3, <1>4, VerifyChainRule DEF verify_chain
<1>5. CASE ~FailsClosed(o) /\ n = 0
  <2> PICK b : b = (o.head = None)
    OBVIOUS
  <2>2. ts = _result(b, 0, None, IF o.head = None THEN "empty chain" ELSE "chain is empty")
    BY <1>5, VerifyChainRule
  <2>3. py = _result(b, 0, None, IF o.head = None THEN "empty chain" ELSE "chain is empty")
    BY <1>1, <1>3, <1>5 DEF verify_chain, ListBounds
  <2> QED BY <2>2, <2>3
<1> DEFINE bad == {i \in DOMAIN p : DefectAt(q, i, o) # "none" \/ FaultAt(p, i, o) # "none"}
<1>6. CASE ~FailsClosed(o) /\ n # 0 /\ bad = {}
  <2>1. /\ \A i \in DOMAIN p : FaultAt(p, i, o) = "none"
        /\ Broken(q, o) = {}
    BY <1>1, <1>6 DEF Broken, DefectAt
  <2>2. q[n].hash = p[n].hash
    <3>1. n \in DOMAIN p
      BY <1>1, <1>6 DEF ListBounds
    <3>2. p[n] # None /\ entryHash(p[n]) = p[n].hash
      BY <2>1, <3>1 DEF FaultAt, Fault
    <3>3. p[n].hash # Absent
      BY <3>2 DEF entryHash, AbsenceIsApart
    <3> QED BY <1>2, <3>1, <3>2, <3>3 DEF ReadAs, OrNull
  <2>3. p # <<>> /\ q # <<>>
    BY <1>1, <1>6 DEF ListBounds
  <2>4. ts = IF o.head # None /\ p[n].hash # o.head
             THEN _result(FALSE, n, n - 1, "head hash does not match")
             ELSE _result(TRUE, n, None, "chain intact")
    BY <1>6, <2>1, <2>3, HeadDecidesBoth
  <2>5. py = IF o.head # None /\ q[n].hash # o.head
             THEN _result(FALSE, n, n - 1, "head hash does not match")
             ELSE _result(TRUE, n, None, "chain intact")
    BY <1>1, <1>3, <1>6, <2>1, <2>3, HeadDecides
  <2>6. CASE o.head # None /\ p[n].hash # o.head
    BY <2>2, <2>4, <2>5, <2>6
  <2>7. CASE ~(o.head # None /\ p[n].hash # o.head)
    BY <2>2, <2>4, <2>5, <2>7
  <2> QED BY <2>6, <2>7
<1>7. CASE ~FailsClosed(o) /\ n # 0 /\ bad # {}
  <2>1. PICK f \in bad : \A i \in bad : f =< i
    <3>1. bad \in SUBSET Nat
      BY <1>1 DEF ListBounds
    <3> HIDE DEF bad
    <3> QED BY <1>7, <3>1, FirstPosition
  <2>2. f \in DOMAIN p /\ f \in Nat \ {0} /\ 1 .. f \subseteq DOMAIN p
    BY <1>1 DEF ListBounds
  <2>3. \A m \in 1 .. f - 1 : DefectAt(q, m, o) = "none" /\ FaultAt(p, m, o) = "none"
    <3> TAKE m \in 1 .. f - 1
    <3>1. m \in DOMAIN p /\ ~(f =< m)
      BY <2>2
    <3> QED BY <2>1, <3>1
  <2>4. CASE \A i \in 1 .. f : ReadAlike(p[i])
    <3>1. DefectAt(q, f, o) = FaultAt(p, f, o)
      <4>1. f # 1 => f - 1 \in 1 .. f /\ f - 1 \in 1 .. f - 1
        BY <2>2
      <4>2. f \in 1 .. f
        BY <2>2
      <4> QED BY <1>1, <1>2, <2>2, <2>3, <2>4, <4>1, <4>2, FaultsAgree
    <3>2. FaultAt(p, f, o) # "none" /\ DefectAt(q, f, o) # "none"
      BY <3>1
    <3>3. StopsAt(p, f, o)
      BY <2>3, <3>2 DEF StopsAt
    <3>4. ts = _result(FALSE, n, f - 1, FaultAt(p, f, o))
      BY <1>7, <2>2, <3>3, FirstFaultIsReported
    <3>5. py = _result(FALSE, n, f - 1, DefectAt(q, f, o))
      <4>1. /\ \A m \in 1 .. f - 1 : Defect(q[m], m - 1, Before(q, m), o) = "none"
            /\ Defect(q[f], f - 1, Before(q, f), o) # "none"
        BY <2>3, <3>2 DEF DefectAt
      <4> QED BY <1>1, <1>3, <1>7, <2>2, <4>1, FirstDefectIsReported DEF DefectAt
    <3> QED BY <3>1, <3>4, <3>5
  <2>5. ASSUME NEW i \in 1 .. f, ~ReadAlike(p[i]), NEW v \in {py, ts}, v.broken_at # None
        PROVE  i - 1 =< v.broken_at /\ i \in DOMAIN p
    <3>1. v.broken_at \in Int /\ f - 1 =< v.broken_at
      <4>1. CASE v = py
        BY <1>1, <1>3, <2>2, <2>3, <2>5, <4>1, DefectsComeFirst DEF AbsenceIsApart
      <4>2. CASE v = ts
        BY <2>2, <2>3, <2>5, <4>2, FaultsComeFirst DEF AbsenceIsApart
      <4> QED BY <4>1, <4>2
    <3> QED BY <2>2, <3>1
  <2> QED BY <2>2, <2>4, <2>5
<1> QED BY <1>1, <1>4, <1>5, <1>6, <1>7 DEF ListBounds

-----------------------------------------------------------------------------
(* The pack                                                                 *)

(* A key deleted takes no signature of a writer from where it was.          *)
LEMMA StrippedIsHarmless ==
  ASSUME NEW e, Unforged(e), NEW key \in Keys
  PROVE  Unforged([e EXCEPT ![key] = Absent])
<1> DEFINE d == [e EXCEPT ![key] = Absent]
<1>1. HasShape(e)
  BY UnforgedShape
<1>2. HasShape(d)
  <2> DEFINE Left(f) == IF f = key THEN Absent ELSE e[f]
  <2>1. DOMAIN e = {"version", "seq", "timestamp", "actor", "body", "prev_hash", "hash",
                    "signature", "extra"}
    BY <1>1 DEF HasShape, Shape
  <2>2. d = [f \in DOMAIN e |-> Left(f)]
    OBVIOUS
  <2> HIDE DEF Left
  <2>3. d = Shape(Left("version"), Left("seq"), Left("timestamp"), Left("actor"), Left("body"),
                  Left("prev_hash"), Left("hash"), Left("signature"), Left("extra"))
    BY <2>1, <2>2 DEF Shape
  <2> HIDE DEF d
  <2> QED BY <2>3 DEF HasShape, Shape
<1>3. d.signature = e.signature
  BY <1>1 DEF HasShape, Shape, Keys
<1> HIDE DEF d
<1>4. Unforged(d)
  BY <1>2, <1>3 DEF Unforged, HasShape, Shape
<1> QED BY <1>4 DEF d

PortsInv == HistoryOK /\ PackOK

LEMMA PortsInvHolds == PortsSpec => []PortsInv
<1>1. EvidenceInit => PortsInv
  BY PackInit, HistoryInit DEF EvidenceInit, PortsInv
<1>2. PortsInv /\ [PortsNext]_evars => PortsInv'
  <2> SUFFICES ASSUME PortsInv, [PortsNext]_evars PROVE PortsInv'
    OBVIOUS
  <2>1. CASE [EvidenceNext]_evars
    BY <2>1, PackStep, HistoryKept DEF PortsInv
  <2>2. CASE Strip
    <3>1. PICK i \in DOMAIN pack, key \in Keys :
            pack[i] # None /\ Put(i, [pack[i] EXCEPT ![key] = Absent])
      BY <2>2 DEF Strip
    <3>2. Unforged(pack[i])
      BY <3>1, PackElements DEF PortsInv
    <3>3. Harmless([pack[i] EXCEPT ![key] = Absent])
      BY <3>2, StrippedIsHarmless DEF Harmless
    <3>4. PackOK'
      BY <3>1, <3>3, PutKeeps DEF PortsInv
    <3>5. UNCHANGED vars
      BY <3>1 DEF Put, Edit, vars
    <3> QED BY <3>4, <3>5, HistoryStep DEF PortsInv
  <2> QED BY <2>1, <2>2 DEF PortsNext
<1> QED BY <1>1, <1>2, PTL DEF PortsSpec

(* Whatever is wrong with the entries, the ports say the same of them to    *)
(* every caller, down to the index and the reason, or some entry at or      *)
(* before the one they blame holds a value they read in different ways      *)
(* (verifyChain, verify_chain).                                             *)
THEOREM VerdictsAreTheSame ==
  ASSUME AbsenceIsApart PROVE PortsSpec => []SameVerdict
<1>1. PortsInv => SameVerdict
  <2> SUFFICES ASSUME PortsInv, NEW o
               PROVE  LET py == PythonVerdict(o)
                          ts == verifyChain(pack, o)
                      IN  py = ts \/ \E i \in DOMAIN pack :
                            /\ ~ReadAlike(pack[i])
                            /\ \A v \in {py, ts} : v.broken_at # None => i - 1 =< v.broken_at
    BY DEF SameVerdict
  <2>1. IsList(pack) /\ \A i \in DOMAIN pack : pack[i] # None => Unforged(pack[i])
    BY PackElements DEF PortsInv
  <2>2. PythonVerdict(o) = verify_chain(Gotten(pack), o)
    BY DEF PythonVerdict, Gotten
  <2> QED BY <2>1, <2>2, PortsAgree
<1> QED BY <1>1, PortsInvHolds, PTL

-----------------------------------------------------------------------------
(* Acceptance                                                               *)

(* What Python reads of a harmless entry is harmless. *)
LEMMA GottenIsUnforged ==
  ASSUME AbsenceIsApart, NEW e, e # None, Unforged(e)
  PROVE  Unforged(Get(e))
<1>1. HasShape(e)
  BY UnforgedShape
<1>2. PICK g : g = Get(e)
  OBVIOUS
<1>3. HasShape(g) /\ g.signature = e.signature
  BY <1>1, <1>2, GetFields, GottenReadsAs DEF ReadAs
<1>4. Unforged(g)
  BY <1>3 DEF Unforged, HasShape, Shape
<1> QED BY <1>2, <1>4

(* What was issued carries an index, a time and the actor, hashed with the  *)
(* rest.                                                                    *)
LEMMA IssuedFields ==
  ASSUME HistoryOK, NEW d \in Issued
  PROVE  /\ d.timestamp \in Nat /\ d.actor = Actor /\ d.seq \in Nat
         /\ Recomputed(d) = d.hash
<1>1. PICK s \in held : d \in Elements(s)
  BY DEF Issued
<1>2. PICK i \in DOMAIN s : d = s[i]
  BY <1>1 DEF Elements
<1>3. IsWritten(d) /\ Linked(s) /\ i \in Nat /\ i # 0
  BY <1>1 DEF HistoryOK, IsList
<1>4. d.seq = i - 1 /\ d.seq \in Nat /\ Recomputed(d) = d.hash
  BY <1>2, <1>3 DEF Linked
<1>5. d.timestamp \in Nat /\ d.actor = Actor
  BY <1>3, TimeAssumption DEF IsWritten
<1> QED BY <1>4, <1>5

(* A text as b64encode writes it is the same bytes to both ports. *)
LEMMA StandardIsAlike ==
  ASSUME NEW bytes
  PROVE  TextAlike(b64(bytes)) /\ Buffer(b64(bytes)) = bytes /\ ~Throws(b64(bytes))
BY DEF TextAlike, Undecodable, Throws, unb64, Buffer, b64

(* What Buffer.from takes for a writer's signature holds its bytes. *)
LEMMA BufferedIsSigned ==
  ASSUME NEW text, NEW hash, NEW key \in Writers,
         Buffer(text) = sign(hash, Buffer(KeyText(key)))
  PROVE  /\ text.bytes = sign(hash, key) /\ Buffer(text) = text.bytes
         /\ text.bytes.by \in Writers /\ text.bytes.signed = hash
<1>1. key \in Key /\ key # None /\ KeyText(key) = b64(key)
  BY KeyOfAssumption DEF Writers, KeyText
<1>2. Buffer(text) = sign(hash, key)
  BY <1>1, StandardIsAlike
<1>3. Junk # sign(hash, key)
  BY <1>1 DEF Junk, sign
<1>4. Buffer(text) = text.bytes
  BY <1>2, <1>3 DEF Buffer
<1> QED BY <1>2, <1>4 DEF sign

(* An entry whose signature's bytes both ports see under a writer's key,    *)
(* with the number, the time and the actor it was signed with.              *)
LEMMA SignedIsReadAlike ==
  ASSUME NEW e, e # None, BodyAlike(e.body),
         e.actor = Actor, Actor # Absent, e.timestamp \in Nat, e.seq \in Nat,
         e.signature # None, e.signature.public_key \in Writers,
         TextAlike(e.signature.value)
  PROVE  ReadAlike(e)
<1>1. e.signature.public_key \in Key
  BY KeyOfAssumption DEF Writers
<1>2. ~Unhashable(e.signature.public_key) /\ TextAlike(KeyText(e.signature.public_key))
  BY <1>1, KeyDecoding, StandardIsAlike DEF KeyText
<1>3. e.seq \notin {True, False}
  BY BooleanAssumption
<1> QED BY <1>2, <1>3 DEF ReadAlike

AlikeBelow ==
  \A i \in DOMAIN pack : pack[i] # None =>
    /\ BodyAlike(pack[i].body)
    /\ pack[i].signature # None => SameBytes(pack[i].signature.value)

(* Python accepts no entry that it reads in another way than TypeScript:    *)
(* neither None nor true is what was signed.                                *)
LEMMA PythonAcceptsAlike ==
  ASSUME AbsenceIsApart, PortsInv, AlikeBelow, NEW monotonic, NEW head,
         verify_chain(Gotten(pack), Auditor(monotonic, head)).valid
  PROVE  \A i \in DOMAIN pack : ReadAlike(pack[i])
<1> DEFINE q == Gotten(pack)
           o == Auditor(monotonic, head)
<1>1. /\ IsList(pack) /\ DOMAIN pack = 1 .. Len(pack) /\ Len(pack) \in Nat
      /\ IsList(q) /\ Len(q) = Len(pack) /\ DOMAIN q = DOMAIN pack
      /\ \A i \in DOMAIN pack : q[i] = Get(pack[i])
  <2>1. IsList(pack)
    BY PackElements DEF PortsInv
  <2> QED BY <2>1, GottenList DEF IsList
<1>2. verify_chain(q, o).valid
  OBVIOUS
<1> HIDE DEF q, o
<1>3. SUFFICES ASSUME NEW i \in DOMAIN pack PROVE ReadAlike(pack[i])
  OBVIOUS
<1>4. q # <<>>
  BY <1>1
<1>5. ASSUME NEW j \in DOMAIN q, q[j] # None PROVE Unforged(q[j])
  <2>1. pack[j] # None
    BY <1>1, <1>5 DEF Get
  <2>2. Unforged(pack[j])
    BY <1>1, <2>1, PackElements DEF PortsInv
  <2> QED BY <1>1, <2>1, <2>2, GottenIsUnforged
<1>6. PICK s \in held : Len(s) = Len(q) /\ Content(q) = Content(s)
  <2>1. verify_chain(q, Auditor(monotonic, head)).valid
    BY <1>2 DEF o
  <2> QED BY <1>1, <1>4, <1>5, <2>1, AcceptedIsOld DEF PortsInv
<1> DEFINE e == pack[i]
           g == q[i]
<1>7. /\ g # None /\ g.signature # None /\ g.signature.public_key \in Writers
      /\ ~Undecodable(g.signature.value)
      /\ unb64(g.signature.value) = sign(g.hash, unb64(KeyText(g.signature.public_key)))
  <2>1. o.trusted = Writers /\ Writers # None
    <3>1. Writers \in SUBSET Key
      BY KeyOfAssumption DEF Writers
    <3> QED BY <3>1 DEF o, Auditor, Options, AbsenceIsApart, NoneIsApart
  <2> QED BY <1>1, <1>2, <1>4, <2>1, AcceptedMeans
<1>8. g.timestamp \in Nat /\ g.actor = Actor /\ g.seq \in Nat
  <2>1. s \in Seq(Elements(s))
    BY DEF PortsInv, HistoryOK, IsList
  <2>2. i \in DOMAIN s
    BY <1>1, <1>6, <2>1
  <2>3. s[i] \in Issued
    BY <2>2 DEF Issued, Elements
  <2>4. Said(g) = Said(s[i])
    <3>1. Content(q)[i] = Content(s)[i]
      BY <1>6
    <3> QED BY <1>1, <2>2, <3>1 DEF Content
  <2> HIDE DEF g
  <2>5. g.seq = s[i].seq /\ g.timestamp = s[i].timestamp /\ g.actor = s[i].actor
    BY <2>4 DEF Said
  <2> QED BY <2>3, <2>5, IssuedFields DEF PortsInv
<1>9. e # None /\ ReadAs(g, e)
  <2>1. e # None
    BY <1>1, <1>7 DEF Get
  <2>2. Unforged(e)
    BY <2>1, PackElements DEF PortsInv
  <2> QED BY <1>1, <2>1, <2>2, GottenReadsAs
<1>10. BodyAlike(e.body) /\ (e.signature # None => SameBytes(e.signature.value))
  BY <1>9 DEF AlikeBelow
<1> HIDE DEF e, g
<1>11. /\ e.timestamp \in Nat /\ e.actor = Actor /\ e.seq \in Nat
       /\ e.signature = g.signature /\ Actor # Absent
  BY <1>8, <1>9 DEF ReadAs, OrNull, AbsenceIsApart, NoneIsApart
<1>12. TextAlike(e.signature.value)
  <2>1. unb64(e.signature.value) = e.signature.value.bytes /\ ~Undecodable(e.signature.value)
    BY <1>7, <1>11, SeenIsSigned
  <2> QED BY <1>7, <1>10, <1>11, <2>1 DEF SameBytes, TextAlike
<1>13. ReadAlike(e)
  BY <1>7, <1>9, <1>10, <1>11, <1>12, SignedIsReadAlike
<1> QED BY <1>13 DEF e

(* TypeScript accepts a list only if no position has a fault. *)
LEMMA AcceptedHasNoFault ==
  ASSUME NEW p, IsList(p), NEW o, verifyChain(p, o).valid
  PROVE  ~FailsClosed(o) /\ \A i \in DOMAIN p : FaultAt(p, i, o) = "none"
<1> DEFINE n == Len(p)
           v == verifyChain(p, o)
<1>1. n \in Nat /\ DOMAIN p = 1 .. n
  BY DEF IsList
<1>2. v.valid
  OBVIOUS
<1> HIDE DEF n, v
<1>3. \A k, b, r : ~_result(FALSE, k, b, r).valid
  BY DEF _result
<1>4. ~FailsClosed(o) /\ (n = 0 \/ ~\E i \in 1 .. n : StopsAt(p, i, o))
  BY <1>2, <1>3, VerifyChainRule, Zenon DEF n, v
<1>5. ASSUME NEW i \in 1 .. n PROVE FaultAt(p, i, o) = "none"
  <2>1. n # 0
    BY <1>1
  <2>2. ~\E j \in 1 .. n : FaultAt(p, j, o) # "none"
    BY <1>1, <1>4, <2>1, FirstFault
  <2> QED BY <2>2
<1> QED BY <1>1, <1>4, <1>5

(* What TypeScript accepts under pinned keys, entry by entry. *)
LEMMA TypeScriptAccepts ==
  ASSUME PortsInv, NoneIsApart, NEW monotonic, NEW head,
         verifyChain(pack, Auditor(monotonic, head)).valid,
         NEW i \in DOMAIN pack, NEW e, e = pack[i]
  PROVE  /\ e # None /\ e.version = VERSION /\ e.seq = i - 1 /\ i - 1 \in Nat
         /\ OrNull(e.prev_hash) = IF i = 1 THEN None ELSE pack[i - 1].hash
         /\ i # 1 => i - 1 \in DOMAIN pack /\ pack[i - 1] # None
         /\ entryHash(e) = e.hash
         /\ e.signature # None /\ e.signature.public_key \in Writers
         /\ ~Throws(e.signature.value)
         /\ Buffer(e.signature.value) = sign(e.hash, e.signature.public_key)
         /\ Buffer(e.signature.value) = e.signature.value.bytes
         /\ \E d \in Issued : d.hash = e.hash
<1> DEFINE o == Auditor(monotonic, head)
<1>1. IsList(pack) /\ i - 1 \in Nat /\ (i # 1 => i - 1 \in DOMAIN pack)
  BY PackElements, ListHasBounds DEF PortsInv, ListBounds
<1>2. \A j \in DOMAIN pack : FaultAt(pack, j, o) = "none"
  BY <1>1, AcceptedHasNoFault
<1>3. o.trusted = Writers /\ Writers # None
  <2>1. Writers \in SUBSET Key
    BY KeyOfAssumption DEF Writers
  <2> QED BY <2>1 DEF Auditor, Options, NoneIsApart
<1> HIDE DEF o
<1>4. i # 1 => pack[i - 1] # None
  BY <1>1, <1>2 DEF FaultAt, Fault
<1>5. /\ e # None /\ e.version = VERSION /\ e.seq = i - 1
      /\ LinksTo(e, IF i = 1 THEN None ELSE pack[i - 1].hash)
      /\ entryHash(e) = e.hash
      /\ e.signature # None /\ e.signature.public_key \in Writers
      /\ ~Throws(e.signature.value)
      /\ Buffer(e.signature.value) = sign(e.hash, Buffer(KeyText(e.signature.public_key)))
  <2> DEFINE before == IF i = 1 THEN None ELSE pack[i - 1]
  <2>1. Fault(e, i - 1, before, o) = "none"
    BY <1>2 DEF FaultAt
  <2>2. (IF before = None THEN None ELSE before.hash)
          = IF i = 1 THEN None ELSE pack[i - 1].hash
    BY <1>4
  <2> HIDE DEF before
  <2> QED BY <1>3, <2>1, <2>2 DEF Fault, verify
<1>6. /\ e.signature.value.bytes.by \in Writers
      /\ e.signature.value.bytes.signed = e.hash
      /\ e.signature.value.bytes = sign(e.hash, e.signature.public_key)
      /\ Buffer(e.signature.value) = e.signature.value.bytes
  BY <1>5, BufferedIsSigned
<1>7. \E d \in Issued : d.hash = e.hash
  BY <1>5, <1>6, PackElements, SignedIsIssued DEF PortsInv
<1> QED BY <1>1, <1>4, <1>5, <1>6, <1>7 DEF LinksTo

(* Nor does TypeScript accept what Python reads in another way.             *)
LEMMA TypeScriptAcceptsAlike ==
  ASSUME AbsenceIsApart, PortsInv, AlikeBelow, NEW monotonic, NEW head,
         verifyChain(pack, Auditor(monotonic, head)).valid
  PROVE  \A i \in DOMAIN pack : ReadAlike(pack[i])
<1> SUFFICES ASSUME NEW i \in DOMAIN pack PROVE ReadAlike(pack[i])
  OBVIOUS
<1> DEFINE e == pack[i]
<1>0. NoneIsApart
  BY DEF AbsenceIsApart
<1>1. /\ e # None /\ e.seq = i - 1 /\ i - 1 \in Nat /\ entryHash(e) = e.hash
      /\ e.signature # None /\ e.signature.public_key \in Writers
      /\ ~Throws(e.signature.value)
      /\ Buffer(e.signature.value) = e.signature.value.bytes
      /\ \E d \in Issued : d.hash = e.hash
  BY <1>0, TypeScriptAccepts
<1>2. BodyAlike(e.body) /\ SameBytes(e.signature.value)
  BY <1>1 DEF AlikeBelow
<1> HIDE DEF e
<1>3. PICK d \in Issued : d.hash = e.hash
  BY <1>1
<1>4. d.timestamp \in Nat /\ d.actor = Actor /\ Recomputed(d) = d.hash
  BY IssuedFields DEF PortsInv
<1>5. e.timestamp = d.timestamp /\ e.actor = d.actor
  <2>1. entry_hash(d.seq, d.timestamp, d.actor, d.body, d.prev_hash)
          = entry_hash(e.seq, e.timestamp, e.actor, JSForm[e.body], OrNull(e.prev_hash))
    BY <1>1, <1>3, <1>4 DEF Recomputed, entryHash
  <2> QED BY <2>1 DEF entry_hash
<1>6. TextAlike(e.signature.value)
  BY <1>1, <1>2 DEF SameBytes, TextAlike
<1>7. Actor # Absent
  BY DEF AbsenceIsApart
<1>8. ReadAlike(e)
  BY <1>1, <1>2, <1>4, <1>5, <1>6, <1>7, SignedIsReadAlike
<1> QED BY <1>8 DEF e

(* Under pinned keys the ports accept the same packs, whatever keys were    *)
(* deleted from the entries and whatever number or text became true, with   *)
(* and without the order of times or an anchored head, as long as they read *)
(* the bodies and the signatures' bytes alike.                              *)
THEOREM AcceptanceIsTheSame ==
  ASSUME AbsenceIsApart PROVE PortsSpec => []SameAcceptance
<1>1. PortsInv => SameAcceptance
  <2> SUFFICES ASSUME PortsInv, AlikeBelow, NEW o \in Pinned
               PROVE  PythonVerdict(o).valid = verifyChain(pack, o).valid
    BY DEF SameAcceptance, AlikeBelow
  <2>1. PICK monotonic, head : o = Auditor(monotonic, head)
    BY DEF Pinned
  <2>2. PythonVerdict(o) = verify_chain(Gotten(pack), o)
    BY DEF PythonVerdict, Gotten
  <2>3. IsList(pack) /\ \A i \in DOMAIN pack : pack[i] # None => Unforged(pack[i])
    BY PackElements DEF PortsInv
  <2>4. CASE \A i \in DOMAIN pack : ReadAlike(pack[i])
    BY <2>2, <2>3, <2>4, PortsAgree
  <2>5. CASE ~\A i \in DOMAIN pack : ReadAlike(pack[i])
    <3>1. ~PythonVerdict(o).valid
      BY <2>1, <2>2, <2>5, PythonAcceptsAlike
    <3>2. ~verifyChain(pack, o).valid
      BY <2>1, <2>5, TypeScriptAcceptsAlike
    <3>3. PythonVerdict(o).valid \in BOOLEAN /\ verifyChain(pack, o).valid \in BOOLEAN
      BY DEF PythonVerdict, verify_chain, verifyChain, _result
    <3> QED BY <3>1, <3>2, <3>3
  <2> QED BY <2>4, <2>5
<1> QED BY <1>1, PortsInvHolds, PTL

(* What verifyChain accepts under pinned keys says, as it reads it, what    *)
(* some Chain once held, however it takes base64, a missing link and a      *)
(* number past what a double holds.                                         *)
THEOREM AcceptedBesideAreHeld ==
  ASSUME NoneIsApart PROVE PortsSpec => []AcceptedBesideWasHeld
<1>1. PortsInv => AcceptedBesideWasHeld
  <2> SUFFICES ASSUME PortsInv, NEW monotonic, NEW head,
                      verifyChain(pack, Auditor(monotonic, head)).valid
               PROVE  \E s \in held : [i \in DOMAIN pack |-> Seen(pack[i])] = Content(s)
    BY DEF AcceptedBesideWasHeld, Pinned
  <2>1. ListBounds(pack)
    BY PackElements, ListHasBounds DEF PortsInv
  <2>2. CASE pack = <<>>
    BY <2>2 DEF PortsInv, HistoryOK, Content
  <2>3. CASE pack # <<>>
    <3> DEFINE n == Len(pack)
               Sight(e) == [seq |-> e.seq, timestamp |-> e.timestamp, actor |-> e.actor,
                            body |-> JSForm[e.body], prev_hash |-> OrNull(e.prev_hash),
                            hash |-> e.hash]
               r == [i \in DOMAIN pack |-> Sight(pack[i])]
    <3>1. n \in Nat \ {0} /\ DOMAIN r = 1 .. n /\ DOMAIN pack = 1 .. n /\ n \in DOMAIN pack
      BY <2>1, <2>3 DEF ListBounds
    <3>2. ASSUME NEW i \in DOMAIN r
          PROVE  /\ index(r[i].seq) = i - 1
                 /\ r[i].prev_hash = IF i = 1 THEN None ELSE r[i - 1].hash
                 /\ r[i].hash = Recomputed(r[i])
      <4>1. /\ pack[i].seq = i - 1 /\ i - 1 \in Nat
            /\ OrNull(pack[i].prev_hash) = IF i = 1 THEN None ELSE pack[i - 1].hash
            /\ i # 1 => i - 1 \in DOMAIN pack
            /\ entryHash(pack[i]) = pack[i].hash
        BY TypeScriptAccepts
      <4>2. index(pack[i].seq) = i - 1
        BY <4>1, IndexOfNumber
      <4>3. Recomputed(Sight(pack[i])) = entryHash(pack[i])
        BY DEF Recomputed, entryHash
      <4> QED BY <4>1, <4>2, <4>3
    <3>3. PICK d \in Issued : d.hash = r[n].hash
      BY <3>1, TypeScriptAccepts
    <3>4. \A i \in DOMAIN pack : Said(r[i]) = Seen(pack[i])
      BY DEF Said, Seen
    <3> HIDE DEF r, n
    <3>5. LinkedAsRead(r)
      BY <3>2 DEF LinkedAsRead
    <3>6. PICK s \in held : Content(r) = Content(s)
      BY <3>1, <3>3, <3>5, SignedIsOld DEF PortsInv
    <3> QED BY <3>1, <3>4, <3>6 DEF Content
  <2> QED BY <2>2, <2>3
<1> QED BY <1>1, PortsInvHolds, PTL
=============================================================================
