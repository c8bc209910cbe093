--------------------------- MODULE ChainLogProofs ---------------------------
(***************************************************************************)
(* Module ChainLog for any threads, Chains, keys and entries: its types,   *)
(* the shape of what lost races leave behind, that verify_chain finds      *)
(* every race, and that the damage stays where it is.                      *)
(*                                                                         *)
(* TypeOK is not inductive: what Open restores is any exported list, so    *)
(* the types of every list ever held are needed, and what Build signs with *)
(* is the key ReadLength found.  Nor does the shape of the lists follow    *)
(* from itself: it needs what a call in flight has read, which stays true  *)
(* of a list that only grows and is dropped with its call when the list is *)
(* opened again.                                                           *)
(*                                                                         *)
(* With one writer per Chain, the four steps of append implement the one   *)
(* step of an append-only trail (module Trails), whatever crashes, forks   *)
(* and roll-backs lie between them; and what a Chain holds verifies.  The  *)
(* inductive invariant of that part (OInv) says that what a call in flight *)
(* has read is still the length and the head of the list, as nobody else   *)
(* writes it.                                                              *)
(***************************************************************************)
EXTENDS ChainLog, EntriesProofs

IsLog(s) == IsList(s) /\ \A i \in DOMAIN s : IsEntry(s[i])

IsTyped(t) == call[t] # None => /\ IsCall(call[t])
                                /\ call[t].chain \in Uses[t]
                                /\ KeyOf[call[t].chain] \in Key

IInv ==
  /\ entries \in [Handle -> held]
  /\ \A s \in held : IsLog(s)
  /\ exported \in held
  /\ call = [t \in Thread |-> call[t]]
  /\ \A t \in Thread : IsTyped(t)
  /\ now \in 0 .. MaxTime
  /\ skewed \in BOOLEAN

LEMMA InvariantTypes == IInv => TypeOK
BY DEF IInv, TypeOK, IsLog, IsTyped

(* Only the call of t changes, and it becomes c. *)
LEMMA CallKeeps ==
  ASSUME IInv, NEW t \in Thread, NEW c, call' = [call EXCEPT ![t] = c],
         c # None => /\ IsCall(c) /\ c.chain \in Uses[t] /\ KeyOf[c.chain] \in Key
  PROVE  /\ call' = [u \in Thread |-> call'[u]]
         /\ \A u \in Thread : IsTyped(u)'
<1>1. \A u \in Thread : call'[u] = IF u = t THEN c ELSE call[u]
  BY DEF IInv
<1>2. ASSUME NEW u \in Thread PROVE IsTyped(u)'
  BY <1>1 DEF IInv, IsTyped, IsCall, IsEntry
<1> QED BY <1>2 DEF IInv

(* A logged list grown by an entry is a logged list. *)
LEMMA GrownLog ==
  ASSUME NEW s, IsLog(s), NEW e, IsEntry(e)
  PROVE  IsLog(Append(s, e))
<1> DEFINE longer == Append(s, e)
<1>1. s \in Seq(Elements(s) \cup {e})
  BY DEF IsLog, IsList, Elements
<1>2. /\ longer \in Seq(Elements(s) \cup {e})
      /\ DOMAIN longer = 1 .. Len(s) + 1
      /\ \A i \in 1 .. Len(s) : longer[i] = s[i]
      /\ longer[Len(s) + 1] = e
  BY <1>1
<1>3. \A i \in DOMAIN longer : longer[i] \in Elements(longer) /\ IsEntry(longer[i])
  BY <1>1, <1>2 DEF Elements, IsLog
<1>4. longer \in Seq(Elements(longer))
  BY <1>2, <1>3
<1> QED BY <1>3, <1>4 DEF IsLog, IsList

LEMMA TypesInit == Init => IInv
<1> SUFFICES ASSUME Init PROVE IInv
  OBVIOUS
<1>1. IsLog(<<>>)
  BY DEF IsLog, IsList, Elements
<1>2. 0 \in 0 .. MaxTime
  BY BoundAssumption
<1>3. \A t \in Thread : IsTyped(t)
  BY DEF Init, IsTyped
<1> QED BY <1>1, <1>2, <1>3 DEF Init, IInv

LEMMA ReadLengthTypes == ASSUME IInv, NEW t \in Thread, ReadLength(t) PROVE IInv'
<1>1. PICK h \in Uses[t], body \in Body, timestamp \in CallerTime \cup {None} :
        /\ KeyOf[h] # None
        /\ call' = [call EXCEPT ![t] =
             [at |-> "head", chain |-> h, body |-> body, timestamp |-> timestamp,
              seq |-> Len(entries[h])]]
  BY DEF ReadLength
<1> DEFINE c == [at |-> "head", chain |-> h, body |-> body, timestamp |-> timestamp,
                 seq |-> Len(entries[h])]
<1>2. h \in Handle /\ KeyOf[h] \in Key
  BY <1>1, HandleAssumption
<1>3. Len(entries[h]) \in Nat
  BY <1>2, LenProperties DEF IInv, IsLog, IsList
<1>4. c.chain = h /\ c.at = "head" /\ c.seq \in Nat /\ c.body \in Body
      /\ c.timestamp \in CallerTime \cup {None}
  BY <1>3
<1>5. IsCall(c) /\ c.chain \in Uses[t] /\ KeyOf[c.chain] \in Key
  <2> HIDE DEF c
  <2> QED BY <1>2, <1>4 DEF IsCall
<1>6. call' = [u \in Thread |-> call'[u]] /\ \A u \in Thread : IsTyped(u)'
  <2>1. call' = [call EXCEPT ![t] = c]
    BY <1>1
  <2> HIDE DEF c
  <2> QED BY <1>5, <2>1, CallKeeps
<1> QED BY <1>6 DEF IInv, ReadLength

LEMMA ReadHeadTypes == ASSUME IInv, NEW t \in Thread, ReadHead(t) PROVE IInv'
<1> DEFINE c == [at |-> "build", chain |-> call[t].chain, body |-> call[t].body,
                 timestamp |-> call[t].timestamp, seq |-> call[t].seq,
                 prev_hash |-> head_hash(entries[call[t].chain])]
<1>1. IsTyped(t) /\ call[t] # None /\ call[t].at = "head" /\ call' = [call EXCEPT ![t] = c]
  BY DEF IInv, ReadHead
<1>2. /\ c.at = "build" /\ c.chain = call[t].chain /\ c.body = call[t].body
      /\ c.timestamp = call[t].timestamp /\ c.seq = call[t].seq
  OBVIOUS
<1>3. IsCall(c) /\ c.chain \in Uses[t] /\ KeyOf[c.chain] \in Key
  <2> HIDE DEF c
  <2> QED BY <1>1, <1>2 DEF IsTyped, IsCall
<1>4. call' = [u \in Thread |-> call'[u]] /\ \A u \in Thread : IsTyped(u)'
  <2> HIDE DEF c
  <2> QED BY <1>1, <1>3, CallKeeps
<1> QED BY <1>4 DEF IInv, ReadHead

(* What append puts into the list is an entry. *)
LEMMA BuildTypes == ASSUME IInv, NEW t \in Thread, Build(t) PROVE IInv'
<1> DEFINE c == call[t]
           entry == build_entry(c.seq, Stamp(c), Actor, c.body, c.prev_hash, KeyOf[c.chain])
           pushing == [at |-> "push", chain |-> c.chain, entry |-> entry]
           next == IF c.body \in Appendable THEN pushing ELSE None
<1>1. /\ IsCall(c) /\ c.chain \in Uses[t] /\ KeyOf[c.chain] \in Key
      /\ c.at = "build" /\ call' = [call EXCEPT ![t] = next]
  BY DEF IInv, IsTyped, Build, Built, Prepared
<1>2. c.seq \in Nat /\ c.timestamp \in CallerTime \cup {None}
  <2> HIDE DEF c
  <2> QED BY <1>1 DEF IsCall
<1>3. Stamp(c) \in 0 .. MaxTime
  <2> HIDE DEF c
  <2> QED BY <1>2, BoundAssumption DEF Stamp, IInv
<1>4. /\ entry.seq = c.seq /\ entry.timestamp = Stamp(c) /\ entry.body = c.body
      /\ entry.signature.public_key = KeyOf[c.chain]
  BY DEF build_entry
<1>5. c.body \in Appendable => IsEntry(entry)
  <2> HIDE DEF c, entry
  <2> QED BY <1>1, <1>2, <1>3, <1>4 DEF IsEntry
<1>6. next # None => IsCall(next) /\ next.chain \in Uses[t] /\ KeyOf[next.chain] \in Key
  <2>1. pushing.at = "push" /\ pushing.chain = c.chain /\ pushing.entry = entry
    OBVIOUS
  <2>2. c.chain \in Handle
    <3> HIDE DEF c
    <3> QED BY <1>1 DEF IsCall
  <2>3. c.body \in Appendable => IsCall(pushing)
    <3> HIDE DEF pushing, entry, c
    <3> QED BY <1>5, <2>1, <2>2 DEF IsCall
  <2> HIDE DEF pushing, entry, c
  <2> QED BY <1>1, <2>1, <2>3
<1>7. call' = [u \in Thread |-> call'[u]] /\ \A u \in Thread : IsTyped(u)'
  <2> HIDE DEF next
  <2> QED BY <1>1, <1>6, CallKeeps
<1>8. skewed' \in BOOLEAN
  BY DEF Build
<1> QED BY <1>7, <1>8 DEF IInv, Build

LEMMA PushTypes == ASSUME IInv, NEW t \in Thread, Push(t) PROVE IInv'
<1> DEFINE h == call[t].chain
           longer == Append(entries[h], call[t].entry)
<1>1. /\ IsCall(call[t]) /\ call[t].at = "push"
      /\ entries' = [entries EXCEPT ![h] = longer] /\ held' = held \cup {longer}
      /\ call' = [call EXCEPT ![t] = None]
      /\ UNCHANGED <<now, exported, skewed>>
  BY DEF IInv, IsTyped, Push
<1>2. h \in Handle /\ IsEntry(call[t].entry)
  BY <1>1 DEF IsCall
<1>3. IsLog(longer)
  BY <1>2, GrownLog DEF IInv
<1>4. entries' \in [Handle -> held']
  <2> HIDE DEF longer, h
  <2> QED BY <1>1, <1>2 DEF IInv
<1>5. \A s \in held' : IsLog(s)'
  <2>1. \A s \in held' : IsLog(s)
    <3> HIDE DEF longer, h
    <3> QED BY <1>1, <1>3 DEF IInv
  <2> QED BY <2>1 DEF IsLog, IsEntry
<1>6. call' = [u \in Thread |-> call'[u]] /\ \A u \in Thread : IsTyped(u)'
  BY <1>1, CallKeeps
<1> QED BY <1>1, <1>4, <1>5, <1>6 DEF IInv

LEMMA OpenTypes == ASSUME IInv, NEW h \in Handle, Open(h) PROVE IInv'
<1>1. entries' \in [Handle -> held'] /\ \A s \in held' : IsLog(s)
  BY DEF IInv, Open, OtherCalls
<1>2. \A u \in Thread : call'[u] \in {call[u], None}
  BY DEF Open, OtherCalls
<1>3. \A u \in Thread : IsTyped(u)'
  BY <1>2 DEF IInv, IsTyped, IsCall, IsEntry
<1>4. call' = [u \in Thread |-> call'[u]]
  BY DEF Open, OtherCalls
<1> QED BY <1>1, <1>3, <1>4 DEF IInv, Open

LEMMA ClockTypes == ASSUME IInv, Tick \/ StepBack PROVE IInv'
<1>1. now' \in 0 .. MaxTime
  BY BoundAssumption DEF IInv, Tick, StepBack
<1>2. UNCHANGED <<entries, call, exported, held>> /\ skewed' \in BOOLEAN
  BY DEF IInv, Tick, StepBack
<1>3. \A u \in Thread : IsTyped(u)'
  BY <1>2 DEF IInv, IsTyped
<1> QED BY <1>1, <1>2, <1>3 DEF IInv

LEMMA TypesStep == IInv /\ [Next]_vars => IInv'
<1> SUFFICES ASSUME IInv, [Next]_vars PROVE IInv'
  OBVIOUS
<1>1. ASSUME NEW t \in Thread, ReadLength(t) PROVE IInv'
  BY <1>1, ReadLengthTypes
<1>2. ASSUME NEW t \in Thread, ReadHead(t) PROVE IInv'
  BY <1>2, ReadHeadTypes
<1>3. ASSUME NEW t \in Thread, Build(t) PROVE IInv'
  BY <1>3, BuildTypes
<1>4. ASSUME NEW t \in Thread, Push(t) PROVE IInv'
  BY <1>4, PushTypes
<1>5. ASSUME NEW h \in Handle, Export(h) PROVE IInv'
  <2>1. \A u \in Thread : IsTyped(u)'
    BY <1>5 DEF IInv, IsTyped, Export
  <2> QED BY <1>5, <2>1 DEF IInv, Export
<1>6. ASSUME NEW h \in Handle, Open(h) PROVE IInv'
  BY <1>6, OpenTypes
<1>7. CASE Tick \/ StepBack
  BY <1>7, ClockTypes
<1>8. CASE UNCHANGED vars
  <2>1. \A u \in Thread : IsTyped(u)'
    BY <1>8 DEF IInv, IsTyped, vars
  <2> QED BY <1>8, <2>1 DEF IInv, vars
<1> QED BY <1>1, <1>2, <1>3, <1>4, <1>5, <1>6, <1>7, <1>8 DEF Next

(* Whatever the threads, Chains, keys, payloads and times: the variables of *)
(* ChainLog keep their types, in every interleaving of appends, exports,    *)
(* crashes and changes of the clock (Chain.append, Chain.open, to_json).    *)
THEOREM TypeInvariant == Spec => []TypeOK
<1>1. Spec => []IInv
  BY TypesInit, TypesStep, PTL DEF Spec
<1> QED BY <1>1, InvariantTypes, PTL

-----------------------------------------------------------------------------
(* Races                                                                    *)

(* The link is the head of the list as it stood at a length from seq to n. *)
Fits(seq, link, s, n) == \E j \in seq .. n : link = head_hash(SubSeq(s, 1, j))

Shaped(s) == \A i \in DOMAIN s : Fits(s[i].seq, s[i].prev_hash, s, i - 1)

(* Every entry is as build_entry made it for a writer. *)
Signed(s) == \A i \in DOMAIN s : IsBuilt(s[i], Writers)

Racing(c, s) ==
  /\ c.at = "head" => c.seq =< Len(s)
  /\ c.at = "build" => Fits(c.seq, c.prev_hash, s, Len(s))
  /\ c.at = "push" => /\ Fits(c.entry.seq, c.entry.prev_hash, s, Len(s))
                      /\ IsBuilt(c.entry, Writers)

RInv ==
  /\ IInv
  /\ \A s \in held : Shaped(s) /\ Signed(s)
  /\ \A t \in Thread : call[t] # None => Racing(call[t], entries[call[t].chain])

(* What fits a list fits every list that extends it. *)
LEMMA FitsLonger ==
  ASSUME NEW s, IsList(s), NEW e, NEW n \in 0 .. Len(s), NEW seq \in Nat, NEW link,
         NEW m \in n .. Len(s) + 1
  PROVE  /\ Fits(seq, link, s, n) => Fits(seq, link, Append(s, e), m)
         /\ Fits(seq, link, s, n) => Fits(seq, link, Append(s, e), n)
<1>1. s \in Seq(Elements(s) \cup {e}) /\ Len(s) \in Nat
  BY DEF IsList
<1>2. ASSUME NEW j \in 0 .. Len(s)
      PROVE  SubSeq(Append(s, e), 1, j) = SubSeq(s, 1, j)
  BY <1>1
<1>3. seq .. n \subseteq 0 .. Len(s) /\ seq .. n \subseteq seq .. m
  BY <1>1
<1> QED BY <1>2, <1>3 DEF Fits

(* Pushing an entry that fits keeps the shape. *)
LEMMA ShapedLonger ==
  ASSUME NEW s, IsLog(s), Shaped(s), Signed(s), NEW e, IsEntry(e),
         Fits(e.seq, e.prev_hash, s, Len(s)), IsBuilt(e, Writers)
  PROVE  Shaped(Append(s, e)) /\ Signed(Append(s, e))
<1> DEFINE u == Append(s, e)
<1>1. s \in Seq(Elements(s) \cup {e}) /\ Len(s) \in Nat /\ DOMAIN s = 1 .. Len(s)
  BY DEF IsLog, IsList
<1>2. /\ DOMAIN u = 1 .. Len(s) + 1 /\ u[Len(s) + 1] = e
      /\ \A i \in 1 .. Len(s) : u[i] = s[i]
  BY <1>1
<1>3. ASSUME NEW i \in DOMAIN u
      PROVE  Fits(u[i].seq, u[i].prev_hash, u, i - 1) /\ IsBuilt(u[i], Writers)
  <2> HIDE DEF u
  <2>1. CASE i = Len(s) + 1
    <3>1. e.seq \in Nat /\ Len(s) \in 0 .. Len(s) /\ Len(s) \in Len(s) .. Len(s) + 1
      BY <1>1 DEF IsEntry
    <3>2. Fits(e.seq, e.prev_hash, u, Len(s))
      BY <3>1, FitsLonger DEF IsLog, u
    <3>3. u[i] = e /\ i - 1 = Len(s)
      BY <1>1, <1>2, <2>1
    <3> QED BY <3>2, <3>3
  <2>2. CASE i # Len(s) + 1
    <3>1. i \in 1 .. Len(s) /\ i - 1 \in 0 .. Len(s) /\ i - 1 \in i - 1 .. Len(s) + 1
      BY <1>1, <1>2, <2>2
    <3>2. s[i].seq \in Nat /\ Fits(s[i].seq, s[i].prev_hash, s, i - 1) /\ IsBuilt(s[i], Writers)
      BY <1>1, <3>1 DEF IsLog, IsEntry, Shaped, Signed
    <3>3. Fits(s[i].seq, s[i].prev_hash, u, i - 1)
      BY <3>1, <3>2, FitsLonger DEF IsLog, u
    <3> QED BY <1>2, <3>1, <3>2, <3>3
  <2> QED BY <2>1, <2>2
<1> QED BY <1>3 DEF Shaped, Signed

(* What a call has read stays true of a list that has grown. *)
LEMMA RacingLonger ==
  ASSUME NEW s, IsList(s), NEW e, NEW c, IsCall(c), Racing(c, s)
  PROVE  Racing(c, Append(s, e))
<1>1. s \in Seq(Elements(s) \cup {e}) /\ Len(s) \in Nat
  BY DEF IsList
<1>2. /\ Len(Append(s, e)) = Len(s) + 1
      /\ Len(s) \in 0 .. Len(s) /\ Len(s) + 1 \in Len(s) .. Len(s) + 1
  BY <1>1
<1>3. CASE c.at = "head"
  <2>1. c.seq \in Nat /\ c.seq =< Len(s)
    BY <1>3 DEF IsCall, Racing
  <2> QED BY <1>1, <1>2, <1>3, <2>1 DEF Racing
<1>4. CASE c.at = "build"
  <2>1. c.seq \in Nat /\ Fits(c.seq, c.prev_hash, s, Len(s))
    BY <1>4 DEF IsCall, Racing
  <2>2. Fits(c.seq, c.prev_hash, Append(s, e), Len(s) + 1)
    BY <1>2, <2>1, FitsLonger
  <2> QED BY <1>2, <1>4, <2>2 DEF Racing
<1>5. CASE c.at = "push"
  <2>1. c.entry.seq \in Nat /\ Fits(c.entry.seq, c.entry.prev_hash, s, Len(s))
    BY <1>5 DEF IsCall, IsEntry, Racing
  <2>2. Fits(c.entry.seq, c.entry.prev_hash, Append(s, e), Len(s) + 1)
    BY <1>2, <2>1, FitsLonger
  <2> QED BY <1>2, <1>5, <2>2 DEF Racing
<1> QED BY <1>3, <1>4, <1>5 DEF IsCall

-----------------------------------------------------------------------------
(* Every step keeps the shape                                               *)

(* Only the call of t changes, and it becomes c; the lists stay. *)
LEMMA CallKeepsRace ==
  ASSUME RInv, IInv', NEW t \in Thread, NEW c, call' = [call EXCEPT ![t] = c],
         UNCHANGED <<entries, held>>, c # None => Racing(c, entries[c.chain])
  PROVE  RInv'
<1>1. \A u \in Thread : call'[u] = IF u = t THEN c ELSE call[u]
  BY DEF RInv, IInv
<1>2. \A s \in held' : Shaped(s) /\ Signed(s)'
  BY DEF RInv, Signed, Writers
<1>3. ASSUME NEW u \in Thread, call'[u] # None
      PROVE  Racing(call'[u], entries[call'[u].chain])
  BY <1>1, <1>3 DEF RInv
<1> QED BY <1>2, <1>3 DEF RInv, Racing

LEMMA RaceInit == Init => RInv
<1> SUFFICES ASSUME Init PROVE RInv
  OBVIOUS
<1>1. Shaped(<<>>) /\ Signed(<<>>)
  BY DEF Shaped, Signed
<1> QED BY <1>1, TypesInit DEF Init, RInv

LEMMA ReadLengthRaces ==
  ASSUME RInv, IInv', NEW t \in Thread, ReadLength(t) PROVE RInv'
<1>1. PICK h \in Uses[t], body \in Body, timestamp \in CallerTime \cup {None} :
        call' = [call EXCEPT ![t] =
          [at |-> "head", chain |-> h, body |-> body, timestamp |-> timestamp,
           seq |-> Len(entries[h])]]
  BY DEF ReadLength
<1> DEFINE c == [at |-> "head", chain |-> h, body |-> body, timestamp |-> timestamp,
                 seq |-> Len(entries[h])]
<1>2. c.at = "head" /\ c.chain = h /\ c.seq = Len(entries[h])
  OBVIOUS
<1>3. Len(entries[h]) \in Nat
  BY HandleAssumption DEF RInv, IInv, IsLog, IsList
<1>4. Racing(c, entries[c.chain])
  <2> HIDE DEF c
  <2> QED BY <1>2, <1>3 DEF Racing
<1>5. call' = [call EXCEPT ![t] = c] /\ UNCHANGED <<entries, held>>
  BY <1>1 DEF ReadLength
<1> HIDE DEF c
<1> QED BY <1>4, <1>5, CallKeepsRace

LEMMA ReadHeadRaces ==
  ASSUME RInv, IInv', NEW t \in Thread, ReadHead(t) PROVE RInv'
<1> DEFINE h == call[t].chain
           s == entries[h]
           c == [at |-> "build", chain |-> h, body |-> call[t].body,
                 timestamp |-> call[t].timestamp, seq |-> call[t].seq,
                 prev_hash |-> head_hash(s)]
<1>1. /\ call[t] # None /\ call[t].at = "head" /\ IsCall(call[t])
      /\ Racing(call[t], s) /\ call' = [call EXCEPT ![t] = c]
  BY DEF RInv, IInv, IsTyped, ReadHead
<1>2. c.at = "build" /\ c.chain = h /\ c.seq = call[t].seq /\ c.prev_hash = head_hash(s)
  OBVIOUS
<1>3. s \in Seq(Elements(s)) /\ Len(s) \in Nat
  BY <1>1 DEF RInv, IInv, IsLog, IsList, IsCall
<1>4. SubSeq(s, 1, Len(s)) = s
  <2> HIDE DEF s
  <2> QED BY <1>3
<1>5. c.seq \in Nat /\ c.seq =< Len(s)
  <2> HIDE DEF c, s
  <2> QED BY <1>1, <1>2 DEF IsCall, Racing
<1>6. Fits(c.seq, c.prev_hash, s, Len(s))
  <2>1. Len(s) \in c.seq .. Len(s)
    <3> HIDE DEF c, s
    <3> QED BY <1>3, <1>5
  <2> HIDE DEF c, s
  <2> QED BY <1>2, <1>4, <2>1 DEF Fits
<1>7. Racing(c, entries[c.chain])
  <2>1. entries[c.chain] = s
    OBVIOUS
  <2> HIDE DEF c, s
  <2> QED BY <1>2, <1>6, <2>1 DEF Racing
<1> HIDE DEF c
<1> QED BY <1>1, <1>7, CallKeepsRace DEF ReadHead

LEMMA BuildRaces ==
  ASSUME RInv, IInv', NEW t \in Thread, Build(t) PROVE RInv'
<1> DEFINE c == call[t]
           entry == build_entry(c.seq, Stamp(c), Actor, c.body, c.prev_hash, KeyOf[c.chain])
           pushing == [at |-> "push", chain |-> c.chain, entry |-> entry]
           next == IF c.body \in Appendable THEN pushing ELSE None
<1>1. /\ c # None /\ c.at = "build" /\ IsCall(c) /\ KeyOf[c.chain] \in Key
      /\ Racing(c, entries[c.chain]) /\ call' = [call EXCEPT ![t] = next]
  BY DEF RInv, IInv, IsTyped, Build, Built, Prepared
<1>2. KeyOf[c.chain] \in Writers
  <2>1. c.chain \in Handle
    <3> HIDE DEF c
    <3> QED BY <1>1 DEF IsCall
  <2> HIDE DEF c
  <2> QED BY <1>1, <2>1, KeyAssumption DEF Writers
<1>3. entry.seq = c.seq /\ entry.prev_hash = c.prev_hash
  BY DEF build_entry
<1>4. IsBuilt(entry, Writers)
  <2> HIDE DEF c
  <2> QED BY <1>2 DEF IsBuilt, build_entry
<1>5. next # None => Racing(next, entries[next.chain])
  <2>1. pushing.at = "push" /\ pushing.chain = c.chain /\ pushing.entry = entry
    OBVIOUS
  <2>2. Fits(entry.seq, entry.prev_hash, entries[c.chain], Len(entries[c.chain]))
    <3> HIDE DEF c, entry
    <3> QED BY <1>1, <1>3 DEF Racing
  <2> HIDE DEF pushing, entry, c
  <2> QED BY <1>4, <2>1, <2>2 DEF Racing
<1> HIDE DEF next
<1> QED BY <1>1, <1>5, CallKeepsRace DEF Build

LEMMA PushRaces ==
  ASSUME RInv, IInv', NEW t \in Thread, Push(t) PROVE RInv'
<1> DEFINE h == call[t].chain
           e == call[t].entry
           s == entries[h]
           longer == Append(s, e)
<1>1. /\ call[t] # None /\ call[t].at = "push" /\ IsCall(call[t])
      /\ Racing(call[t], s)
      /\ entries' = [entries EXCEPT ![h] = longer] /\ held' = held \cup {longer}
      /\ call' = [call EXCEPT ![t] = None]
  BY DEF RInv, IInv, IsTyped, Push
<1>2. /\ h \in Handle /\ IsEntry(e) /\ s \in held
      /\ Fits(e.seq, e.prev_hash, s, Len(s)) /\ IsBuilt(e, Writers)
  BY <1>1 DEF RInv, IInv, IsCall, Racing
<1>3. IsLog(s) /\ Shaped(s) /\ Signed(s)
  BY <1>2 DEF RInv, IInv
<1>4. Shaped(longer) /\ Signed(longer)
  <2> HIDE DEF s, e
  <2> QED BY <1>2, <1>3, ShapedLonger
<1>5. \A u \in held' : Shaped(u) /\ Signed(u)'
  <2> HIDE DEF longer
  <2> QED BY <1>1, <1>4 DEF RInv, Signed, Writers
<1>6. ASSUME NEW u \in Thread, call'[u] # None
      PROVE  Racing(call'[u], entries'[call'[u].chain])
  <2>1. call'[u] = call[u] /\ IsCall(call[u]) /\ Racing(call[u], entries[call[u].chain])
    BY <1>1, <1>6 DEF RInv, IInv, IsTyped
  <2>2. CASE call[u].chain = h
    <3>1. entries'[call[u].chain] = longer
      <4> HIDE DEF longer
      <4> QED BY <1>1, <1>2, <2>2 DEF RInv, IInv
    <3>2. Racing(call[u], s)
      BY <2>1, <2>2
    <3>3. Racing(call[u], longer)
      <4> HIDE DEF s, e
      <4> QED BY <1>3, <2>1, <3>2, RacingLonger DEF IsLog
    <3> QED BY <2>1, <3>1, <3>3
  <2>3. CASE call[u].chain # h
    <3>1. entries'[call[u].chain] = entries[call[u].chain]
      <4> HIDE DEF longer
      <4> QED BY <1>1, <2>1, <2>3 DEF RInv, IInv, IsCall
    <3> QED BY <2>1, <3>1
  <2> QED BY <2>2, <2>3
<1> QED BY <1>5, <1>6 DEF RInv, Racing

LEMMA OpenRaces ==
  ASSUME RInv, IInv', NEW h \in Handle, Open(h) PROVE RInv'
<1>1. \A u \in held' : Shaped(u) /\ Signed(u)'
  BY DEF RInv, Open, Signed, Writers
<1>2. ASSUME NEW u \in Thread, call'[u] # None
      PROVE  Racing(call'[u], entries'[call'[u].chain])
  <2>1. call'[u] = call[u] /\ call[u] # None /\ call[u].chain # h
    BY <1>2 DEF Open, OtherCalls
  <2>2. call[u].chain \in Handle
    BY <2>1 DEF RInv, IInv, IsTyped, IsCall
  <2>3. entries'[call[u].chain] = entries[call[u].chain]
    BY <2>1, <2>2 DEF RInv, IInv, Open
  <2> QED BY <2>1, <2>3 DEF RInv
<1> QED BY <1>1, <1>2 DEF RInv, Racing

LEMMA RaceStep == RInv /\ [Next]_vars => RInv'
<1> SUFFICES ASSUME RInv, [Next]_vars PROVE RInv'
  OBVIOUS
<1>1. IInv'
  BY TypesStep DEF RInv
<1>2. CASE UNCHANGED <<entries, call, held>>
  <2>1. \A u \in held' : Shaped(u) /\ Signed(u)'
    BY <1>2 DEF RInv, Signed, Writers
  <2> QED BY <1>1, <1>2, <2>1 DEF RInv, Racing
<1>3. ASSUME NEW t \in Thread, ReadLength(t) \/ ReadHead(t) \/ Build(t) \/ Push(t)
      PROVE  RInv'
  BY <1>1, <1>3, ReadLengthRaces, ReadHeadRaces, BuildRaces, PushRaces
<1>4. ASSUME NEW h \in Handle, Open(h) PROVE RInv'
  BY <1>1, <1>4, OpenRaces
<1>5. ASSUME NEW h \in Handle, Export(h) PROVE RInv'
  BY <1>2, <1>5 DEF Export
<1>6. CASE Tick \/ StepBack \/ UNCHANGED vars
  BY <1>2, <1>6 DEF Tick, StepBack, vars
<1> QED BY <1>3, <1>4, <1>5, <1>6 DEF Next

(* What is in the lists and in the calls in flight, in every interleaving.  *)
THEOREM RaceInvariant == Spec => []RInv
<1> QED BY RaceInit, RaceStep, PTL DEF Spec

(* A lost race repeats an index and never skips one, and links to an entry  *)
(* between its index and its position (the order in which append reads the  *)
(* length and the head and pushes), for any number of threads.              *)
THEOREM RacesHaveOneShape == Spec => []RaceShape
<1>1. RInv => RaceShape
  BY DEF RInv, IInv, RaceShape, Shaped, Fits
<1> QED BY <1>1, RaceInvariant, PTL

-----------------------------------------------------------------------------
(* verify_chain on what a race left behind                                  *)

LEMMA WritersAreKeys == Writers \in SUBSET Key /\ (NoneIsApart => Writers # None)
BY HandleAssumption DEF Writers, NoneIsApart

Late(s) == {i \in DOMAIN s : s[i].seq # i - 1}

(* An entry at its own index links to the entry before it. *)
LEMMA OnTimeLinks ==
  ASSUME NEW s, IsLog(s), Shaped(s), Signed(s), NoneIsApart,
         NEW i \in DOMAIN s, s[i].seq = i - 1
  PROVE  s[i].prev_hash = Before(s, i).hash
<1>1. s \in Seq(Elements(s)) /\ Len(s) \in Nat /\ i \in 1 .. Len(s)
  BY DEF IsLog, IsList
<1>2. PICK j \in s[i].seq .. i - 1 : s[i].prev_hash = head_hash(SubSeq(s, 1, j))
  BY DEF Shaped, Fits
<1>3. j = i - 1
  BY <1>1, <1>2
<1>4. CASE i = 1
  BY <1>1, <1>2, <1>3, <1>4 DEF head_hash, Before
<1>5. CASE i # 1
  <2>1. i - 1 \in DOMAIN s /\ i - 1 \in 1 .. Len(s)
    BY <1>1, <1>5
  <2>2. Len(SubSeq(s, 1, i - 1)) = i - 1 /\ SubSeq(s, 1, i - 1)[i - 1] = s[i - 1]
    BY <1>1, <2>1
  <2>3. SubSeq(s, 1, i - 1) # <<>>
    BY <2>1, <2>2
  <2>4. s[i].prev_hash = s[i - 1].hash
    BY <1>2, <1>3, <2>2, <2>3 DEF head_hash
  <2>5. s[i - 1] # None
    BY <2>1 DEF NoneIsApart, Signed
  <2> QED BY <1>5, <2>4, <2>5 DEF Before, IsObject
<1> QED BY <1>4, <1>5

(* The positions whose check fails are those of the overtaken entries. *)
LEMMA BrokenIsLate ==
  ASSUME NEW s, IsLog(s), Shaped(s), Signed(s), NoneIsApart, NEW head
  PROVE  /\ Broken(s, Auditor(FALSE, head)) = Late(s)
         /\ \A i \in Late(s) :
              Defect(s[i], i - 1, Before(s, i), Auditor(FALSE, head)) = "seq mismatch"
<1> DEFINE o == Auditor(FALSE, head)
<1>1. o.trusted = Writers /\ o.monotonic = FALSE
  BY DEF Auditor, Options
<1> HIDE DEF o
<1>2. ASSUME NEW i \in DOMAIN s
      PROVE  /\ s[i] # None /\ s[i].signature # None /\ s[i].version = VERSION
             /\ s[i].body \in Canonical /\ Recomputed(s[i]) = s[i].hash
             /\ s[i].signature.public_key \in Writers
             /\ OwnDefect(s[i], Before(s, i), o) = "none"
  <2> DEFINE e == s[i]
  <2>1. /\ e = build_entry(e.seq, e.timestamp, e.actor, e.body, e.prev_hash,
                           e.signature.public_key)
        /\ e.signature.public_key \in Writers /\ e.body \in Appendable
        /\ e # None /\ e.signature # None
    BY DEF Signed, IsBuilt, NoneIsApart, IsLog, IsEntry
  <2>2. ASSUME NEW seq, NEW ts, NEW actor, NEW body, NEW link, NEW key
        PROVE  LET b == build_entry(seq, ts, actor, body, link, key)
               IN  /\ b.version = VERSION /\ b.hash = entry_hash(seq, ts, actor, body, link)
                   /\ b.signature.value = b64(sign(b.hash, key))
    BY DEF build_entry
  <2> HIDE DEF e
  <2>3. /\ e.version = VERSION
        /\ e.hash = entry_hash(e.seq, e.timestamp, e.actor, e.body, e.prev_hash)
        /\ e.signature.value = b64(sign(e.hash, e.signature.public_key))
    BY <2>1, <2>2
  <2>4. e.body \in Canonical /\ Recomputed(e) = e.hash
    BY <2>1, <2>3 DEF Recomputed, Appendable
  <2>5. e.signature.public_key \in Key
    BY <2>1, WritersAreKeys
  <2>6. OwnDefect(e, Before(s, i), o) = "none"
    BY <1>1, <2>1, <2>3, <2>4, <2>5, Decoding, OwnChecksPass
  <2> QED BY <2>1, <2>3, <2>4, <2>6 DEF e
<1>3. ASSUME NEW i \in Late(s)
      PROVE  Defect(s[i], i - 1, Before(s, i), o) = "seq mismatch"
  <2>1. i \in DOMAIN s /\ s[i].seq # i - 1 /\ s[i].seq \in Nat
    BY DEF Late, IsLog, IsEntry
  <2>2. index(s[i].seq) # i - 1
    BY <2>1, IndexOfNumber
  <2> QED BY <1>2, <2>1, <2>2 DEF Defect, IsObject
<1>4. ASSUME NEW i \in DOMAIN s, i \notin Late(s)
      PROVE  Defect(s[i], i - 1, Before(s, i), o) = "none"
  <2>1. s[i].seq = i - 1
    BY <1>4 DEF Late
  <2>2. s[i].prev_hash = Before(s, i).hash
    BY <2>1, OnTimeLinks
  <2>3. index(s[i].seq) = i - 1
    <3>1. i \in Nat \ {0}
      BY DEF IsLog, IsList
    <3> QED BY <2>1, <3>1, IndexOfNumber
  <2> QED BY <1>2, <2>2, <2>3 DEF Defect, IsObject
<1>5. Late(s) \subseteq DOMAIN s
  BY DEF Late
<1>6. Broken(s, o) = Late(s)
  BY <1>3, <1>4, <1>5 DEF Broken
<1> QED BY <1>3, <1>6 DEF o

(* What verify_chain then returns. *)
LEMMA VerdictOnRaces ==
  ASSUME NEW s, IsLog(s), Shaped(s), Signed(s), NoneIsApart
  PROVE  LET verdict == verify_chain(s, Auditor(FALSE, None)) IN
         /\ verdict.valid <=> Late(s) = {}
         /\ ~verdict.valid => /\ verdict.reason = "seq mismatch"
                             /\ verdict.broken_at + 1 \in Late(s)
                             /\ \A i \in Late(s) : verdict.broken_at + 1 =< i
<1> DEFINE o == Auditor(FALSE, None)
           first == FirstBroken(s, o)
<1>1. ~FailsClosed(o) /\ o.head = None /\ ~HeadMismatch(s, o)
  BY WritersAreKeys DEF FailsClosed, HeadMismatch, Auditor, Options
<1>2. /\ Broken(s, o) = Late(s)
      /\ \A i \in Late(s) : Defect(s[i], i - 1, Before(s, i), o) = "seq mismatch"
  BY BrokenIsLate
<1>3. DOMAIN s = 1 .. Len(s) /\ Len(s) \in Nat /\ Late(s) \in SUBSET Nat
  <2>1. s \in Seq(Elements(s))
    BY DEF IsLog, IsList
  <2>2. DOMAIN s = 1 .. Len(s) /\ Len(s) \in Nat
    BY <2>1
  <2> QED BY <2>2 DEF Late
<1> HIDE DEF o
<1>4. CASE Late(s) = {}
  <2>1. verify_chain(s, o).valid
    BY <1>1, <1>2, <1>4 DEF verify_chain, _result
  <2> QED BY <1>4, <2>1 DEF o
<1>5. CASE Late(s) # {}
  <2>1. first \in Late(s) /\ \A i \in Late(s) : first =< i
    BY <1>2, <1>3, <1>5, FirstPosition DEF FirstBroken
  <2>2. s # <<>>
    BY <1>3, <1>5 DEF Late
  <2> HIDE DEF first
  <2>3. verify_chain(s, o) = _result(FALSE, Len(s), first - 1, "seq mismatch")
    BY <1>1, <1>2, <1>5, <2>1, <2>2 DEF verify_chain, first
  <2>4. ASSUME NEW v, v = _result(FALSE, Len(s), first - 1, "seq mismatch")
        PROVE  /\ v.valid = FALSE /\ v.reason = "seq mismatch"
               /\ v.broken_at = first - 1
    BY <2>4 DEF _result
  <2>5. first \in Nat
    BY <1>3, <2>1
  <2>6. /\ verify_chain(s, o).valid = FALSE
        /\ verify_chain(s, o).reason = "seq mismatch"
        /\ verify_chain(s, o).broken_at = first - 1
    BY <2>3, <2>4, Zenon
  <2>7. \A b : b = first - 1 => b + 1 = first
    BY <2>5
  <2> QED BY <1>5, <2>1, <2>6, <2>7 DEF o
<1> QED BY <1>4, <1>5

(* verify_chain sees every race, and blames the first overtaken entry for   *)
(* its sequence number, whatever the number of threads and of races.        *)
THEOREM RacesAreLocated ==
  ASSUME NoneIsApart PROVE Spec => []RaceIsLocated
<1>1. RInv => RaceIsLocated
  <2> SUFFICES ASSUME RInv, NEW h \in Handle
               PROVE  LET s       == entries[h]
                          verdict == verify_chain(s, Auditor(FALSE, None))
                      IN  /\ verdict.valid <=> Late(s) = {}
                          /\ ~verdict.valid =>
                               /\ verdict.reason = "seq mismatch"
                               /\ verdict.broken_at + 1 \in Late(s)
                               /\ \A i \in Late(s) : verdict.broken_at + 1 =< i
    BY DEF RaceIsLocated, Late
  <2>1. IsLog(entries[h]) /\ Shaped(entries[h]) /\ Signed(entries[h])
    BY DEF RInv, IInv
  <2> QED BY <2>1, VerdictOnRaces
<1> QED BY <1>1, RaceInvariant, PTL

-----------------------------------------------------------------------------
(* Damage stays where it is                                                 *)

(* The verdict on a broken list is the verdict on every list it begins.     *)
LEMMA VerdictStays ==
  ASSUME NEW s, IsList(s), NEW n \in DOMAIN s,
         ~verify_chain(SubSeq(s, 1, n), Auditor(TRUE, None)).valid
  PROVE  verify_chain(s, Auditor(TRUE, None))
           = [verify_chain(SubSeq(s, 1, n), Auditor(TRUE, None)) EXCEPT !.length = Len(s)]
<1> DEFINE p == SubSeq(s, 1, n)
           o == Auditor(TRUE, None)
<1>1. DOMAIN s = 1 .. Len(s) /\ Len(s) \in Nat /\ s # <<>>
  <2>1. s \in Seq(Elements(s))
    BY DEF IsList
  <2> QED BY <2>1
<1>2. /\ p # <<>> /\ Len(p) = n
      /\ Broken(p, o) = Broken(s, o) \cap (1 .. n)
      /\ \A i \in 1 .. n : Defect(p[i], i - 1, Before(p, i), o)
                          = Defect(s[i], i - 1, Before(s, i), o)
  BY BrokenSoFar
<1>3. o.head = None /\ ~HeadMismatch(p, o)
  BY DEF Auditor, Options, HeadMismatch
<1> HIDE DEF p, o
<1>4. \A v, k, b, r : _result(v, k, b, r).valid = v
  BY DEF _result
<1>6. ASSUME NEW v, NEW b, NEW r, verify_chain(s, o) = _result(v, Len(s), b, r),
             verify_chain(p, o) = _result(v, n, b, r)
      PROVE  verify_chain(s, o) = [verify_chain(p, o) EXCEPT !.length = Len(s)]
  <2>1. \A w : w = _result(v, n, b, r) => _result(v, Len(s), b, r) = [w EXCEPT !.length = Len(s)]
    BY ResultOfLength
  <2>2. _result(v, Len(s), b, r) = [verify_chain(p, o) EXCEPT !.length = Len(s)]
    BY <1>6, <2>1, Zenon
  <2> QED BY <1>6, <2>2, Zenon
<1>7. CASE FailsClosed(o)
  <2>1. verify_chain(s, o) = _result(FALSE, Len(s), None, "no trusted issuer keys supplied")
    BY <1>7 DEF verify_chain
  <2>2. verify_chain(p, o) = _result(FALSE, n, None, "no trusted issuer keys supplied")
    BY <1>2, <1>7 DEF verify_chain
  <2>3. verify_chain(s, o) = [verify_chain(p, o) EXCEPT !.length = Len(s)]
    BY <1>6, <2>1, <2>2, Zenon
  <2> QED BY <2>3 DEF p, o
<1>8. CASE ~FailsClosed(o)
  <2>1. Broken(p, o) # {}
    <3> SUFFICES ASSUME Broken(p, o) = {} PROVE FALSE
      OBVIOUS
    <3>1. verify_chain(p, o).valid
      BY <1>2, <1>3, <1>4, <1>8 DEF verify_chain
    <3> QED BY <3>1 DEF p, o
  <2>2. Broken(s, o) # {} /\ Broken(s, o) \in SUBSET Nat
    BY <1>1, <1>2, <2>1 DEF Broken
  <2>3. PICK first \in Broken(s, o) : \A i \in Broken(s, o) : first =< i
    BY <2>2, FirstPosition
  <2>4. first \in Broken(p, o) /\ \A i \in Broken(p, o) : first =< i
    <3>1. PICK i \in Broken(p, o) : TRUE
      BY <2>1
    <3>2. i \in 1 .. n /\ i \in Broken(s, o) /\ n \in Nat
      BY <1>1, <1>2, <3>1
    <3>3. first =< i /\ first \in 1 .. Len(s)
      BY <1>1, <2>3, <3>2 DEF Broken
    <3>4. first \in 1 .. n
      BY <3>2, <3>3
    <3> QED BY <1>2, <2>3, <3>4
  <2>5. FirstBroken(s, o) = first /\ FirstBroken(p, o) = first
    <3>1. \A i \in Broken(s, o) : (\A j \in Broken(s, o) : i =< j) => i = first
      BY <2>2, <2>3
    <3>2. \A i \in Broken(p, o) : (\A j \in Broken(p, o) : i =< j) => i = first
      BY <1>2, <2>2, <2>4
    <3> QED BY <2>3, <2>4, <3>1, <3>2 DEF FirstBroken
  <2> DEFINE why == Defect(s[first], first - 1, Before(s, first), o)
  <2>6. why = Defect(p[first], first - 1, Before(p, first), o)
    BY <1>2, <2>4
  <2> HIDE DEF why
  <2>7. verify_chain(s, o) = _result(FALSE, Len(s), first - 1, why)
    BY <1>1, <1>8, <2>2, <2>5 DEF verify_chain, why
  <2>8. verify_chain(p, o) = _result(FALSE, n, first - 1, why)
    BY <1>2, <1>8, <2>1, <2>5, <2>6 DEF verify_chain
  <2>9. verify_chain(s, o) = [verify_chain(p, o) EXCEPT !.length = Len(s)]
    BY <1>6, <2>7, <2>8, Zenon
  <2> QED BY <2>9 DEF p, o
<1> QED BY <1>7, <1>8

(* Later appends never repair, hide or move the damage a race has done, on  *)
(* lists of any length (verify_chain stops at the first failing entry).     *)
THEOREM DamageIsPermanent == Spec => []DamageStays
<1>1. IInv => DamageStays
  <2> SUFFICES ASSUME IInv, NEW h \in Handle, NEW n \in DOMAIN entries[h],
                      ~verify_chain(SubSeq(entries[h], 1, n), Auditor(TRUE, None)).valid
               PROVE  verify_chain(entries[h], Auditor(TRUE, None))
                        = [verify_chain(SubSeq(entries[h], 1, n), Auditor(TRUE, None))
                             EXCEPT !.length = Len(entries[h])]
    BY DEF DamageStays
  <2>1. IsList(entries[h])
    BY DEF IInv, IsLog
  <2> QED BY <2>1, VerdictStays
<1>2. Spec => []IInv
  BY TypesInit, TypesStep, PTL DEF Spec
<1> QED BY <1>1, <1>2, PTL

-----------------------------------------------------------------------------
(* One writer per Chain                                                     *)

InOrder(c, s) ==
  /\ c.at # "push" => c.seq = Len(s)
  /\ c.at = "build" => c.prev_hash = head_hash(s)
  /\ c.at = "push" =>
       \E body \in Appendable, timestamp \in 0 .. MaxTime :
         c.entry = build_entry(Len(s), timestamp, Actor, body, head_hash(s), KeyOf[c.chain])

OInv ==
  /\ RInv
  /\ \A s \in held : Late(s) = {}
  /\ \A t \in Thread : call[t] # None => InOrder(call[t], entries[call[t].chain])

(* Only the call of t changes, and it becomes c; the lists stay. *)
LEMMA CallKeepsOrder ==
  ASSUME OInv, RInv', NEW t \in Thread, NEW c, call' = [call EXCEPT ![t] = c],
         UNCHANGED <<entries, held>>, c # None => InOrder(c, entries[c.chain])
  PROVE  OInv'
<1>1. \A u \in Thread : call'[u] = IF u = t THEN c ELSE call[u]
  BY DEF OInv, RInv, IInv
<1>2. \A s \in held' : Late(s) = {}
  BY DEF OInv
<1>3. ASSUME NEW u \in Thread, call'[u] # None
      PROVE  InOrder(call'[u], entries[call'[u].chain])
  BY <1>1, <1>3 DEF OInv
<1> QED BY <1>2, <1>3 DEF OInv, InOrder, Late

LEMMA OrderInit == Init => OInv
<1> SUFFICES ASSUME Init PROVE OInv
  OBVIOUS
<1>1. Late(<<>>) = {}
  BY DEF Late
<1> QED BY <1>1, RaceInit DEF Init, OInv

LEMMA ReadLengthOrder ==
  ASSUME OInv, RInv', NEW t \in Thread, ReadLength(t) PROVE OInv'
<1>1. PICK h \in Uses[t], body \in Body, timestamp \in CallerTime \cup {None} :
        call' = [call EXCEPT ![t] =
          [at |-> "head", chain |-> h, body |-> body, timestamp |-> timestamp,
           seq |-> Len(entries[h])]]
  BY DEF ReadLength
<1> DEFINE c == [at |-> "head", chain |-> h, body |-> body, timestamp |-> timestamp,
                 seq |-> Len(entries[h])]
<1>2. c.at = "head" /\ c.chain = h /\ c.seq = Len(entries[h])
  OBVIOUS
<1>3. call' = [call EXCEPT ![t] = c] /\ UNCHANGED <<entries, held>>
  BY <1>1 DEF ReadLength
<1> HIDE DEF c
<1>4. InOrder(c, entries[c.chain])
  BY <1>2 DEF InOrder
<1> QED BY <1>3, <1>4, CallKeepsOrder

LEMMA ReadHeadOrder ==
  ASSUME OInv, RInv', NEW t \in Thread, ReadHead(t) PROVE OInv'
<1> DEFINE h == call[t].chain
           c == [at |-> "build", chain |-> h, body |-> call[t].body,
                 timestamp |-> call[t].timestamp, seq |-> call[t].seq,
                 prev_hash |-> head_hash(entries[h])]
<1>1. /\ call[t] # None /\ call[t].at = "head" /\ InOrder(call[t], entries[h])
      /\ call' = [call EXCEPT ![t] = c] /\ UNCHANGED <<entries, held>>
  BY DEF OInv, ReadHead
<1>2. c.at = "build" /\ c.chain = h /\ c.seq = call[t].seq
      /\ c.prev_hash = head_hash(entries[h])
  OBVIOUS
<1> HIDE DEF c
<1>3. InOrder(c, entries[c.chain])
  BY <1>1, <1>2 DEF InOrder
<1> QED BY <1>1, <1>3, CallKeepsOrder

LEMMA BuildOrder ==
  ASSUME OInv, RInv', NEW t \in Thread, Build(t) PROVE OInv'
<1> DEFINE c == call[t]
           s == entries[c.chain]
           entry == build_entry(c.seq, Stamp(c), Actor, c.body, c.prev_hash, KeyOf[c.chain])
           pushing == [at |-> "push", chain |-> c.chain, entry |-> entry]
           next == IF c.body \in Appendable THEN pushing ELSE None
<1>1. /\ c # None /\ c.at = "build" /\ IsCall(c) /\ InOrder(c, s)
      /\ call' = [call EXCEPT ![t] = next] /\ UNCHANGED <<entries, held>>
  BY DEF OInv, RInv, IInv, IsTyped, Build, Built, Prepared
<1>2. Stamp(c) \in 0 .. MaxTime
  <2>1. c.timestamp \in CallerTime \cup {None}
    <3> HIDE DEF c
    <3> QED BY <1>1 DEF IsCall
  <2> HIDE DEF c
  <2> QED BY <2>1, BoundAssumption DEF Stamp, OInv, RInv, IInv
<1>3. c.seq = Len(s) /\ c.prev_hash = head_hash(s)
  <2> HIDE DEF c, s
  <2> QED BY <1>1 DEF InOrder
<1>4. next # None => InOrder(next, entries[next.chain])
  <2>1. pushing.at = "push" /\ pushing.chain = c.chain /\ pushing.entry = entry
    OBVIOUS
  <2>2. entry = build_entry(Len(s), Stamp(c), Actor, c.body, head_hash(s), KeyOf[c.chain])
    <3> HIDE DEF c, s
    <3> QED BY <1>3
  <2>3. entries[pushing.chain] = s
    BY <2>1
  <2> HIDE DEF pushing, entry, c, s
  <2> QED BY <1>2, <2>1, <2>2, <2>3 DEF InOrder
<1> HIDE DEF next
<1> QED BY <1>1, <1>4, CallKeepsOrder

(* With one writer per Chain nobody else has a call on the Chain of t. *)
LEMMA NobodyElse ==
  ASSUME OneWriter, IInv, NEW t \in Thread, NEW u \in Thread, u # t,
         call[t] # None, call[u] # None
  PROVE  call[u].chain # call[t].chain
BY DEF OneWriter, IInv, IsTyped

(* The list Push leaves is the trail grown by its next entry. *)
LEMMA PushExtends ==
  ASSUME OInv, NEW t \in Thread, Push(t)
  PROVE  LET h == call[t].chain
             s == entries[h]
             longer == Append(s, call[t].entry)
         IN  /\ h \in Handle /\ KeyOf[h] \in Key /\ call[t] # None
             /\ entries' = [entries EXCEPT ![h] = longer]
             /\ held' = held \cup {longer}
             /\ call' = [call EXCEPT ![t] = None]
             /\ \E body \in Appendable, timestamp \in 0 .. MaxTime :
                  call[t].entry =
                    build_entry(Len(s), timestamp, Actor, body, head_hash(s), KeyOf[h])
<1>1. /\ call[t] # None /\ call[t].at = "push" /\ IsCall(call[t])
      /\ KeyOf[call[t].chain] \in Key /\ InOrder(call[t], entries[call[t].chain])
  BY DEF OInv, RInv, IInv, IsTyped, Push
<1>2. call[t].chain \in Handle
  BY <1>1 DEF IsCall
<1> QED BY <1>1, <1>2 DEF Push, InOrder

LEMMA PushOrder ==
  ASSUME OneWriter, OInv, RInv', NEW t \in Thread, Push(t) PROVE OInv'
<1> DEFINE h == call[t].chain
           s == entries[h]
           e == call[t].entry
           longer == Append(s, e)
<1>1. /\ h \in Handle /\ call[t] # None
      /\ entries' = [entries EXCEPT ![h] = longer]
      /\ held' = held \cup {longer}
      /\ call' = [call EXCEPT ![t] = None]
  BY PushExtends
<1>2. e.seq = Len(s)
  <2>1. PICK body \in Appendable, timestamp \in 0 .. MaxTime :
          e = build_entry(Len(s), timestamp, Actor, body, head_hash(s), KeyOf[h])
    BY PushExtends
  <2> HIDE DEF e, s, h
  <2> QED BY <2>1 DEF build_entry
<1>3. Late(longer) = {}
  <2>1. s \in held /\ IsLog(s)
    BY <1>1 DEF OInv, RInv, IInv
  <2>2. s \in Seq(Elements(s) \cup {e}) /\ Len(s) \in Nat /\ DOMAIN s = 1 .. Len(s)
    BY <2>1 DEF IsLog, IsList
  <2>3. \A i \in 1 .. Len(s) : s[i].seq = i - 1
    BY <2>1, <2>2 DEF OInv, Late
  <2> HIDE DEF s, e
  <2>4. /\ DOMAIN longer = 1 .. Len(s) + 1 /\ longer[Len(s) + 1] = e
        /\ \A i \in 1 .. Len(s) : longer[i] = s[i]
    BY <2>2
  <2> HIDE DEF longer
  <2>5. ASSUME NEW i \in DOMAIN longer PROVE longer[i].seq = i - 1
    BY <1>2, <2>2, <2>3, <2>4
  <2> QED BY <2>5 DEF Late
<1>4. \A u \in held' : Late(u) = {}
  <2> HIDE DEF longer
  <2> QED BY <1>1, <1>3 DEF OInv
<1>5. ASSUME NEW u \in Thread, call'[u] # None
      PROVE  InOrder(call'[u], entries'[call'[u].chain])
  <2>1. u # t /\ call'[u] = call[u] /\ call[u] # None
    BY <1>1, <1>5 DEF OInv, RInv, IInv
  <2>2. call[u].chain # h /\ call[u].chain \in Handle
    BY <1>1, <2>1, NobodyElse DEF OInv, RInv, IInv, IsTyped, IsCall
  <2>3. entries'[call[u].chain] = entries[call[u].chain]
    <3> HIDE DEF longer, h
    <3> QED BY <1>1, <2>2 DEF OInv, RInv, IInv
  <2> QED BY <2>1, <2>3 DEF OInv
<1> QED BY <1>4, <1>5 DEF OInv, InOrder, Late

LEMMA OpenOrder ==
  ASSUME OInv, RInv', NEW h \in Handle, Open(h) PROVE OInv'
<1>1. \A s \in held' : Late(s) = {}
  BY DEF OInv, Open
<1>2. ASSUME NEW u \in Thread, call'[u] # None
      PROVE  InOrder(call'[u], entries'[call'[u].chain])
  <2>1. call'[u] = call[u] /\ call[u] # None /\ call[u].chain # h
    BY <1>2 DEF Open, OtherCalls
  <2>2. call[u].chain \in Handle
    BY <2>1 DEF OInv, RInv, IInv, IsTyped, IsCall
  <2>3. entries'[call[u].chain] = entries[call[u].chain]
    BY <2>1, <2>2 DEF OInv, RInv, IInv, Open
  <2> QED BY <2>1, <2>3 DEF OInv
<1> QED BY <1>1, <1>2 DEF OInv, InOrder, Late

LEMMA OrderStep == OneWriter /\ OInv /\ [Next]_vars => OInv'
<1> SUFFICES ASSUME OneWriter, OInv, [Next]_vars PROVE OInv'
  OBVIOUS
<1>1. RInv'
  BY RaceStep DEF OInv
<1>2. CASE UNCHANGED <<entries, call, held>>
  <2>1. \A s \in held' : Late(s) = {}
    BY <1>2 DEF OInv
  <2> QED BY <1>1, <1>2, <2>1 DEF OInv, InOrder, Late
<1>3. ASSUME NEW t \in Thread, ReadLength(t) \/ ReadHead(t) \/ Build(t) \/ Push(t)
      PROVE  OInv'
  BY <1>1, <1>3, ReadLengthOrder, ReadHeadOrder, BuildOrder, PushOrder
<1>4. ASSUME NEW h \in Handle, Open(h) PROVE OInv'
  BY <1>1, <1>4, OpenOrder
<1>5. ASSUME NEW h \in Handle, Export(h) PROVE OInv'
  BY <1>2, <1>5 DEF Export
<1>6. CASE Tick \/ StepBack \/ UNCHANGED vars
  BY <1>2, <1>6 DEF Tick, StepBack, vars
<1> QED BY <1>3, <1>4, <1>5, <1>6 DEF Next

(* What the calls in flight have read stays true of their Chains.           *)
THEOREM OrderInvariant == ASSUME OneWriter PROVE Spec => []OInv
<1>1. OInv /\ [Next]_vars => OInv'
  BY OrderStep
<1> QED BY <1>1, OrderInit, PTL DEF Spec

-----------------------------------------------------------------------------
(* Refinement                                                               *)

(* The operators the trail is defined with are those of the log. *)
LEMMA SameOperators ==
  /\ Abstract!Appendable = Appendable
  /\ \A s : Abstract!head_hash(s) = head_hash(s)
  /\ \A seq, timestamp, body, link, key :
       Abstract!build_entry(seq, timestamp, Actor, body, link, key)
         = build_entry(seq, timestamp, Actor, body, link, key)
BY DEF Appendable, Abstract!Appendable, head_hash, Abstract!head_hash,
       build_entry, Abstract!build_entry, entry_hash, Abstract!entry_hash,
       sign, Abstract!sign, b64, Abstract!b64, VERSION, Abstract!VERSION

LEMMA AbstractInit == Init => Abstract!Init
BY DEF Init, Abstract!Init

(* Every step is one of the trail's, or leaves it alone. *)
LEMMA AbstractStep ==
  ASSUME OInv, [Next]_vars PROVE [Abstract!Next]_(Abstract!vars)
<1>1. ASSUME NEW t \in Thread, Push(t) PROVE Abstract!Next
  <2> DEFINE h == call[t].chain
             s == entries[h]
  <2>1. /\ h \in Handle /\ KeyOf[h] \in Key
        /\ entries' = [entries EXCEPT ![h] = Append(s, call[t].entry)]
        /\ held' = held \cup {Append(s, call[t].entry)}
    BY <1>1, PushExtends
  <2>2. PICK body \in Appendable, timestamp \in 0 .. MaxTime :
          call[t].entry = build_entry(Len(s), timestamp, Actor, body, head_hash(s), KeyOf[h])
    BY <1>1, PushExtends
  <2>3. call[t].entry = Abstract!Next_entry(h, body, timestamp)
    BY <2>2, SameOperators, Zenon DEF Abstract!Next_entry
  <2>4. Abstract!Extend(h)
    <3> HIDE DEF h
    <3> QED BY <2>1, <2>3, SameOperators DEF Abstract!Extend
  <2> QED BY <2>1, <2>4 DEF Abstract!Next
<1>2. ASSUME NEW h \in Handle, Open(h) PROVE Abstract!Next
  <2>1. Abstract!Reopen(h)
    BY <1>2 DEF Open, Abstract!Reopen, OInv, RInv, IInv
  <2> QED BY <2>1 DEF Abstract!Next
<1>3. CASE UNCHANGED <<entries, held>>
  BY <1>3 DEF Abstract!vars
<1>4. ASSUME NEW t \in Thread, ReadLength(t) \/ ReadHead(t) \/ Build(t)
      PROVE  UNCHANGED <<entries, held>>
  BY <1>4 DEF ReadLength, ReadHead, Build
<1>5. ASSUME NEW h \in Handle, Export(h) PROVE UNCHANGED <<entries, held>>
  BY <1>5 DEF Export
<1>6. CASE Tick \/ StepBack \/ UNCHANGED vars
  BY <1>3, <1>6 DEF Tick, StepBack, vars
<1> QED BY <1>1, <1>2, <1>3, <1>4, <1>5, <1>6 DEF Next

(* append in its four steps, with crashes between them, implements the one  *)
(* step of an append-only trail, for any number of Chains, forks and keys.  *)
THEOREM AppendIsAtomic == ASSUME OneWriter PROVE Spec => ImplementsTrails
<1>1. Spec => []OInv
  BY OrderInvariant
<1>2. OInv /\ [Next]_vars => [Abstract!Next]_(Abstract!vars)
  BY AbstractStep
<1> QED BY <1>1, <1>2, AbstractInit, PTL DEF Spec, ImplementsTrails, Abstract!Spec

-----------------------------------------------------------------------------
(* What a Chain holds verifies                                              *)

LEMMA HeldIsLinked ==
  ASSUME OInv, NoneIsApart, NEW s \in held PROVE Linked(s)
<1>1. /\ IsLog(s) /\ Shaped(s) /\ Signed(s) /\ Late(s) = {}
      /\ DOMAIN s = 1 .. Len(s) /\ Len(s) \in Nat
  BY DEF OInv, RInv, IInv, IsLog, IsList
<1>2. ASSUME NEW i \in DOMAIN s
      PROVE  /\ s[i].seq = i - 1
             /\ s[i].prev_hash = IF i = 1 THEN None ELSE s[i - 1].hash
             /\ s[i].hash = Recomputed(s[i])
  <2>1. s[i].seq = i - 1
    BY <1>1 DEF Late
  <2>2. i # 1 => s[i - 1] # None
    BY <1>1 DEF Signed, NoneIsApart
  <2>3. s[i].prev_hash = IF i = 1 THEN None ELSE s[i - 1].hash
    BY <1>1, <2>1, <2>2, OnTimeLinks DEF Before, IsObject
  <2>4. IsBuilt(s[i], Writers)
    BY <1>1 DEF Signed
  <2>5. ASSUME NEW e, IsBuilt(e, Writers) PROVE e.hash = Recomputed(e)
    BY <2>5 DEF IsBuilt, build_entry, Recomputed
  <2> QED BY <2>1, <2>3, <2>4, <2>5
<1> QED BY <1>2 DEF Linked

(* What is in a Chain passes every check but that of an expected head. *)
LEMMA NothingBroken ==
  ASSUME OInv, NoneIsApart, NEW s \in held, NEW head
  PROVE  Broken(s, Auditor(FALSE, head)) = {}
<1>1. IsLog(s) /\ Shaped(s) /\ Signed(s) /\ Late(s) = {}
  BY DEF OInv, RInv, IInv
<1> QED BY <1>1, BrokenIsLate

(* Two lists that were held say the same exactly if they share a head.      *)
LEMMA SameHeadSameContent ==
  ASSUME OInv, NoneIsApart, NEW s \in held, NEW u \in held, u # <<>>
  PROVE  Content(s) = Content(u) <=> s # <<>> /\ head_hash(s) = head_hash(u)
<1>1. /\ DOMAIN s = 1 .. Len(s) /\ Len(s) \in Nat /\ (s = <<>> <=> Len(s) = 0)
      /\ DOMAIN u = 1 .. Len(u) /\ Len(u) \in Nat /\ Len(u) # 0
  <2>1. s \in Seq(Elements(s)) /\ u \in Seq(Elements(u))
    BY DEF OInv, RInv, IInv, IsLog, IsList
  <2> QED BY <2>1, EmptySeq
<1>2. Linked(u) /\ LinkedAsRead(s)
  <2>1. DOMAIN s \subseteq Nat \ {0}
    BY <1>1
  <2> QED BY <2>1, HeldIsLinked, LinkedIsRead
<1>3. CASE Content(s) = Content(u)
  <2>1. Len(s) = Len(u)
    <3>1. DOMAIN Content(s) = 1 .. Len(s) /\ DOMAIN Content(u) = 1 .. Len(u)
      BY <1>1 DEF Content
    <3>2. 1 .. Len(s) = 1 .. Len(u)
      BY <1>3, <3>1
    <3>3. \A m, n \in Nat : n # 0 /\ 1 .. m = 1 .. n => m = n
      <4> SUFFICES ASSUME NEW m \in Nat, NEW n \in Nat, n # 0, 1 .. m = 1 .. n
                   PROVE  m = n
        OBVIOUS
      <4>1. n \in 1 .. m
        OBVIOUS
      <4>2. m \in 1 .. n
        BY <4>1
      <4> QED BY <4>1, <4>2
    <3> QED BY <1>1, <3>2, <3>3
  <2>2. Len(u) \in DOMAIN s /\ Len(u) \in DOMAIN u
    BY <1>1, <2>1
  <2>3. Said(s[Len(u)]) = Said(u[Len(u)])
    BY <1>3, <2>2 DEF Content
  <2>4. s[Len(u)].hash = u[Len(u)].hash
    BY <2>3 DEF Said
  <2> QED BY <1>1, <1>3, <2>1, <2>4 DEF head_hash
<1>4. CASE s # <<>> /\ head_hash(s) = head_hash(u)
  <2>1. s[Len(s)].hash = u[Len(u)].hash /\ Len(s) # 0
    BY <1>1, <1>4 DEF head_hash
  <2>2. Len(s) = Len(u) /\ \A i \in 1 .. Len(s) : Said(s[i]) = Said(u[i])
    BY <1>1, <1>2, <2>1, OneHashOneHistory
  <2> QED BY <1>1, <1>4, <2>2 DEF Content
<1> QED BY <1>3, <1>4

(* Whatever was appended, refused, lost or opened again, verify_chain       *)
(* accepts what a Chain with one writer holds, for any number of Chains.    *)
THEOREM ChainsAlwaysVerify ==
  ASSUME OneWriter, NoneIsApart PROVE Spec => []ChainsVerify
<1>1. OInv => ChainsVerify
  <2> SUFFICES ASSUME OInv, NEW h \in Handle
               PROVE  verify_chain(entries[h], Auditor(FALSE, None)).valid
    BY DEF ChainsVerify
  <2>1. /\ IsLog(entries[h]) /\ Shaped(entries[h]) /\ Signed(entries[h])
        /\ Late(entries[h]) = {}
    BY DEF OInv, RInv, IInv
  <2> QED BY <2>1, VerdictOnRaces
<1> QED BY <1>1, OrderInvariant, PTL

(* An anchored head is satisfied by exactly the Chains that say what the    *)
(* anchored list says (expected_head of verify_chain), whatever their       *)
(* lengths and however often the log forked.                                *)
THEOREM AnchorsAreExact ==
  ASSUME OneWriter, NoneIsApart PROVE Spec => []AnchorIsExact
<1>1. OInv => AnchorIsExact
  <2> SUFFICES ASSUME OInv, NEW h \in Handle, NEW u \in held \ {<<>>}
               PROVE  verify_chain(entries[h], Auditor(FALSE, head_hash(u))).valid
                        <=> Content(entries[h]) = Content(u)
    BY DEF AnchorIsExact
  <2> DEFINE s == entries[h]
             head == head_hash(u)
             o == Auditor(FALSE, head)
  <2>1. s \in held /\ u \in held /\ u # <<>>
    BY DEF OInv, RInv, IInv
  <2>2. head # None
    <3>1. Len(u) \in DOMAIN u /\ IsBuilt(u[Len(u)], Writers)
      <4>1. u \in Seq(Elements(u)) /\ Signed(u)
        BY <2>1 DEF OInv, RInv, IInv, IsLog, IsList
      <4>2. Len(u) \in DOMAIN u
        BY <2>1, <4>1, EmptySeq
      <4> QED BY <4>1, <4>2 DEF Signed
    <3> QED BY <2>1, <3>1 DEF head_hash, NoneIsApart
  <2>3. Broken(s, o) = {}
    <3> HIDE DEF s, head
    <3> QED BY <2>1, NothingBroken
  <2>4. o.head = head /\ ~FailsClosed(o)
    BY WritersAreKeys DEF Auditor, Options, FailsClosed
  <2> HIDE DEF o
  <2>5. verify_chain(s, o).valid <=> s # <<>> /\ head_hash(s) = head
    <3> HIDE DEF s, head
    <3>1. \A v, n, b, r : _result(v, n, b, r).valid = v
      BY DEF _result
    <3>2. CASE s = <<>>
      BY <2>2, <2>4, <3>1, <3>2 DEF verify_chain
    <3>3. CASE s # <<>> /\ HeadMismatch(s, o)
      <4>1. ~verify_chain(s, o).valid
        BY <2>3, <2>4, <3>1, <3>3 DEF verify_chain
      <4> QED BY <2>4, <3>3, <4>1 DEF HeadMismatch
    <3>4. CASE s # <<>> /\ ~HeadMismatch(s, o)
      <4>1. verify_chain(s, o).valid
        BY <2>3, <2>4, <3>1, <3>4 DEF verify_chain
      <4> QED BY <2>2, <2>4, <3>4, <4>1 DEF HeadMismatch
    <3> QED BY <3>2, <3>3, <3>4
  <2>6. Content(s) = Content(u) <=> s # <<>> /\ head_hash(s) = head
    BY <2>1, SameHeadSameContent
  <2> QED BY <2>5, <2>6 DEF o
<1> QED BY <1>1, OrderInvariant, PTL

-----------------------------------------------------------------------------
(* Times                                                                    *)

(* On a list that was held, the comparison of times is the one check that  *)
(* can fail.                                                                *)
LEMMA OnlyTimesFail ==
  ASSUME OInv, NoneIsApart, NEW s \in held, NEW i \in DOMAIN s
  PROVE  i \in Broken(s, Auditor(TRUE, None))
           <=> i # 1 /\ s[i].timestamp < s[i - 1].timestamp
<1> DEFINE plain == Auditor(FALSE, None)
           o     == Auditor(TRUE, None)
           prev  == Before(s, i)
           e     == s[i]
<1>1. /\ o.trusted = plain.trusted /\ o.monotonic = TRUE /\ plain.monotonic = FALSE
  BY DEF Auditor, Options
<1>2. Broken(s, plain) = {}
  BY NothingBroken
<1> HIDE DEF o, plain
<1>3. Defect(e, i - 1, prev, plain) = "none"
  BY <1>2 DEF Broken
<1> HIDE DEF e, prev
<1>t. ~Incomparable(e, prev)
  <2>1. /\ s \in Seq(Elements(s))
        /\ \A k \in DOMAIN s : s[k].timestamp \in Nat /\ s[k] # None
    BY DEF OInv, RInv, IInv, IsLog, IsList, IsEntry, Signed, NoneIsApart
  <2>2. i # 1 => i - 1 \in DOMAIN s
    BY <2>1
  <2> QED BY <2>1, <2>2 DEF Incomparable, BothGiven, Before, e, prev
<1>4. Defect(e, i - 1, prev, o) # "none" <=> GoesBackwards(e, prev)
  <2>1. /\ IsObject(e) /\ e.version = VERSION /\ index(e.seq) = i - 1
        /\ e.prev_hash = prev.hash
        /\ OwnDefect(e, prev, plain) = "none"
    BY <1>3 DEF Defect
  <2>2. OwnDefect(e, prev, o) =
          IF GoesBackwards(e, prev) THEN "timestamp goes backwards" ELSE "none"
    BY <1>1, <1>t, <2>1 DEF OwnDefect
  <2> QED BY <2>1, <2>2 DEF Defect
<1>5. /\ s \in Seq(Elements(s)) /\ \A k \in DOMAIN s : s[k].timestamp \in Nat /\ s[k] # None
  BY DEF OInv, RInv, IInv, IsLog, IsList, IsEntry, Signed, NoneIsApart
<1>6. GoesBackwards(e, prev) <=> i # 1 /\ s[i].timestamp < s[i - 1].timestamp
  <2>1. CASE i = 1
    BY <2>1 DEF prev, Before, GoesBackwards, BothGiven
  <2>2. CASE i # 1
    <3>1. i - 1 \in DOMAIN s
      BY <1>5, <2>2
    <3>2. prev.timestamp = s[i - 1].timestamp
      BY <1>5, <2>2, <3>1 DEF prev, Before, IsObject
    <3>3. s[i].timestamp # None /\ s[i - 1].timestamp # None
      BY <1>5, <3>1 DEF NoneIsApart
    <3>4. /\ index(s[i].timestamp) = s[i].timestamp
          /\ index(s[i - 1].timestamp) = s[i - 1].timestamp
      BY <1>5, <3>1, IndexOfNumber
    <3> QED BY <2>2, <3>2, <3>3, <3>4 DEF GoesBackwards, BothGiven, e
  <2> QED BY <2>1, <2>2
<1> QED BY <1>4, <1>6 DEF Broken, e, prev, o

(* Times that are in order from each entry to the next are in order. *)
LEMMA NeighboursInOrder ==
  ASSUME NEW s, IsList(s), \A i \in DOMAIN s : s[i].timestamp \in Nat
  PROVE  InTimeOrder(s) <=>
           \A i \in DOMAIN s : ~(i # 1 /\ s[i].timestamp < s[i - 1].timestamp)
<1>1. DOMAIN s = 1 .. Len(s) /\ Len(s) \in Nat
  <2>1. s \in Seq(Elements(s))
    BY DEF IsList
  <2> QED BY <2>1
<1>2. ASSUME InTimeOrder(s), NEW i \in DOMAIN s, i # 1
      PROVE  ~(s[i].timestamp < s[i - 1].timestamp)
  <2>1. i - 1 \in DOMAIN s /\ i - 1 < i
    BY <1>1, <1>2
  <2>2. s[i - 1].timestamp =< s[i].timestamp
    BY <1>2, <2>1 DEF InTimeOrder
  <2> QED BY <2>1, <2>2
<1>3. ASSUME \A i \in DOMAIN s : ~(i # 1 /\ s[i].timestamp < s[i - 1].timestamp),
             NEW i \in DOMAIN s, NEW j \in DOMAIN s, i < j,
             ~(s[i].timestamp =< s[j].timestamp)
      PROVE  FALSE
  <2> DEFINE Earlier == {k \in DOMAIN s : i < k /\ s[k].timestamp < s[i].timestamp}
  <2>1. Earlier \in SUBSET Nat /\ j \in Earlier
    BY <1>1, <1>3
  <2>2. PICK m \in Earlier : \A k \in Earlier : m =< k
    <3> HIDE DEF Earlier
    <3> QED BY <2>1, FirstPosition
  <2>3. m \in DOMAIN s /\ i < m /\ s[m].timestamp < s[i].timestamp /\ m # 1 /\ m - 1 \in DOMAIN s
    BY <1>1, <2>2
  <2>4. m - 1 \notin Earlier
    <3> HIDE DEF Earlier
    <3> QED BY <1>1, <2>2, <2>3
  <2>5. m - 1 = i \/ i < m - 1
    BY <1>1, <2>3
  <2>6. ~(s[m - 1].timestamp < s[i].timestamp)
    BY <2>3, <2>4, <2>5
  <2>7. ~(s[m].timestamp < s[m - 1].timestamp)
    BY <1>3, <2>3
  <2> QED BY <2>3, <2>6, <2>7
<1> QED BY <1>2, <1>3 DEF InTimeOrder

(* What the default verdict, times included, then says of what is held. *)
LEMMA TimesDecide ==
  ASSUME OInv, NoneIsApart, NEW s \in held
  PROVE  verify_chain(s, Auditor(TRUE, None)).valid <=> InTimeOrder(s)
<1> DEFINE o == Auditor(TRUE, None)
<1>1. IsList(s) /\ \A i \in DOMAIN s : s[i].timestamp \in Nat
  BY DEF OInv, RInv, IInv, IsLog, IsEntry
<1>2. InTimeOrder(s) <=> Broken(s, o) = {}
  <2>1. Broken(s, o) \subseteq DOMAIN s
    BY DEF Broken
  <2> QED BY <1>1, <2>1, OnlyTimesFail, NeighboursInOrder
<1>3. o.head = None /\ ~FailsClosed(o) /\ ~HeadMismatch(s, o)
  BY WritersAreKeys DEF Auditor, Options, FailsClosed, HeadMismatch
<1> HIDE DEF o
<1>4. \A v, n, b, r : _result(v, n, b, r).valid = v
  BY DEF _result
<1>5. s = <<>> => Broken(s, o) = {}
  BY DEF Broken
<1>6. CASE Broken(s, o) = {}
  <2>1. verify_chain(s, o).valid
    BY <1>3, <1>4, <1>6 DEF verify_chain
  <2> QED BY <1>2, <1>6, <2>1 DEF o
<1>7. CASE Broken(s, o) # {}
  <2>1. ~verify_chain(s, o).valid
    BY <1>3, <1>4, <1>5, <1>7 DEF verify_chain
  <2> QED BY <1>2, <1>7, <2>1 DEF o
<1> QED BY <1>6, <1>7

(* require_monotonic_time compares neighbours, and that is enough: it       *)
(* rejects a Chain exactly if an earlier entry is dated after a later one,  *)
(* however many lie between them.                                           *)
THEOREM NeighboursDecide ==
  ASSUME OneWriter, NoneIsApart PROVE Spec => []TimeVerdict
<1>1. OInv => TimeVerdict
  BY TimesDecide DEF TimeVerdict, OInv, RInv, IInv
<1> QED BY <1>1, OrderInvariant, PTL

-----------------------------------------------------------------------------
(* The honest clock                                                         *)

NotAfterTime(s, time) == \A i \in DOMAIN s : s[i].timestamp =< time

(* A signed entry that is to be pushed is dated after all of its list. *)
InTime(c, s) ==
  c.at = "push" => c.entry.timestamp =< now /\ NotAfterTime(s, c.entry.timestamp)

(* Nothing is dated in the future, as long as the clock is honest. *)
HInv ==
  /\ OInv
  /\ ~skewed => /\ \A s \in held : InTimeOrder(s) /\ NotAfterTime(s, now)
                /\ \A t \in Thread : call[t] # None => InTime(call[t], entries[call[t].chain])

LEMMA ClockInit == Init => HInv
<1> SUFFICES ASSUME Init PROVE HInv
  OBVIOUS
<1>1. InTimeOrder(<<>>) /\ NotAfterTime(<<>>, now)
  BY DEF InTimeOrder, NotAfterTime
<1> QED BY <1>1, OrderInit DEF Init, HInv

(* Only the call of t changes, and it becomes c; the rest stays. *)
LEMMA CallKeepsTime ==
  ASSUME HInv, OInv', NEW t \in Thread, NEW c, call' = [call EXCEPT ![t] = c],
         UNCHANGED <<entries, held, now>>, ~skewed' => ~skewed,
         ~skewed' /\ c # None => InTime(c, entries[c.chain])
  PROVE  HInv'
<1>1. \A u \in Thread : call'[u] = IF u = t THEN c ELSE call[u]
  BY DEF HInv, OInv, RInv, IInv
<1>2. ASSUME ~skewed', NEW s \in held' PROVE InTimeOrder(s) /\ NotAfterTime(s, now)
  BY <1>2 DEF HInv
<1>3. ASSUME ~skewed', NEW u \in Thread, call'[u] # None
      PROVE  InTime(call'[u], entries[call'[u].chain])
  BY <1>1, <1>3 DEF HInv
<1> QED BY <1>2, <1>3 DEF HInv, InTime, InTimeOrder, NotAfterTime

LEMMA ReadTimes ==
  ASSUME HInv, OInv', NEW t \in Thread, ReadLength(t) \/ ReadHead(t) PROVE HInv'
<1>1. PICK c : call' = [call EXCEPT ![t] = c] /\ (c.at = "head" \/ c.at = "build")
  <2>1. CASE ReadLength(t)
    <3>1. PICK h \in Uses[t], body \in Body, timestamp \in CallerTime \cup {None} :
            call' = [call EXCEPT ![t] =
              [at |-> "head", chain |-> h, body |-> body, timestamp |-> timestamp,
               seq |-> Len(entries[h])]]
      BY <2>1 DEF ReadLength
    <3>2. [at |-> "head", chain |-> h, body |-> body, timestamp |-> timestamp,
           seq |-> Len(entries[h])].at = "head"
      OBVIOUS
    <3> QED BY <3>1, <3>2
  <2>2. CASE ReadHead(t)
    <3> DEFINE c == [at |-> "build", chain |-> call[t].chain, body |-> call[t].body,
                     timestamp |-> call[t].timestamp, seq |-> call[t].seq,
                     prev_hash |-> head_hash(entries[call[t].chain])]
    <3>1. call' = [call EXCEPT ![t] = c] /\ c.at = "build"
      BY <2>2 DEF ReadHead
    <3> HIDE DEF c
    <3> QED BY <3>1
  <2> QED BY <2>1, <2>2
<1>2. InTime(c, entries[c.chain])
  BY <1>1 DEF InTime
<1>3. UNCHANGED <<entries, held, now, skewed>>
  BY DEF ReadLength, ReadHead
<1> QED BY <1>1, <1>2, <1>3, CallKeepsTime

LEMMA BuildTimes ==
  ASSUME HInv, OInv', NEW t \in Thread, Build(t) PROVE HInv'
<1> DEFINE c == call[t]
           s == entries[c.chain]
           next == Built(c)
<1>1. /\ c # None /\ c.at = "build" /\ IsCall(c) /\ s \in held
      /\ call' = [call EXCEPT ![t] = next] /\ UNCHANGED <<entries, held, now>>
      /\ skewed' = (skewed \/ c.timestamp # None)
  <2>1. IsCall(c)
    BY DEF HInv, OInv, RInv, IInv, IsTyped, Build
  <2>2. c.chain \in Handle
    <3> HIDE DEF c
    <3> QED BY <2>1 DEF IsCall
  <2> QED BY <2>1, <2>2 DEF HInv, OInv, RInv, IInv, Build
<1>2. ASSUME ~skewed', next # None PROVE InTime(next, entries[next.chain])
  <2>1. Stamp(c) = now /\ NotAfterTime(s, now)
    BY <1>1, <1>2 DEF Stamp, HInv
  <2>2. next = Prepared(c)
    BY <1>2 DEF Built
  <2>3. Prepared(c).chain = c.chain /\ Prepared(c).entry.timestamp = Stamp(c)
    BY DEF Prepared, build_entry
  <2>4. now \in Nat
    BY BoundAssumption DEF HInv, OInv, RInv, IInv
  <2>5. next.chain = c.chain /\ next.entry.timestamp = now
    BY <2>1, <2>2, <2>3
  <2> HIDE DEF next, c
  <2> QED BY <2>1, <2>4, <2>5 DEF InTime, s
<1>3. ~skewed' => ~skewed
  BY <1>1
<1> HIDE DEF next
<1> QED BY <1>1, <1>2, <1>3, CallKeepsTime

(* A list grown by an entry that is not dated before any other stays in     *)
(* order.                                                                   *)
LEMMA GrownInTime ==
  ASSUME NEW s, IsLog(s), NEW e, IsEntry(e), NEW time \in Nat,
         InTimeOrder(s), NotAfterTime(s, e.timestamp), e.timestamp =< time
  PROVE  InTimeOrder(Append(s, e)) /\ NotAfterTime(Append(s, e), time)
<1> DEFINE longer == Append(s, e)
<1>1. s \in Seq(Elements(s) \cup {e}) /\ Len(s) \in Nat /\ DOMAIN s = 1 .. Len(s)
  BY DEF IsLog, IsList
<1>2. /\ DOMAIN longer = 1 .. Len(s) + 1 /\ longer[Len(s) + 1] = e
      /\ \A i \in 1 .. Len(s) : longer[i] = s[i]
  BY <1>1
<1> HIDE DEF longer
<1>3. e.timestamp \in Nat /\ \A i \in 1 .. Len(s) : s[i].timestamp \in Nat
  BY <1>1 DEF IsLog, IsEntry
<1>4. ASSUME NEW i \in DOMAIN longer
      PROVE  longer[i].timestamp =< e.timestamp /\ longer[i].timestamp =< time
  BY <1>1, <1>2, <1>3 DEF NotAfterTime
<1>5. ASSUME NEW i \in DOMAIN longer, NEW j \in DOMAIN longer, i < j
      PROVE  longer[i].timestamp =< longer[j].timestamp
  <2>1. CASE j = Len(s) + 1
    BY <1>2, <1>4, <2>1
  <2>2. CASE j # Len(s) + 1
    BY <1>1, <1>2, <1>5, <2>2 DEF InTimeOrder
  <2> QED BY <2>1, <2>2
<1> QED BY <1>4, <1>5 DEF InTimeOrder, NotAfterTime, longer

LEMMA PushTimes ==
  ASSUME OneWriter, HInv, OInv', NEW t \in Thread, Push(t) PROVE HInv'
<1> DEFINE h == call[t].chain
           s == entries[h]
           e == call[t].entry
           longer == Append(s, e)
<1>1. /\ h \in Handle /\ call[t] # None /\ call[t].at = "push"
      /\ entries' = [entries EXCEPT ![h] = longer]
      /\ held' = held \cup {longer}
      /\ call' = [call EXCEPT ![t] = None]
      /\ UNCHANGED <<now, skewed>>
  BY PushExtends DEF HInv, Push
<1>2. IsEntry(e) /\ IsLog(s) /\ s \in held /\ now \in Nat
  <2>1. IsCall(call[t])
    BY <1>1 DEF HInv, OInv, RInv, IInv, IsTyped
  <2>2. IsEntry(e)
    BY <1>1, <2>1 DEF IsCall
  <2> QED BY <1>1, <2>2, BoundAssumption DEF HInv, OInv, RInv, IInv
<1>3. ASSUME ~skewed, NEW u \in held' PROVE InTimeOrder(u) /\ NotAfterTime(u, now)
  <2>1. InTimeOrder(s) /\ InTime(call[t], s)
    BY <1>1, <1>2, <1>3 DEF HInv
  <2>2. e.timestamp =< now /\ NotAfterTime(s, e.timestamp)
    BY <1>1, <2>1 DEF InTime
  <2>3. InTimeOrder(longer) /\ NotAfterTime(longer, now)
    <3> HIDE DEF s, e
    <3> QED BY <1>2, <2>1, <2>2, GrownInTime
  <2> HIDE DEF longer
  <2> QED BY <1>1, <1>3, <2>3 DEF HInv
<1>4. ASSUME ~skewed, NEW u \in Thread, call'[u] # None
      PROVE  InTime(call'[u], entries'[call'[u].chain])
  <2>1. u # t /\ call'[u] = call[u] /\ call[u] # None
    BY <1>1, <1>4 DEF HInv, OInv, RInv, IInv
  <2>2. call[u].chain # h /\ call[u].chain \in Handle
    BY <1>1, <2>1, NobodyElse DEF HInv, OInv, RInv, IInv, IsTyped, IsCall
  <2>3. entries'[call[u].chain] = entries[call[u].chain]
    <3> HIDE DEF longer, h
    <3> QED BY <1>1, <2>2 DEF HInv, OInv, RInv, IInv
  <2> QED BY <1>4, <2>1, <2>3 DEF HInv
<1> QED BY <1>1, <1>3, <1>4 DEF HInv, InTime, InTimeOrder, NotAfterTime

LEMMA OpenTimes ==
  ASSUME HInv, OInv', NEW h \in Handle, Open(h) PROVE HInv'
<1>1. ASSUME ~skewed, NEW u \in Thread, call'[u] # None
      PROVE  InTime(call'[u], entries'[call'[u].chain])
  <2>1. call'[u] = call[u] /\ call[u] # None /\ call[u].chain # h
    BY <1>1 DEF Open, OtherCalls
  <2>2. call[u].chain \in Handle
    BY <2>1 DEF HInv, OInv, RInv, IInv, IsTyped, IsCall
  <2>3. entries'[call[u].chain] = entries[call[u].chain]
    BY <2>1, <2>2 DEF HInv, OInv, RInv, IInv, Open
  <2> QED BY <1>1, <2>1, <2>3 DEF HInv
<1>2. UNCHANGED <<held, now, skewed>>
  BY DEF Open
<1>3. ASSUME ~skewed, NEW s \in held' PROVE InTimeOrder(s) /\ NotAfterTime(s, now)
  BY <1>2, <1>3 DEF HInv
<1> QED BY <1>1, <1>2, <1>3 DEF HInv, InTime, InTimeOrder, NotAfterTime

LEMMA TickTimes == ASSUME HInv, OInv', Tick PROVE HInv'
<1>1. now \in Nat /\ now' = now + 1 /\ UNCHANGED <<entries, call, held, skewed>>
  BY BoundAssumption DEF HInv, OInv, RInv, IInv, Tick
<1>2. ASSUME ~skewed, NEW s \in held PROVE InTimeOrder(s) /\ NotAfterTime(s, now + 1)
  <2>1. \A i \in DOMAIN s : s[i].timestamp \in Nat /\ s[i].timestamp =< now
    BY <1>2 DEF HInv, OInv, RInv, IInv, IsLog, IsEntry, NotAfterTime
  <2>2. \A i \in DOMAIN s : s[i].timestamp =< now + 1
    BY <1>1, <2>1
  <2> QED BY <1>2, <2>2 DEF HInv, NotAfterTime
<1>3. ASSUME ~skewed, NEW u \in Thread, call[u] # None, call[u].at = "push"
      PROVE  call[u].entry.timestamp =< now + 1
  <2>1. call[u].entry.timestamp \in Nat
    BY <1>3 DEF HInv, OInv, RInv, IInv, IsTyped, IsCall, IsEntry
  <2> QED BY <1>1, <1>3, <2>1 DEF HInv, InTime
<1> QED BY <1>1, <1>2, <1>3 DEF HInv, InTime, InTimeOrder, NotAfterTime

LEMMA ClockStep == OneWriter /\ HInv /\ [Next]_vars => HInv'
<1> SUFFICES ASSUME OneWriter, HInv, [Next]_vars PROVE HInv'
  OBVIOUS
<1>1. OInv'
  BY OrderStep DEF HInv
<1>2. CASE UNCHANGED <<entries, call, held, now, skewed>>
  BY <1>1, <1>2 DEF HInv, InTime, InTimeOrder, NotAfterTime
<1>3. ASSUME NEW t \in Thread, ReadLength(t) \/ ReadHead(t) \/ Build(t) \/ Push(t)
      PROVE  HInv'
  BY <1>1, <1>3, ReadTimes, BuildTimes, PushTimes
<1>4. ASSUME NEW h \in Handle, Open(h) PROVE HInv'
  BY <1>1, <1>4, OpenTimes
<1>5. ASSUME NEW h \in Handle, Export(h) PROVE HInv'
  BY <1>2, <1>5 DEF Export
<1>6. CASE Tick
  BY <1>1, <1>6, TickTimes
<1>7. CASE StepBack
  BY <1>1, <1>7 DEF StepBack, HInv
<1>8. CASE UNCHANGED vars
  BY <1>2, <1>8 DEF vars
<1> QED BY <1>3, <1>4, <1>5, <1>6, <1>7, <1>8 DEF Next

(* As long as no clock is set back and no caller dates an entry itself, the *)
(* default verdict on a Chain with one writer is valid: _now_iso, read      *)
(* after the head and before the push, never breaks a Chain, over crashes,  *)
(* forks and restarts.                                                      *)
THEOREM HonestClocksVerify ==
  ASSUME OneWriter, NoneIsApart PROVE Spec => []HonestClockVerifies
<1>1. HInv => HonestClockVerifies
  BY TimesDecide DEF HonestClockVerifies, HInv, OInv, RInv, IInv
<1>2. HInv /\ [Next]_vars => HInv'
  BY ClockStep
<1> QED BY <1>1, <1>2, ClockInit, PTL DEF Spec
=============================================================================
