-------------------------- MODULE LiveVerifyProofs --------------------------
(***************************************************************************)
(* Module LiveVerify for any number of entries, keys, times and callers:   *)
(* Chains that share entries share no list, and the verdict on a chain     *)
(* that grows under the loop.                                              *)
(*                                                                         *)
(* None of the properties of a finished call is inductive.  They need what *)
(* the loop has established so far (every entry before i passes its check, *)
(* and prev is what is remembered of the one before i), and that what was  *)
(* logged since the call extends what was there when it was made.          *)
(***************************************************************************)
EXTENDS LiveVerify, EntriesProofs

(* An entry object has the fields build_entry gives it. *)
IsEntryObject(e) ==
  e = [version   |-> e.version,
       seq       |-> e.seq,
       timestamp |-> e.timestamp,
       actor     |-> e.actor,
       body      |-> e.body,
       prev_hash |-> e.prev_hash,
       hash      |-> e.hash,
       signature |-> e.signature,
       extra     |-> e.extra]

(* Every Chain has a list of its own. *)
ObjectsOK ==
  /\ IsList(heap) /\ \A n \in DOMAIN heap : IsEntryObject(heap[n])
  /\ lists \in [Chains -> Seq(DOMAIN heap)]
  /\ DOMAIN chain = Chains
  /\ \A c \in Live : chain[c].list = c /\ chain[c].key \in Key \cup {None}

(* A Chain whose last entry names an actor has one. *)
ActorsOK ==
  \A c \in Live : LastActor(EntriesOf(c)) # None => chain[c].actor # None

-----------------------------------------------------------------------------
(* Chain objects                                                            *)

LEMMA ListOfReferences ==
  ASSUME NEW hp, NEW list \in Seq(DOMAIN hp),
         NEW s, s = [n \in DOMAIN list |-> hp[list[n]]]
  PROVE  /\ IsList(s) /\ Len(s) = Len(list)
         /\ DOMAIN s = 1 .. Len(list) /\ Len(list) \in Nat
         /\ \A n \in 1 .. Len(list) : list[n] \in DOMAIN hp /\ s[n] = hp[list[n]]
<1>1. /\ DOMAIN list = 1 .. Len(list) /\ Len(list) \in Nat
      /\ \A n \in 1 .. Len(list) : list[n] \in DOMAIN hp
  OBVIOUS
<1>2. s = [n \in 1 .. Len(list) |-> hp[list[n]]]
  BY <1>1
<1>3. \A n \in 1 .. Len(list) : s[n] \in Elements(s)
  BY <1>2 DEF Elements
<1>4. s \in [1 .. Len(list) -> Elements(s)]
  BY <1>2, <1>3
<1>5. s \in Seq(Elements(s))
  BY <1>1, <1>4, SeqDef
<1>6. Len(s) = Len(list)
  BY <1>1, <1>2, <1>5
<1> QED BY <1>1, <1>2, <1>5, <1>6 DEF IsList

LEMMA Listed ==
  ASSUME ObjectsOK, NEW c \in Live
  PROVE  /\ IsList(EntriesOf(c)) /\ Len(EntriesOf(c)) = Len(lists[c])
         /\ DOMAIN EntriesOf(c) = 1 .. Len(lists[c]) /\ Len(lists[c]) \in Nat
         /\ \A n \in 1 .. Len(lists[c]) : /\ lists[c][n] \in DOMAIN heap
                                         /\ EntriesOf(c)[n] = heap[lists[c][n]]
<1>1. lists[c] \in Seq(DOMAIN heap) /\ chain[c].list = c
  BY DEF ObjectsOK, Live
<1> QED BY <1>1, ListOfReferences DEF EntriesOf

(* The entry c logs next. *)
Written(s, n, c) ==
  /\ s[n] = build_entry(n - 1, s[n].timestamp, chain[c].actor, s[n].body,
                        head_hash(SubSeq(s, 1, n - 1)), chain[c].key)
  /\ s[n].body \in Appendable /\ chain[c].key \in Key

(* append makes one list longer by one entry and leaves the others alone.   *)
LEMMA LogAppends ==
  ASSUME ObjectsOK, NEW c \in Live, Log(c)
  PROVE  /\ ObjectsOK' /\ Live' = Live /\ chain' = chain
         /\ \A d \in Live \ {c} : EntriesOf(d)' = EntriesOf(d)
         /\ LET s == EntriesOf(c)
                u == EntriesOf(c)'
            IN  /\ Len(u) = Len(s) + 1 /\ SubSeq(u, 1, Len(s)) = s
                /\ \A n \in 1 .. Len(s) : u[n] = s[n]
                /\ Written(u, Len(u), c)
<1> DEFINE s == EntriesOf(c)
<1>1. PICK body \in Appendable, timestamp \in Time :
        heap' = Append(heap, build_entry(Len(s), timestamp, chain[c].actor, body,
                                         head_hash(s), chain[c].key))
  BY DEF Log
<1> DEFINE e == build_entry(Len(s), timestamp, chain[c].actor, body,
                            head_hash(s), chain[c].key)
<1>2. /\ heap' = Append(heap, e) /\ chain' = chain /\ chain[c].key \in Key
      /\ lists' = [lists EXCEPT ![c] = Append(@, Len(heap'))]
  BY <1>1 DEF Log, ObjectsOK
<1>3. IsEntryObject(e) /\ e.body = body /\ e.timestamp = timestamp
  BY DEF IsEntryObject, build_entry
<1>4. Len(s) \in Nat /\ Len(s) = Len(lists[c]) /\ IsList(s)
  BY Listed
<1> HIDE DEF e
<1> DEFINE k == Len(heap)
<1>5. heap \in Seq(Elements(heap) \cup {e}) /\ k \in Nat /\ DOMAIN heap = 1 .. k
  BY DEF ObjectsOK, IsList
<1>6. /\ Len(heap') = k + 1 /\ DOMAIN heap' = 1 .. k + 1 /\ heap'[k + 1] = e
      /\ heap' \in Seq(Elements(heap) \cup {e})
      /\ \A n \in 1 .. k : heap'[n] = heap[n]
  BY <1>2, <1>5, AppendProperties
<1>7. IsList(heap')
  <2>1. \A n \in 1 .. k + 1 : heap'[n] \in Elements(heap')
    BY <1>6 DEF Elements
  <2>2. heap' \in [1 .. k + 1 -> Elements(heap')]
    BY <1>6, <2>1
  <2> QED BY <1>5, <2>2, SeqDef DEF IsList
<1>8. \A n \in DOMAIN heap' : IsEntryObject(heap'[n])
  <2>1. \A n \in 1 .. k : IsEntryObject(heap[n])
    BY <1>5 DEF ObjectsOK
  <2>2. \A n \in 1 .. k + 1 : n \in 1 .. k \/ n = k + 1
    BY <1>5
  <2> QED BY <1>3, <1>6, <2>1, <2>2
<1>9. lists' \in [Chains -> Seq(1 .. k + 1)]
  <2>1. \A d \in Chains : lists[d] \in Seq(1 .. k + 1)
    <3>1. \A d \in Chains : lists[d] \in Seq(1 .. k)
      BY <1>5 DEF ObjectsOK
    <3>2. 1 .. k \subseteq 1 .. k + 1
      BY <1>5
    <3> QED BY <3>1, <3>2
  <2>2. Append(lists[c], k + 1) \in Seq(1 .. k + 1)
    <3>1. k + 1 \in 1 .. k + 1 /\ c \in Chains
      BY <1>5 DEF Live
    <3> QED BY <2>1, <3>1, AppendProperties
  <2> QED BY <1>2, <1>6, <2>1, <2>2 DEF ObjectsOK
<1>10. Live' = Live
  BY <1>2 DEF Live
<1>11. ObjectsOK'
  BY <1>2, <1>6, <1>7, <1>8, <1>9, <1>10 DEF ObjectsOK
<1>12. ASSUME NEW d \in Live \ {c} PROVE EntriesOf(d)' = EntriesOf(d)
  <2>1. chain[d].list = d /\ d \in Chains /\ lists'[d] = lists[d]
    BY <1>2 DEF ObjectsOK, Live
  <2>2. \A n \in DOMAIN lists[d] : heap'[lists[d][n]] = heap[lists[d][n]]
    BY <1>5, <1>6, Listed, <2>1 DEF ObjectsOK
  <2> QED BY <1>2, <2>1, <2>2 DEF EntriesOf
<1> DEFINE u == EntriesOf(c)'
<1>13. /\ Len(u) = Len(s) + 1 /\ DOMAIN u = 1 .. Len(s) + 1 /\ u[Len(s) + 1] = e
       /\ \A n \in 1 .. Len(s) : u[n] = s[n]
       /\ IsList(u)
  <2>1. c \in Chains /\ lists[c] \in Seq(1 .. k) /\ lists'[c] = Append(lists[c], k + 1)
    BY <1>2, <1>5, <1>6 DEF ObjectsOK, Live
  <2>2. /\ Len(lists'[c]) = Len(s) + 1 /\ lists'[c][Len(s) + 1] = k + 1
        /\ \A n \in 1 .. Len(s) : lists'[c][n] = lists[c][n] /\ lists[c][n] \in 1 .. k
    BY <1>4, <2>1, AppendProperties
  <2>3. /\ Len(u) = Len(lists'[c]) /\ DOMAIN u = 1 .. Len(lists'[c])
        /\ \A n \in 1 .. Len(lists'[c]) : u[n] = heap'[lists'[c][n]]
        /\ IsList(u)
    <3>1. lists'[c] \in Seq(DOMAIN heap') /\ chain'[c].list = c
      BY <1>2, <1>6, <1>9 DEF ObjectsOK, Live
    <3> QED BY <3>1, ListOfReferences DEF EntriesOf
  <2>4. \A n \in 1 .. Len(s) : s[n] = heap[lists[c][n]]
    BY <1>4, Listed
  <2> HIDE DEF s, u, k
  <2>5. Len(s) + 1 \in 1 .. Len(s) + 1 /\ \A n \in 1 .. Len(s) : n \in 1 .. Len(s) + 1
    BY <1>4
  <2>6. u[Len(s) + 1] = e
    BY <1>6, <2>2, <2>3, <2>5
  <2>7. ASSUME NEW n \in 1 .. Len(s) PROVE u[n] = s[n]
    BY <1>6, <2>2, <2>3, <2>4, <2>5
  <2> QED BY <2>2, <2>3, <2>6, <2>7
<1>14. SubSeq(u, 1, Len(s)) = s
  <2> HIDE DEF s, u
  <2>1. u \in Seq(Elements(u)) /\ s \in Seq(Elements(s))
    BY <1>4, <1>13 DEF IsList
  <2> QED BY <1>4, <1>13, <2>1
<1>15. Written(u, Len(u), c)
  <2> HIDE DEF s, u
  <2>1. Len(u) - 1 = Len(s) /\ u[Len(u)] = e
    BY <1>4, <1>13
  <2>2. e = build_entry(Len(s), e.timestamp, chain[c].actor, e.body, head_hash(s),
                        chain[c].key)
    BY <1>3 DEF e
  <2> QED BY <1>2, <1>3, <1>14, <2>1, <2>2 DEF Written
<1> QED BY <1>2, <1>10, <1>11, <1>12, <1>13, <1>14, <1>15

(* A write to a payload changes neither the lists nor whose entries they are. *)
LEMMA MutateKeeps ==
  ASSUME ObjectsOK, Mutate
  PROVE  /\ ObjectsOK' /\ Live' = Live /\ chain' = chain
         /\ \A c \in Live :
              /\ IsList(EntriesOf(c)') /\ Len(EntriesOf(c)') = Len(EntriesOf(c))
              /\ \A n \in 1 .. Len(EntriesOf(c)) :
                   EntriesOf(c)'[n].actor = EntriesOf(c)[n].actor
<1>1. PICK m \in DOMAIN heap, body \in Body : heap' = [heap EXCEPT ![m].body = body]
  BY DEF Mutate
<1>2. lists' = lists /\ chain' = chain /\ Live' = Live
  BY DEF Mutate, Live
<1> DEFINE e == [heap[m] EXCEPT !.body = body]
<1>3. IsEntryObject(e) /\ e.actor = heap[m].actor
  <2>1. IsEntryObject(heap[m])
    BY DEF ObjectsOK
  <2> QED BY <2>1 DEF IsEntryObject
<1>4. heap' = [heap EXCEPT ![m] = e]
  BY <1>1
<1> HIDE DEF e
<1>5. heap \in Seq(Elements(heap) \cup {e}) /\ m \in 1 .. Len(heap)
  BY DEF ObjectsOK, IsList
<1>6. /\ heap' \in Seq(Elements(heap) \cup {e}) /\ DOMAIN heap' = DOMAIN heap
      /\ DOMAIN heap = 1 .. Len(heap) /\ Len(heap) \in Nat
      /\ \A n \in DOMAIN heap : heap'[n] = IF n = m THEN e ELSE heap[n]
  BY <1>4, <1>5, ExceptSeq
<1>7. IsList(heap')
  <2>1. \A n \in 1 .. Len(heap) : heap'[n] \in Elements(heap')
    BY <1>6 DEF Elements
  <2>2. heap' \in [1 .. Len(heap) -> Elements(heap')]
    BY <1>6, <2>1
  <2> QED BY <1>6, <2>2, SeqDef DEF IsList
<1>8. ObjectsOK'
  BY <1>2, <1>3, <1>6, <1>7 DEF ObjectsOK
<1>9. ASSUME NEW c \in Live
      PROVE  /\ IsList(EntriesOf(c)') /\ Len(EntriesOf(c)') = Len(EntriesOf(c))
             /\ \A n \in 1 .. Len(EntriesOf(c)) :
                  EntriesOf(c)'[n].actor = EntriesOf(c)[n].actor
  <2> DEFINE s == EntriesOf(c)
             u == EntriesOf(c)'
  <2>1. lists[c] \in Seq(DOMAIN heap') /\ chain[c].list = c
    BY <1>6 DEF ObjectsOK, Live
  <2>2. u = [n \in DOMAIN lists[c] |-> heap'[lists[c][n]]]
    BY <1>2, <2>1 DEF EntriesOf
  <2> HIDE DEF u
  <2>3. /\ IsList(u) /\ Len(u) = Len(lists[c])
        /\ \A n \in 1 .. Len(lists[c]) : u[n] = heap'[lists[c][n]]
    BY <2>1, <2>2, ListOfReferences
  <2>4. /\ Len(s) = Len(lists[c])
        /\ \A n \in 1 .. Len(lists[c]) :
             lists[c][n] \in DOMAIN heap /\ s[n] = heap[lists[c][n]]
    BY Listed
  <2> HIDE DEF s
  <2>5. ASSUME NEW n \in 1 .. Len(s) PROVE u[n].actor = s[n].actor
    BY <1>3, <1>6, <2>3, <2>4
  <2> QED BY <2>3, <2>4, <2>5 DEF u, s
<1> QED BY <1>2, <1>8, <1>9

(* The opened Chain has a copy of the list it was opened from, and an actor *)
(* if the last entry has one; the other Chain is as before.                 *)
LEMMA OpenCopies ==
  ASSUME ObjectsOK, ActorsOK, NEW from \in Live, NEW given, NEW exported \in BOOLEAN,
         NEW key \in OpenKey, Open(from, given, exported, key)
  PROVE  /\ ObjectsOK' /\ heap' = heap
         /\ \A c \in Live' : c # "opened" => /\ c \in Live /\ chain'[c] = chain[c]
                                            /\ EntriesOf(c)' = EntriesOf(c)
         /\ EntriesOf("opened")' = EntriesOf(from)
         /\ LastActor(EntriesOf(from)) # None => chain'["opened"].actor # None
<1> DEFINE named == IF given # None THEN given
                    ELSE IF exported THEN chain[from].actor ELSE None
           actor == IF named = None THEN LastActor(EntriesOf(from)) ELSE named
<1>1. /\ chain' = [chain EXCEPT !["opened"] =
                     [list |-> "opened", actor |-> actor, key |-> key]]
      /\ lists' = [lists EXCEPT !["opened"] = lists[chain[from].list]]
      /\ heap' = heap
  BY DEF Open, Copied
<1>2. LastActor(EntriesOf(from)) # None => actor # None
  OBVIOUS
<1> HIDE DEF actor
<1>3. from \in Chains /\ chain[from].list = from /\ "opened" \in Chains
  BY DEF ObjectsOK, Live, Chains
<1>4. /\ DOMAIN chain' = Chains
      /\ chain'["opened"] = [list |-> "opened", actor |-> actor, key |-> key]
      /\ \A c \in Chains \ {"opened"} : chain'[c] = chain[c]
  BY <1>1, <1>3 DEF ObjectsOK
<1>5. /\ lists' \in [Chains -> Seq(DOMAIN heap)] /\ lists'["opened"] = lists[from]
      /\ \A c \in Chains \ {"opened"} : lists'[c] = lists[c]
  BY <1>1, <1>3 DEF ObjectsOK
<1>6. \A c \in Live' : c \in Chains /\ (c # "opened" => c \in Live)
  BY <1>4 DEF Live
<1>7. \A c \in Live' : chain'[c].list = c /\ chain'[c].key \in Key \cup {None}
  BY <1>4, <1>6, LiveAssumption DEF ObjectsOK
<1>8. ObjectsOK'
  BY <1>1, <1>4, <1>5, <1>7 DEF ObjectsOK
<1>9. EntriesOf("opened")' = EntriesOf(from)
  BY <1>1, <1>3, <1>4, <1>5 DEF EntriesOf
<1>10. ASSUME NEW c \in Live', c # "opened"
       PROVE  c \in Live /\ chain'[c] = chain[c] /\ EntriesOf(c)' = EntriesOf(c)
  <2>1. c \in Live /\ chain[c].list = c /\ c \in Chains \ {"opened"}
    BY <1>6, <1>10 DEF ObjectsOK
  <2> QED BY <1>1, <1>4, <1>5, <2>1 DEF EntriesOf
<1> QED BY <1>1, <1>2, <1>4, <1>8, <1>9, <1>10

(* Whose log it is                                                          *)

ActorInv == ObjectsOK /\ ActorsOK /\ ActorIsKept

LEMMA ActorInit == Init => ActorInv
<1> SUFFICES ASSUME Init PROVE ActorInv
  OBVIOUS
<1>1. /\ Live \subseteq {"made"}
      /\ \A c \in Live : /\ chain[c].list = c /\ c \in Chains
                          /\ chain[c].key \in Key \cup {None}
  BY LiveAssumption DEF Init, Live, Chains
<1>2. IsList(heap) /\ DOMAIN heap = {}
  BY DEF Init, IsList, Elements
<1>3. ObjectsOK
  BY <1>1, <1>2 DEF Init, ObjectsOK
<1>4. \A c \in Live : EntriesOf(c) = <<>>
  BY <1>1 DEF Init, EntriesOf
<1>5. ActorsOK
  BY <1>4 DEF ActorsOK, LastActor
<1>6. ActorIsKept
  BY <1>4 DEF ActorIsKept
<1> QED BY <1>3, <1>5, <1>6 DEF ActorInv

LEMMA LogKeepsActor ==
  ASSUME ActorInv, NEW c \in Live, Log(c) PROVE ActorInv'
<1>1. /\ ObjectsOK' /\ Live' = Live /\ chain' = chain
      /\ \A d \in Live \ {c} : EntriesOf(d)' = EntriesOf(d)
  BY LogAppends DEF ActorInv
<1> DEFINE s == EntriesOf(c)
           u == EntriesOf(c)'
<1>2. /\ Len(u) = Len(s) + 1 /\ \A n \in 1 .. Len(s) : u[n] = s[n]
      /\ Written(u, Len(u), c)
  BY LogAppends DEF ActorInv
<1>3. Len(s) \in Nat
  BY Listed DEF ActorInv
<1>4. /\ \A n \in 1 .. Len(s) - 1 : s[n].actor # None => s[n + 1].actor # None
      /\ LastActor(s) # None => chain[c].actor # None
  BY DEF ActorInv, ActorIsKept, ActorsOK
<1>5. u[Len(u)].actor = chain[c].actor /\ u # <<>>
  <2> HIDE DEF u, s
  <2>1. u # <<>>
    BY <1>2, <1>3
  <2> QED BY <1>2, <2>1 DEF Written, build_entry
<1> HIDE DEF s, u
<1>6. LastActor(u) # None => chain[c].actor # None
  BY <1>5 DEF LastActor
<1>7. ASSUME NEW n \in 1 .. Len(u) - 1, u[n].actor # None PROVE u[n + 1].actor # None
  <2>1. n \in 1 .. Len(s)
    BY <1>2, <1>3
  <2>2. CASE n = Len(s)
    <3>1. LastActor(s) # None
      BY <1>2, <1>3, <1>7, <2>1, <2>2 DEF LastActor
    <3> QED BY <1>2, <1>4, <1>5, <2>2, <3>1
  <2>3. CASE n # Len(s)
    BY <1>2, <1>3, <1>4, <1>7, <2>1, <2>3
  <2> QED BY <2>2, <2>3
<1>8. ActorsOK'
  <2> SUFFICES ASSUME NEW d \in Live, LastActor(EntriesOf(d)') # None
               PROVE  chain[d].actor # None
    BY <1>1 DEF ActorsOK, LastActor
  <2> QED BY <1>1, <1>6 DEF ActorInv, ActorsOK, u
<1>9. ActorIsKept'
  <2> SUFFICES ASSUME NEW d \in Live, NEW n \in 1 .. Len(EntriesOf(d)') - 1,
                      EntriesOf(d)'[n].actor # None
               PROVE  EntriesOf(d)'[n + 1].actor # None
    BY <1>1 DEF ActorIsKept
  <2>1. CASE d = c
    BY <1>7, <2>1 DEF u
  <2>2. CASE d # c
    BY <1>1, <2>2 DEF ActorInv, ActorIsKept
  <2> QED BY <2>1, <2>2
<1> QED BY <1>1, <1>8, <1>9 DEF ActorInv

LEMMA MutateKeepsActor == ActorInv /\ Mutate => ActorInv'
<1> SUFFICES ASSUME ActorInv, Mutate PROVE ActorInv'
  OBVIOUS
<1>1. /\ ObjectsOK' /\ Live' = Live /\ chain' = chain
      /\ \A c \in Live :
           /\ IsList(EntriesOf(c)') /\ Len(EntriesOf(c)') = Len(EntriesOf(c))
           /\ \A n \in 1 .. Len(EntriesOf(c)) :
                EntriesOf(c)'[n].actor = EntriesOf(c)[n].actor
  BY MutateKeeps DEF ActorInv
<1>2. ASSUME NEW c \in Live
      PROVE  /\ LastActor(EntriesOf(c)') = LastActor(EntriesOf(c))
             /\ \A n \in 1 .. Len(EntriesOf(c)') - 1 :
                  EntriesOf(c)'[n].actor # None => EntriesOf(c)'[n + 1].actor # None
  <2> DEFINE s == EntriesOf(c)
             u == EntriesOf(c)'
  <2>1. /\ IsList(u) /\ Len(u) = Len(s) /\ IsList(s)
        /\ \A n \in 1 .. Len(s) : u[n].actor = s[n].actor
        /\ \A n \in 1 .. Len(s) - 1 : s[n].actor # None => s[n + 1].actor # None
    BY <1>1, Listed DEF ActorInv, ActorIsKept
  <2> HIDE DEF u, s
  <2>2. Len(s) \in Nat /\ (u = <<>> <=> Len(s) = 0) /\ (s = <<>> <=> Len(s) = 0)
    BY <2>1 DEF IsList
  <2>3. LastActor(u) = LastActor(s)
    BY <2>1, <2>2 DEF LastActor
  <2>4. ASSUME NEW n \in 1 .. Len(u) - 1, u[n].actor # None PROVE u[n + 1].actor # None
    <3>1. n \in 1 .. Len(s) /\ n + 1 \in 1 .. Len(s) /\ n \in 1 .. Len(s) - 1
      BY <2>1, <2>2
    <3> QED BY <2>1, <2>4, <3>1
  <2> QED BY <2>3, <2>4 DEF u, s
<1>3. ActorsOK'
  BY <1>1, <1>2 DEF ActorInv, ActorsOK, LastActor
<1>4. ActorIsKept'
  BY <1>1, <1>2 DEF ActorIsKept
<1> QED BY <1>1, <1>3, <1>4 DEF ActorInv

LEMMA OpenKeepsActor ==
  ASSUME ActorInv, NEW from \in Live, NEW given, NEW exported \in BOOLEAN,
         NEW key \in OpenKey, Open(from, given, exported, key)
  PROVE  ActorInv'
<1>1. /\ ObjectsOK'
      /\ \A c \in Live' : c # "opened" => /\ c \in Live /\ chain'[c] = chain[c]
                                         /\ EntriesOf(c)' = EntriesOf(c)
      /\ EntriesOf("opened")' = EntriesOf(from)
      /\ LastActor(EntriesOf(from)) # None => chain'["opened"].actor # None
  BY OpenCopies DEF ActorInv
<1>2. ActorsOK'
  <2> SUFFICES ASSUME NEW c \in Live', LastActor(EntriesOf(c)') # None
               PROVE  chain'[c].actor # None
    BY DEF ActorsOK, LastActor
  <2> QED BY <1>1 DEF ActorInv, ActorsOK
<1>3. ActorIsKept'
  <2> SUFFICES ASSUME NEW c \in Live', NEW n \in 1 .. Len(EntriesOf(c)') - 1,
                      EntriesOf(c)'[n].actor # None
               PROVE  EntriesOf(c)'[n + 1].actor # None
    BY DEF ActorIsKept
  <2> QED BY <1>1 DEF ActorInv, ActorIsKept
<1> QED BY <1>1, <1>2, <1>3 DEF ActorInv

(* The objects stay as they are in every step of the caller of verify_chain. *)
LEMMA ObjectsStay ==
  ASSUME UNCHANGED objects
  PROVE  /\ Live' = Live /\ \A c : EntriesOf(c)' = EntriesOf(c)
         /\ ObjectsOK' = ObjectsOK /\ (ActorInv => ActorInv')
<1>1. heap' = heap /\ lists' = lists /\ chain' = chain
  BY DEF objects
<1>2. Live' = Live /\ \A c : EntriesOf(c)' = EntriesOf(c)
  BY <1>1 DEF Live, EntriesOf
<1>3. ObjectsOK' = ObjectsOK
  BY <1>1, <1>2 DEF ObjectsOK
<1>4. ActorInv => ActorInv'
  BY <1>1, <1>2, <1>3 DEF ActorInv, ActorsOK, ActorIsKept, LastActor
<1> QED BY <1>2, <1>3, <1>4

LEMMA ActorStep == ActorInv /\ [Next]_vars => ActorInv'
<1> SUFFICES ASSUME ActorInv, [Next]_vars PROVE ActorInv'
  OBVIOUS
<1>1. ASSUME NEW c \in Live, Log(c) PROVE ActorInv'
  BY <1>1, LogKeepsActor
<1>2. CASE Mutate
  BY <1>2, MutateKeepsActor
<1>3. CASE Opens
  BY <1>3, OpenKeepsActor DEF Opens
<1>4. CASE Calls \/ Verify \/ UNCHANGED vars
  <2>1. UNCHANGED objects
    BY <1>4 DEF Calls, Call, Verify, Check, Reject, EndLoop, CheckHead, vars
  <2> QED BY <2>1, ObjectsStay
<1> QED BY <1>1, <1>2, <1>3, <1>4 DEF Next

(* Re-opening a log never loses who it belongs to, whatever actors, keys and *)
(* exports a Chain is opened with and however often (Chain.open, append).   *)
THEOREM ActorsAreKept == Spec => []ActorIsKept
<1>1. Spec => []ActorInv
  BY ActorInit, ActorStep, PTL DEF Spec
<1>2. ActorInv => ActorIsKept
  BY DEF ActorInv
<1> QED BY <1>1, <1>2, PTL

(* A Chain's append changes no list but its own: Chains opened from one     *)
(* another share entries, never a list (Chain.open copies it).              *)
THEOREM ListsAreSeparate == Spec => ListsStaySeparate
<1> DEFINE Separate ==
      \A c, d \in Live : chain' = chain /\ c # d /\ Len(EntriesOf(c))' # Len(EntriesOf(c))
        => Len(EntriesOf(d))' = Len(EntriesOf(d))
<1>1. ActorInv /\ [Next]_vars => [Separate]_vars
  <2> SUFFICES ASSUME ActorInv, Next, NEW c \in Live, NEW d \in Live,
                      chain' = chain, c # d, Len(EntriesOf(c)') # Len(EntriesOf(c))
               PROVE  Len(EntriesOf(d)') = Len(EntriesOf(d))
    OBVIOUS
  <2>1. ASSUME NEW b \in Live, Log(b) PROVE Len(EntriesOf(d)') = Len(EntriesOf(d))
    BY <2>1, LogAppends DEF ActorInv
  <2>2. CASE Mutate
    BY <2>2, MutateKeeps DEF ActorInv
  <2>3. CASE Opens
    <3>1. \A b \in Live : b # "opened" => EntriesOf(b)' = EntriesOf(b)
      BY <2>3, OpenCopies DEF Opens, ActorInv, Live
    <3> QED BY <3>1 DEF Live, Chains
  <2>4. CASE Calls \/ Verify
    <3>1. UNCHANGED objects
      BY <2>4 DEF Calls, Call, Verify, Check, Reject, EndLoop, CheckHead
    <3> QED BY <3>1, ObjectsStay
  <2> QED BY <2>1, <2>2, <2>3, <2>4 DEF Next
<1>2. Spec => []ActorInv
  BY ActorInit, ActorStep, PTL DEF Spec
<1>3. Spec => [][Next]_vars
  BY DEF Spec
<1> QED BY <1>1, <1>2, <1>3, PTL DEF ListsStaySeparate

-----------------------------------------------------------------------------
(* verify_chain                                                             *)

(* What the Chain logged since the call stands behind what was there.       *)
Since(s) ==
  /\ IsList(called) /\ Len(called) =< Len(s) /\ called = SubSeq(s, 1, Len(called))
  /\ \A n \in Len(called) + 1 .. Len(s) : Written(s, n, target)

(* The entries before i have passed, and prev is of the last of them.       *)
Walked(s) ==
  /\ ~FailsClosed(o) /\ called # <<>>
  /\ \A n \in 1 .. i : Defect(s[n], n - 1, Before(s, n), o) = "none"
  /\ prev = Before(s, i + 1)

CallOK ==
  /\ pc \in {"idle", "loop", "reject", "head", "done"}
  /\ pc = "idle" => i = 0 /\ prev = [hash |-> None, timestamp |-> None]
  /\ pc # "idle" => target \in Live /\ i \in 0 .. Len(entries) /\ Since(entries)
  /\ pc \in {"loop", "reject", "head"} => Walked(entries)
  /\ pc = "reject" => /\ i < Len(entries) /\ reason # "none"
                      /\ reason = Defect(entries[i + 1], i, prev, o)
  /\ pc = "head" => i >= Len(called)

(* The types of a verdict. *)
VerdictTypes ==
  Done => /\ verdict.valid \in BOOLEAN
          /\ verdict.length \in Len(called) .. Len(entries)
          /\ verdict.broken_at \in 0 .. Len(entries) - 1 \cup {None}

Verdicts ==
  VerdictTypes /\ VerdictOfAMoment /\ DamageIsSeen /\ (NoneIsApart => NoFalseAlarm)

LiveInv == ActorInv /\ CallOK /\ Verdicts

LEMMA LiveInit == Init => LiveInv
<1> SUFFICES ASSUME Init PROVE LiveInv
  OBVIOUS
<1>1. pc = "idle" /\ i = 0 /\ prev = [hash |-> None, timestamp |-> None]
  BY DEF Init
<1>2. CallOK
  BY <1>1 DEF CallOK
<1>3. Verdicts
  BY <1>1 DEF Verdicts, VerdictTypes, VerdictOfAMoment, DamageIsSeen, NoFalseAlarm, Done
<1> QED BY <1>2, <1>3, ActorInit DEF LiveInv

(* What is below n in a list that grew. *)
LEMMA LongerList ==
  ASSUME NEW s, IsList(s), NEW u, IsList(u), Len(s) =< Len(u),
         \A n \in 1 .. Len(s) : u[n] = s[n]
  PROVE  /\ \A n \in 0 .. Len(s) : SubSeq(u, 1, n) = SubSeq(s, 1, n)
         /\ \A n \in 1 .. Len(s) + 1 : Before(u, n) = Before(s, n)
<1>1. s \in Seq(Elements(s)) /\ u \in Seq(Elements(u)) /\ Len(s) \in Nat /\ Len(u) \in Nat
  BY DEF IsList
<1>2. ASSUME NEW n \in 0 .. Len(s) PROVE SubSeq(u, 1, n) = SubSeq(s, 1, n)
  BY <1>1
<1>3. ASSUME NEW n \in 1 .. Len(s) + 1 PROVE Before(u, n) = Before(s, n)
  <2>1. n # 1 => n - 1 \in 1 .. Len(s)
    BY <1>1
  <2> QED BY <2>1 DEF Before
<1> QED BY <1>2, <1>3

(* The list under verification while somebody logs. *)
LEMMA LogExtends ==
  ASSUME ActorInv, target \in Live, NEW c \in Live, Log(c),
         NEW s, s = entries, NEW u, u = entries'
  PROVE  /\ target' = target /\ IsList(s) /\ IsList(u) /\ Len(s) =< Len(u)
         /\ \A n \in 1 .. Len(s) : u[n] = s[n]
         /\ \A n \in Len(s) + 1 .. Len(u) : Written(u, n, target)
<1> PICK t \in Live : t = target
  OBVIOUS
<1>1. ObjectsOK /\ UNCHANGED locals
  BY DEF ActorInv, Log
<1>2. target' = target
  BY <1>1 DEF locals
<1>3. s = EntriesOf(t) /\ u = EntriesOf(t)'
  BY <1>2 DEF entries, EntriesOf
<1>4. IsList(s) /\ Len(s) \in Nat
  BY <1>1, <1>3, Listed
<1>5. CASE t # c
  <2>1. u = s
    BY <1>1, <1>3, <1>5, LogAppends
  <2> QED BY <1>2, <1>4, <2>1
<1>6. CASE t = c
  <2>1. /\ Len(u) = Len(s) + 1 /\ \A n \in 1 .. Len(s) : u[n] = s[n]
        /\ Written(u, Len(u), t)
    BY <1>1, <1>3, <1>6, LogAppends
  <2>2. IsList(u)
    <3>1. ObjectsOK' /\ Live' = Live /\ chain' = chain
      BY <1>1, LogAppends
    <3>2. lists'[t] \in Seq(DOMAIN heap') /\ chain'[t].list = t
      BY <3>1 DEF ObjectsOK, Live
    <3> QED BY <1>3, <3>2, ListOfReferences DEF EntriesOf
  <2> QED BY <1>2, <1>4, <2>1, <2>2
<1> QED BY <1>5, <1>6

LEMMA LogCalls ==
  ASSUME LiveInv, NEW c \in Live, Log(c) PROVE CallOK' /\ Verdicts'
<1>1. /\ pc' = pc /\ i' = i /\ prev' = prev /\ o' = o /\ reason' = reason
      /\ called' = called /\ target' = target /\ verdict' = verdict /\ pc # "done"
      /\ chain' = chain /\ Live' = Live
  BY DEF Log, locals, Live
<1>2. Verdicts'
  BY <1>1 DEF Verdicts, VerdictTypes, VerdictOfAMoment, DamageIsSeen, NoFalseAlarm, Done
<1>3. CASE pc = "idle"
  BY <1>1, <1>2, <1>3 DEF LiveInv, CallOK
<1>4. CASE pc # "idle"
  <2> PICK s : s = entries
    OBVIOUS
  <2> PICK u : u = entries'
    OBVIOUS
  <2>1. /\ target \in Live /\ i \in 0 .. Len(s) /\ Since(s)
        /\ pc \in {"loop", "reject", "head"} /\ Walked(s)
        /\ pc = "reject" => /\ i < Len(s) /\ reason # "none"
                            /\ reason = Defect(s[i + 1], i, prev, o)
        /\ pc = "head" => i >= Len(called)
    BY <1>1, <1>4 DEF LiveInv, CallOK
  <2>2. /\ IsList(s) /\ IsList(u) /\ Len(s) =< Len(u)
        /\ \A n \in 1 .. Len(s) : u[n] = s[n]
        /\ \A n \in Len(s) + 1 .. Len(u) : Written(u, n, target)
    BY <2>1, LogExtends DEF LiveInv
  <2>3. Len(s) \in Nat /\ Len(u) \in Nat /\ Len(called) \in Nat
    BY <2>1, <2>2 DEF IsList, Since
  <2>4. /\ \A n \in 0 .. Len(s) : SubSeq(u, 1, n) = SubSeq(s, 1, n)
        /\ \A n \in 1 .. Len(s) + 1 : Before(u, n) = Before(s, n)
    BY <2>2, LongerList
  <2>5. Since(u)
    <3>1. Len(called) \in 0 .. Len(s) /\ Len(called) =< Len(u)
      BY <2>1, <2>2, <2>3 DEF Since
    <3>2. ASSUME NEW n \in Len(called) + 1 .. Len(u) PROVE Written(u, n, target)
      <4>1. CASE n =< Len(s)
        <5>1. n \in Len(called) + 1 .. Len(s) /\ n \in 1 .. Len(s) /\ n - 1 \in 0 .. Len(s)
          BY <2>3, <4>1
        <5> QED BY <2>1, <2>2, <2>4, <5>1 DEF Since, Written
      <4>2. CASE ~(n =< Len(s))
        BY <2>2, <2>3, <4>2
      <4> QED BY <4>1, <4>2
    <3> QED BY <2>1, <2>4, <3>1, <3>2 DEF Since
  <2>6. Walked(u)
    <3>1. i + 1 \in 1 .. Len(s) + 1
      BY <2>1, <2>3
    <3>2. \A n \in 1 .. i : n \in 1 .. Len(s) /\ n \in 1 .. Len(s) + 1
      BY <2>1, <2>3
    <3> QED BY <2>1, <2>2, <2>4, <3>1, <3>2 DEF Walked
  <2>7. /\ i \in 0 .. Len(u)
        /\ pc = "reject" => i < Len(u) /\ reason = Defect(u[i + 1], i, prev, o)
    <3>1. pc = "reject" => i + 1 \in 1 .. Len(s)
      BY <2>1, <2>3
    <3> QED BY <2>1, <2>2, <2>3, <3>1
  <2>8. Since(u)' /\ Walked(u)'
    BY <1>1, <2>5, <2>6 DEF Since, Walked, Written
  <2>9. Since(entries)' /\ Walked(entries)'
    BY <2>8 DEF Since, Walked, Written
  <2> HIDE DEF Since, Walked
  <2>10. CallOK'
    BY <1>1, <2>1, <2>7, <2>9 DEF CallOK
  <2> QED BY <1>2, <2>10
<1> QED BY <1>2, <1>3, <1>4

(* A verdict v on a list s of which a start d was there when the call was   *)
(* made with options q, by a Chain that signs with key.                     *)
RightVerdict(v, s, d, q, key) ==
  /\ v.valid \in BOOLEAN /\ v.length \in Len(d) .. Len(s)
  /\ v.broken_at \in 0 .. Len(s) - 1 \cup {None}
  /\ \E n \in Len(d) .. v.length :
       LET moment == verify_chain(SubSeq(s, 1, n), q)
       IN  /\ v.valid = moment.valid /\ v.reason = moment.reason
           /\ \/ v.broken_at = moment.broken_at
              \/ /\ v.reason = "head hash does not match"
                 /\ v.broken_at = v.length - 1
  /\ ~FailsClosed(q) /\ Broken(d, q) # {} =>
       v = [verify_chain(d, q) EXCEPT !.length = v.length]
  /\ /\ NoneIsApart /\ verify_chain(d, q).valid /\ q.head = None /\ ~q.monotonic
     /\ q.trusted # None => key \in q.trusted
     => v.valid

LEMMA RightVerdicts ==
  ASSUME NEW v, v = verdict', NEW s, s = entries', NEW d, d = called',
         NEW q, q = o', NEW key, key = chain'[target'].key, RightVerdict(v, s, d, q, key)
  PROVE  Verdicts'
<1>1. VerdictTypes'
  BY DEF RightVerdict, VerdictTypes
<1>2. VerdictOfAMoment'
  BY DEF RightVerdict, VerdictOfAMoment
<1>3. DamageIsSeen'
  BY DEF RightVerdict, DamageIsSeen
<1>4. NoneIsApart => NoFalseAlarm'
  BY DEF RightVerdict, NoFalseAlarm
<1> QED BY <1>1, <1>2, <1>3, <1>4 DEF Verdicts, NoneIsApart

LEMMA NotDone == pc' # "done" => Verdicts'
BY DEF Verdicts, VerdictTypes, VerdictOfAMoment, DamageIsSeen, NoFalseAlarm, Done

(* The verdict before the loop. *)
LEMMA EarlyVerdict ==
  ASSUME NEW s, IsList(s), NEW q, FailsClosed(q) \/ s = <<>>, NEW key
  PROVE  RightVerdict(verify_chain(s, q), s, s, q, key)
<1>1. s \in Seq(Elements(s)) /\ Len(s) \in Nat
  BY DEF IsList
<1>2. SubSeq(s, 1, Len(s)) = s
  BY <1>1
<1>3. s = <<>> => Broken(s, q) = {} /\ Len(s) = 0
  BY DEF Broken
<1> PICK v : v = verify_chain(s, q)
  OBVIOUS
<1>4. \/ v = _result(FALSE, Len(s), None, "no trusted issuer keys supplied")
      \/ v = _result(FALSE, Len(s), None, "chain is empty")
      \/ v = _result(TRUE, Len(s), None, "empty chain")
  BY <1>3 DEF verify_chain
<1>5. v.valid \in BOOLEAN /\ v.length = Len(s) /\ v.broken_at = None
  <2>1. PICK b \in BOOLEAN : \E why : v = _result(b, Len(s), None, why)
    BY <1>4, Zenon
  <2>2. v.valid = b /\ v.length = Len(s) /\ v.broken_at = None
    BY <2>1, ResultFields
  <2> QED BY <2>2, Zenon
<1>6. Len(s) \in Len(s) .. Len(s)
  BY <1>1
<1>7. \E n \in Len(s) .. v.length :
        LET moment == verify_chain(SubSeq(s, 1, n), q)
        IN  /\ v.valid = moment.valid /\ v.reason = moment.reason
            /\ \/ v.broken_at = moment.broken_at
               \/ /\ v.reason = "head hash does not match"
                  /\ v.broken_at = v.length - 1
  BY <1>2, <1>5, <1>6
<1> QED BY <1>3, <1>5, <1>6, <1>7 DEF RightVerdict

LEMMA CallStarts ==
  ASSUME LiveInv, NEW c \in Live, NEW options, Call(c, options)
  PROVE  CallOK' /\ Verdicts'
<1> PICK s : s = EntriesOf(c)
  OBVIOUS
<1>1. /\ pc = "idle" /\ target' = c /\ o' = options /\ called' = s /\ UNCHANGED objects
      /\ i' = 0 /\ prev' = [hash |-> None, timestamp |-> None]
  BY DEF Call, LiveInv, CallOK
<1>2. Live' = Live /\ entries' = s /\ chain' = chain
  BY <1>1, ObjectsStay DEF entries, objects, EntriesOf
<1>3. IsList(s) /\ Len(s) \in Nat
  BY Listed DEF LiveInv, ActorInv
<1>4. SubSeq(s, 1, Len(s)) = s
  BY <1>3 DEF IsList
<1>5. Since(entries)' /\ i' \in 0 .. Len(entries')
  <2>1. Len(s) + 1 .. Len(s) = {}
    BY <1>3
  <2> QED BY <1>1, <1>2, <1>3, <1>4, <2>1 DEF Since
<1>6. CASE FailsClosed(options) \/ s = <<>>
  <2>1. pc' = "done" /\ verdict' = verify_chain(s, options)
    BY <1>6 DEF Call, Return
  <2>2. CallOK'
    BY <1>1, <1>2, <1>5, <2>1 DEF CallOK
  <2>3. Verdicts'
    BY <1>1, <1>2, <1>3, <1>6, <2>1, EarlyVerdict, RightVerdicts
  <2> QED BY <2>2, <2>3
<1>7. CASE ~(FailsClosed(options) \/ s = <<>>)
  <2>1. pc' = "loop"
    BY <1>7 DEF Call
  <2>2. Walked(entries)'
    <3>1. 1 .. 0 = {}
      OBVIOUS
    <3> QED BY <1>1, <1>2, <1>7, <3>1 DEF Walked, Before
  <2>3. CallOK'
    BY <1>1, <1>2, <1>5, <2>1, <2>2 DEF CallOK
  <2> QED BY <2>1, <2>3, NotDone
<1> QED BY <1>6, <1>7

(* An entry that append made passes every check but that of the time.       *)
LEMMA WrittenPasses ==
  ASSUME NEW s, NEW n \in Nat \ {0}, NEW c, Written(s, n, c), NoneIsApart,
         Before(s, n).hash = head_hash(SubSeq(s, 1, n - 1)), NEW q, ~q.monotonic,
         q.trusted # None => chain[c].key \in q.trusted
  PROVE  Defect(s[n], n - 1, Before(s, n), q) = "none"
<1> DEFINE e == s[n]
<1>1. /\ e.version = VERSION /\ e.seq = n - 1 /\ e.prev_hash = Before(s, n).hash
      /\ e.hash = entry_hash(e.seq, e.timestamp, e.actor, e.body, e.prev_hash)
      /\ e.signature.public_key = chain[c].key
      /\ e.signature.value = b64(sign(e.hash, e.signature.public_key))
      /\ e.signature.public_key \in Key
  BY DEF Written, build_entry
<1>2. IsBuilt(e, {chain[c].key})
  BY DEF Written, IsBuilt, build_entry
<1>3. e # None /\ e.signature # None
  BY <1>2 DEF NoneIsApart
<1>4. e.body \in Canonical
  BY DEF Written, Appendable
<1> HIDE DEF e
<1>5. OwnDefect(e, Before(s, n), q) = "none"
  BY <1>1, <1>3, <1>4, Decoding, OwnChecksPass DEF Recomputed
<1>6. index(e.seq) = n - 1
  BY <1>1, IndexOfNumber
<1> QED BY <1>1, <1>3, <1>5, <1>6 DEF Defect, IsObject, e

(* What the loop has gone through without a complaint, with the list d that *)
(* was there when the call was made.                                        *)
Passed(s, d, k, q, key) ==
  /\ IsList(s) /\ IsList(d) /\ Len(d) \in 1 .. Len(s) /\ d = SubSeq(s, 1, Len(d))
  /\ k \in 0 .. Len(s) /\ ~FailsClosed(q)
  /\ \A n \in 1 .. k : Defect(s[n], n - 1, Before(s, n), q) = "none"

LEMMA RejectVerdict ==
  ASSUME NEW s, NEW d, NEW k, NEW q, NEW key, Passed(s, d, k, q, key), k < Len(s),
         NEW why, why = Defect(s[k + 1], k, Before(s, k + 1), q), why # "none",
         /\ NoneIsApart /\ ~q.monotonic /\ k >= Len(d)
         /\ q.trusted # None => key \in q.trusted
         => why = "none"
  PROVE  RightVerdict(_result(FALSE, Len(s), k, why), s, d, q, key)
<1> DEFINE v == _result(FALSE, Len(s), k, why)
<1>1. v.valid = FALSE /\ v.length = Len(s) /\ v.broken_at = k /\ v.reason = why
  BY DEF _result
<1>2. /\ s \in Seq(Elements(s)) /\ Len(s) \in Nat /\ Len(d) \in Nat /\ k \in Nat
      /\ DOMAIN s = 1 .. Len(s) /\ k + 1 \in 1 .. Len(s) /\ (k + 1) - 1 = k
      /\ d \in Seq(Elements(d)) /\ DOMAIN d = 1 .. Len(d) /\ d # <<>>
  BY DEF Passed, IsList
<1> HIDE DEF v
<1>3. ASSUME NEW n \in k + 1 .. Len(s)
      PROVE  verify_chain(SubSeq(s, 1, n), q) = _result(FALSE, n, k, why)
  <2> PICK p : p = SubSeq(s, 1, n)
    OBVIOUS
  <2>1. n \in DOMAIN s /\ IsList(s) /\ n \in Nat
    BY <1>2 DEF Passed
  <2>2. /\ Len(p) = n /\ p # <<>>
        /\ \A m \in 1 .. n : Defect(p[m], m - 1, Before(p, m), q)
                            = Defect(s[m], m - 1, Before(s, m), q)
    BY <2>1, BrokenSoFar
  <2>3. IsList(p) /\ DOMAIN p = 1 .. n
    BY <1>2, <2>1, StartIsList DEF Passed
  <2>4. /\ k + 1 \in DOMAIN p
        /\ \A m \in 1 .. (k + 1) - 1 : m \in 1 .. n /\ m \in 1 .. k
    BY <1>2, <2>1, <2>3
  <2>5. Defect(p[k + 1], (k + 1) - 1, Before(p, k + 1), q) = why
    BY <1>2, <2>2, <2>3, <2>4
  <2>6. \A m \in 1 .. (k + 1) - 1 : Defect(p[m], m - 1, Before(p, m), q) = "none"
    BY <2>2, <2>4 DEF Passed
  <2>7. verify_chain(p, q) = _result(FALSE, Len(p), (k + 1) - 1, why)
    BY <2>3, <2>4, <2>5, <2>6, FirstDefectIsReported DEF Passed
  <2> QED BY <1>2, <2>2, <2>7
<1>4. \E n \in Len(d) .. v.length :
        LET moment == verify_chain(SubSeq(s, 1, n), q)
        IN  v.valid = moment.valid /\ v.reason = moment.reason /\ v.broken_at = moment.broken_at
  <2>1. Len(s) \in k + 1 .. Len(s) /\ Len(s) \in Len(d) .. v.length
    BY <1>1, <1>2 DEF Passed
  <2> PICK w : w = verify_chain(SubSeq(s, 1, Len(s)), q)
    OBVIOUS
  <2>2. w = _result(FALSE, Len(s), k, why)
    BY <1>3, <2>1
  <2>3. w = v
    BY <2>2 DEF v
  <2> QED BY <2>1, <2>3
<1>5. ASSUME Broken(d, q) # {}
      PROVE  v = [verify_chain(d, q) EXCEPT !.length = v.length]
  <2>1. Broken(d, q) = Broken(s, q) \cap (1 .. Len(d))
    <3>1. Len(d) \in DOMAIN s /\ IsList(s) /\ d = SubSeq(s, 1, Len(d))
      BY <1>2 DEF Passed
    <3>2. Broken(SubSeq(s, 1, Len(d)), q) = Broken(s, q) \cap (1 .. Len(d))
      BY <3>1, BrokenSoFar
    <3> QED BY <3>1, <3>2, Zenon
  <2>2. PICK m \in Broken(d, q) : TRUE
    BY <1>5
  <2>3. m \in 1 .. Len(d) /\ ~(m \in 1 .. k)
    BY <2>1, <2>2 DEF Broken, Passed
  <2>4. Len(d) \in k + 1 .. Len(s)
    BY <1>2, <2>3 DEF Passed
  <2> PICK w : w = verify_chain(d, q)
    OBVIOUS
  <2>5. w = _result(FALSE, Len(d), k, why)
    BY <1>3, <2>4 DEF Passed
  <2>6. _result(FALSE, Len(s), k, why) = [w EXCEPT !.length = Len(s)]
    <3> PICK b : b = FALSE
      OBVIOUS
    <3>1. \A x : x = _result(b, Len(d), k, why)
                 => _result(b, Len(s), k, why) = [x EXCEPT !.length = Len(s)]
      BY ResultOfLength
    <3> QED BY <2>5, <3>1, Zenon
  <2> QED BY <1>1, <2>6 DEF v
<1>6. ASSUME NoneIsApart, verify_chain(d, q).valid, ~q.monotonic,
             q.trusted # None => key \in q.trusted
      PROVE  FALSE
  <2>1. k < Len(d)
    BY <1>2, <1>6
  <2>2. Len(d) \in k + 1 .. Len(s)
    BY <1>2, <2>1 DEF Passed
  <2> PICK w : w = verify_chain(d, q)
    OBVIOUS
  <2>3. w = _result(FALSE, Len(d), k, why)
    BY <1>3, <2>2 DEF Passed
  <2>4. w.valid = FALSE
    BY <2>3 DEF _result
  <2> QED BY <1>6, <2>4
<1>7. /\ v.valid \in BOOLEAN /\ v.length \in Len(d) .. Len(s)
      /\ v.broken_at \in 0 .. Len(s) - 1 \cup {None}
  <2>1. Len(s) \in Len(d) .. Len(s) /\ k \in 0 .. Len(s) - 1
    BY <1>2 DEF Passed
  <2> QED BY <1>1, <2>1
<1>8. RightVerdict(v, s, d, q, key)
  BY <1>4, <1>5, <1>6, <1>7 DEF RightVerdict
<1> QED BY <1>8 DEF v

(* The verdict when the loop is through: n entries by now, h the last hash. *)
HeadResult(h, n, q) ==
  IF q.head # None /\ h # q.head
  THEN _result(FALSE, n, n - 1, "head hash does not match")
  ELSE _result(TRUE, n, None, "chain intact")

(* Two such verdicts, after different numbers of entries. *)
Agree(v, w, n, q) ==
  /\ v.length = n /\ v.valid \in BOOLEAN
  /\ v.broken_at = n - 1 \/ v.broken_at = None
  /\ v.valid = w.valid /\ v.reason = w.reason
  /\ \/ v.broken_at = w.broken_at
     \/ v.reason = "head hash does not match" /\ v.broken_at = v.length - 1
  /\ q.head = None => v.valid

LEMMA HeadResultsAgree ==
  ASSUME NEW h, NEW q, NEW n, NEW m, NEW v, v = HeadResult(h, n, q),
         NEW w, w = HeadResult(h, m, q)
  PROVE  Agree(v, w, n, q)
<1>1. CASE q.head # None /\ h # q.head
  <2>1. /\ HeadResult(h, n, q).length = n /\ HeadResult(h, n, q).valid = FALSE
        /\ HeadResult(h, n, q).broken_at = n - 1
        /\ HeadResult(h, n, q).reason = "head hash does not match"
        /\ HeadResult(h, m, q).valid = FALSE
        /\ HeadResult(h, m, q).reason = "head hash does not match"
    BY <1>1 DEF HeadResult, _result
  <2>2. /\ v.length = n /\ v.valid = FALSE /\ v.broken_at = n - 1
        /\ v.reason = "head hash does not match"
        /\ w.valid = FALSE /\ w.reason = "head hash does not match"
    BY <2>1, Zenon
  <2> QED BY <1>1, <2>2, Zenon DEF Agree
<1>2. CASE ~(q.head # None /\ h # q.head)
  <2>1. /\ HeadResult(h, n, q).length = n /\ HeadResult(h, n, q).valid = TRUE
        /\ HeadResult(h, n, q).broken_at = None
        /\ HeadResult(h, n, q).reason = "chain intact"
        /\ HeadResult(h, m, q).valid = TRUE /\ HeadResult(h, m, q).broken_at = None
        /\ HeadResult(h, m, q).reason = "chain intact"
    BY <1>2 DEF HeadResult, _result
  <2>2. /\ v.length = n /\ v.valid = TRUE /\ v.broken_at = None
        /\ v.reason = "chain intact" /\ w.valid = TRUE
        /\ w.reason = "chain intact" /\ w.broken_at = None
    BY <2>1, Zenon
  <2> QED BY <2>2, Zenon DEF Agree
<1> QED BY <1>1, <1>2

LEMMA HeadVerdict ==
  ASSUME NEW s, NEW d, NEW k, NEW q, NEW key, Passed(s, d, k, q, key), k >= Len(d),
         NEW v, v = HeadResult(s[k].hash, Len(s), q)
  PROVE  RightVerdict(v, s, d, q, key)
<1>1. /\ Len(s) \in Nat /\ Len(d) \in Nat /\ k \in 1 .. Len(s) /\ k \in 0 .. Len(s)
      /\ DOMAIN s = 1 .. Len(s) /\ Len(d) \in DOMAIN s /\ k \in DOMAIN s
      /\ IsList(s) /\ d = SubSeq(s, 1, Len(d)) /\ k \in Len(d) .. Len(s)
  BY DEF Passed, IsList
<1> PICK p : p = SubSeq(s, 1, k)
  OBVIOUS
<1>3. /\ IsList(p) /\ Len(p) = k /\ p # <<>> /\ p[Len(p)] = s[k]
      /\ Broken(p, q) = Broken(s, q) \cap (1 .. k)
  <2>1. IsList(p) /\ Len(p) = k /\ p[k] = s[k]
    BY <1>1, StartIsList
  <2>2. p # <<>> /\ Broken(p, q) = Broken(s, q) \cap (1 .. k)
    BY <1>1, BrokenSoFar
  <2> QED BY <2>1, <2>2
<1>4. Broken(s, q) \cap (1 .. k) = {}
  BY DEF Broken, Passed
<1> PICK w : w = verify_chain(p, q)
  OBVIOUS
<1>5. w = HeadResult(s[k].hash, k, q)
  BY <1>3, <1>4, HeadDecides DEF Passed, HeadResult
<1>6. /\ v.length = Len(s) /\ v.valid \in BOOLEAN
      /\ v.broken_at = Len(s) - 1 \/ v.broken_at = None
      /\ v.valid = w.valid /\ v.reason = w.reason
      /\ \/ v.broken_at = w.broken_at
         \/ v.reason = "head hash does not match" /\ v.broken_at = v.length - 1
      /\ q.head = None => v.valid
  <2>1. Agree(v, w, Len(s), q)
    BY <1>5, HeadResultsAgree
  <2> QED BY <2>1, Zenon DEF Agree
<1>2. /\ v.length \in Len(d) .. Len(s) /\ v.valid \in BOOLEAN
      /\ v.broken_at \in 0 .. Len(s) - 1 \cup {None}
  <2>1. Len(s) - 1 \in 0 .. Len(s) - 1 /\ Len(s) \in Len(d) .. Len(s)
    BY <1>1
  <2> QED BY <1>6, <2>1, Zenon
<1>7. k \in Len(d) .. v.length
  BY <1>1, <1>6, Zenon
<1>8. Broken(d, q) = {}
  <2>1. Broken(SubSeq(s, 1, Len(d)), q) = Broken(s, q) \cap (1 .. Len(d))
    BY <1>1, BrokenSoFar
  <2>2. 1 .. Len(d) \subseteq 1 .. k
    BY <1>1
  <2> QED BY <1>1, <1>4, <2>1, <2>2, Zenon
<1>10. \E n \in Len(d) .. v.length :
         LET moment == verify_chain(SubSeq(s, 1, n), q)
         IN  /\ v.valid = moment.valid /\ v.reason = moment.reason
             /\ \/ v.broken_at = moment.broken_at
                \/ v.reason = "head hash does not match" /\ v.broken_at = v.length - 1
  BY <1>6, <1>7
<1> QED BY <1>2, <1>6, <1>8, <1>10 DEF RightVerdict

(* What CallOK says in the loop is what the lemmas above ask for.           *)
LEMMA LoopHasPassed ==
  ASSUME LiveInv, pc \in {"loop", "reject", "head"},
         NEW s, s = entries, NEW d, d = called, NEW k, k = i, NEW q, q = o, NEW key
  PROVE  Passed(s, d, k, q, key) /\ prev = Before(s, k + 1) /\ Since(s)
<1>1. target \in Live /\ k \in 0 .. Len(s) /\ Since(s) /\ Walked(s)
  BY DEF LiveInv, CallOK
<1>2. IsList(s)
  BY <1>1, Listed DEF LiveInv, ActorInv, entries
<1>3. Len(d) \in 1 .. Len(s)
  <2>1. d \in Seq(Elements(d)) /\ d # <<>> /\ Len(d) =< Len(s) /\ Len(s) \in Nat
    BY <1>1, <1>2 DEF Since, Walked, IsList
  <2>2. Len(d) \in Nat /\ Len(d) # 0
    BY <2>1, EmptySeq
  <2> QED BY <2>1, <2>2
<1> QED BY <1>1, <1>2, <1>3 DEF Passed, Since, Walked

(* The caller of verify_chain takes a step: the Chains stay as they are.    *)
LEMMA VerifyStays ==
  ASSUME LiveInv, UNCHANGED <<objects, target, o, called>>, pc # "idle"
  PROVE  /\ entries' = entries /\ Live' = Live /\ chain' = chain /\ target \in Live
         /\ Since(entries) /\ Since(entries)' /\ ActorInv'
<1>1. entries' = entries /\ Live' = Live /\ chain' = chain /\ ActorInv'
  BY ObjectsStay DEF entries, EntriesOf, objects, LiveInv
<1>2. target \in Live /\ Since(entries)
  BY DEF LiveInv, CallOK
<1> QED BY <1>1, <1>2 DEF Since, Written

LEMMA CheckSteps == LiveInv /\ Check => LiveInv'
<1> SUFFICES ASSUME LiveInv, Check PROVE LiveInv'
  OBVIOUS
<1> PICK s : s = entries
  OBVIOUS
<1> PICK k : k = i
  OBVIOUS
<1>1. pc = "loop" /\ UNCHANGED <<objects, target, o, called>> /\ verdict' = verdict /\ k < Len(s)
  BY DEF Check
<1>2. /\ entries' = s /\ Live' = Live /\ chain' = chain /\ target \in Live
      /\ Since(entries)' /\ ActorInv'
  BY <1>1, VerifyStays
<1>3. Passed(s, called, k, o, chain[target].key) /\ prev = Before(s, k + 1)
  BY <1>1, LoopHasPassed
<1>4. ~FailsClosed(o) /\ called # <<>>
  BY <1>1 DEF LiveInv, CallOK, Walked
<1>5. k \in Nat /\ Len(s) \in Nat /\ \A n \in 1 .. k : Defect(s[n], n - 1, Before(s, n), o) = "none"
  BY <1>3 DEF Passed, IsList
<1> DEFINE defect == Defect(s[k + 1], k, Before(s, k + 1), o)
<1>6. CASE defect = "none"
  <2>1. pc' = "loop" /\ i' = k + 1 /\ prev' = Remembered(s[k + 1])
    BY <1>1, <1>3, <1>6 DEF Check
  <2>2. s[k + 1] # None
    BY <1>6 DEF Defect, IsObject
  <2>3. prev' = Before(s, k + 2)
    <3>1. k + 2 # 1 /\ (k + 2) - 1 = k + 1
      BY <1>5
    <3> QED BY <2>1, <2>2, <3>1 DEF Before, IsObject, Remembered
  <2>4. \A n \in 1 .. k + 1 : Defect(s[n], n - 1, Before(s, n), o) = "none"
    <3>1. \A n \in 1 .. k + 1 : n \in 1 .. k \/ (n = k + 1 /\ n - 1 = k)
      BY <1>5
    <3> HIDE DEF defect
    <3> QED BY <1>5, <1>6, <3>1 DEF defect
  <2>5. i' + 1 = k + 2
    BY <1>5, <2>1
  <2>6. Walked(s)'
    BY <1>1, <1>4, <2>1, <2>3, <2>4, <2>5 DEF Walked
  <2>7. Walked(entries)'
    BY <1>2, <2>6 DEF Walked
  <2>8. i' \in 0 .. Len(entries')
    BY <1>1, <1>2, <1>5, <2>1
  <2>9. CallOK'
    BY <1>1, <1>2, <2>1, <2>7, <2>8 DEF CallOK
  <2> QED BY <1>2, <2>1, <2>9, NotDone DEF LiveInv
<1>7. CASE defect # "none"
  <2>1. pc' = "reject" /\ i' = k /\ prev' = prev /\ reason' = defect
    BY <1>1, <1>3, <1>7 DEF Check
  <2> HIDE DEF defect
  <2>2. Walked(s)'
    BY <1>1, <1>3, <1>4, <1>5, <2>1 DEF Walked
  <2>3. Walked(entries)'
    BY <1>2, <2>2 DEF Walked
  <2>4. reason' = Defect(entries'[i' + 1], i', prev', o')
    BY <1>1, <1>2, <1>3, <2>1 DEF defect
  <2>5. i' \in 0 .. Len(entries') /\ i' < Len(entries')
    BY <1>1, <1>2, <1>5, <2>1
  <2>6. CallOK'
    BY <1>1, <1>2, <1>7, <2>1, <2>3, <2>4, <2>5 DEF CallOK
  <2> QED BY <1>2, <2>1, <2>6, NotDone DEF LiveInv
<1> QED BY <1>6, <1>7

LEMMA EndLoopSteps == LiveInv /\ EndLoop => LiveInv'
<1> SUFFICES ASSUME LiveInv, EndLoop PROVE LiveInv'
  OBVIOUS
<1>1. /\ pc = "loop" /\ pc' = "head" /\ UNCHANGED <<objects, target, o, called>>
      /\ i' = i /\ prev' = prev /\ reason' = reason /\ i >= Len(entries)
  BY DEF EndLoop, Exhausted, locals
<1>2. /\ entries' = entries /\ Live' = Live /\ chain' = chain /\ target \in Live
      /\ Since(entries) /\ Since(entries)' /\ ActorInv'
  BY <1>1, VerifyStays
<1>3. Walked(entries) /\ i \in 0 .. Len(entries)
  BY <1>1 DEF LiveInv, CallOK
<1>4. Walked(entries)'
  BY <1>1, <1>2, <1>3 DEF Walked
<1>5. i >= Len(called)
  <2>1. Len(called) =< Len(entries) /\ IsList(called)
    BY <1>2 DEF Since
  <2>2. IsList(entries)
    BY <1>2, Listed DEF LiveInv, ActorInv, entries
  <2> QED BY <1>1, <1>3, <2>1, <2>2 DEF IsList
<1>6. CallOK'
  BY <1>1, <1>2, <1>3, <1>4, <1>5 DEF CallOK
<1> QED BY <1>1, <1>2, <1>6, NotDone DEF LiveInv

LEMMA RejectSteps == LiveInv /\ Reject => LiveInv'
<1> SUFFICES ASSUME LiveInv, Reject PROVE LiveInv'
  OBVIOUS
<1> PICK s : s = entries
  OBVIOUS
<1> PICK k : k = i
  OBVIOUS
<1> PICK key : key = chain[target].key
  OBVIOUS
<1>1. /\ pc = "reject" /\ pc' = "done" /\ UNCHANGED <<objects, target, o, called>>
      /\ i' = i /\ verdict' = _result(FALSE, Len(s), k, reason)
  BY DEF Reject, Return, BrokenAt, locals
<1>2. /\ entries' = s /\ Live' = Live /\ chain' = chain /\ target \in Live
      /\ Since(entries)' /\ ActorInv'
  BY <1>1, VerifyStays
<1>3. Passed(s, called, k, o, key) /\ prev = Before(s, k + 1) /\ Since(s)
  BY <1>1, LoopHasPassed
<1>4. /\ k < Len(s) /\ reason # "none" /\ reason = Defect(s[k + 1], k, Before(s, k + 1), o)
      /\ i \in 0 .. Len(s)
  BY <1>1, <1>3 DEF LiveInv, CallOK
<1>5. CallOK'
  BY <1>1, <1>2, <1>4 DEF CallOK
<1>6. ASSUME NoneIsApart, ~o.monotonic, k >= Len(called), o.trusted # None => key \in o.trusted
      PROVE  reason = "none"
  <2>1. /\ k \in Nat \ {0} /\ Len(s) \in Nat /\ k \in DOMAIN s /\ k \in 0 .. Len(s)
        /\ k + 1 \in Len(called) + 1 .. Len(s) /\ (k + 1) - 1 = k /\ IsList(s)
        /\ k \in 1 .. k
    BY <1>3, <1>4, <1>6 DEF Passed, IsList
  <2>2. s[k] # None
    <3>1. Defect(s[k], k - 1, Before(s, k), o) = "none"
      BY <1>3, <2>1 DEF Passed
    <3> QED BY <3>1 DEF Defect, IsObject
  <2>3. Before(s, k + 1).hash = head_hash(SubSeq(s, 1, k))
    <3>1. Before(s, k + 1).hash = s[k].hash
      BY <2>1, <2>2 DEF Before, IsObject
    <3> PICK p : p = SubSeq(s, 1, k)
      OBVIOUS
    <3>2. Len(p) = k /\ p[k] = s[k]
      BY <2>1, StartIsList
    <3>3. p # <<>>
      BY <2>1, <3>2
    <3> QED BY <3>1, <3>2, <3>3 DEF head_hash
  <2>4. Written(s, k + 1, target)
    BY <1>3, <2>1 DEF Since
  <2>5. Defect(s[k + 1], (k + 1) - 1, Before(s, k + 1), o) = "none"
    <3>1. k + 1 \in Nat \ {0}
      BY <2>1
    <3> QED BY <1>6, <2>1, <2>3, <2>4, <3>1, WrittenPasses
  <2> QED BY <1>4, <2>1, <2>5
<1>7. RightVerdict(_result(FALSE, Len(s), k, reason), s, called, o, key)
  BY <1>3, <1>4, <1>6, RejectVerdict
<1>8. RightVerdict(verdict', s, called, o, key)
  BY <1>1, <1>7, Zenon
<1>9. entries' = s /\ called' = called /\ o' = o /\ chain'[target'].key = key
  BY <1>1, <1>2
<1>10. Verdicts'
  BY <1>8, <1>9, RightVerdicts
<1> QED BY <1>2, <1>5, <1>10 DEF LiveInv

LEMMA CheckHeadSteps == LiveInv /\ CheckHead => LiveInv'
<1> SUFFICES ASSUME LiveInv, CheckHead PROVE LiveInv'
  OBVIOUS
<1> PICK s : s = entries
  OBVIOUS
<1> PICK k : k = i
  OBVIOUS
<1> PICK key : key = chain[target].key
  OBVIOUS
<1>1. /\ pc = "head" /\ pc' = "done" /\ UNCHANGED <<objects, target, o, called>>
      /\ i' = i /\ verdict' = HeadResult(prev.hash, Len(s), o)
  BY DEF CheckHead, Return, HeadResult, locals
<1>2. /\ entries' = s /\ Live' = Live /\ chain' = chain /\ target \in Live
      /\ Since(entries)' /\ ActorInv'
  BY <1>1, VerifyStays
<1>3. Passed(s, called, k, o, key) /\ prev = Before(s, k + 1)
  BY <1>1, LoopHasPassed
<1>4. k >= Len(called) /\ i \in 0 .. Len(s)
  BY <1>1 DEF LiveInv, CallOK
<1>5. CallOK'
  BY <1>1, <1>2, <1>4 DEF CallOK
<1>6. prev.hash = s[k].hash
  <2>1. k \in 1 .. k /\ k + 1 # 1 /\ (k + 1) - 1 = k
    BY <1>3, <1>4 DEF Passed
  <2>2. s[k] # None
    <3>1. Defect(s[k], k - 1, Before(s, k), o) = "none"
      BY <1>3, <2>1 DEF Passed
    <3> QED BY <3>1 DEF Defect, IsObject
  <2> QED BY <1>3, <2>1, <2>2 DEF Before, IsObject
<1>7. verdict' = HeadResult(s[k].hash, Len(s), o)
  BY <1>1, <1>6, Zenon
<1>8. RightVerdict(verdict', s, called, o, key)
  BY <1>3, <1>4, <1>7, HeadVerdict
<1>9. entries' = s /\ called' = called /\ o' = o /\ chain'[target'].key = key
  BY <1>1, <1>2
<1>10. Verdicts'
  BY <1>8, <1>9, RightVerdicts
<1> QED BY <1>2, <1>5, <1>10 DEF LiveInv

LEMMA LiveStep == LiveInv /\ [Next]_vars => LiveInv'
<1> SUFFICES ASSUME LiveInv, [Next]_vars PROVE LiveInv'
  OBVIOUS
<1>1. ActorInv'
  BY ActorStep DEF LiveInv
<1>2. ASSUME NEW c \in Live, Log(c) PROVE LiveInv'
  BY <1>1, <1>2, LogCalls DEF LiveInv
<1>3. CASE Mutate \/ Opens
  <2>1. /\ pc = "idle" /\ pc' = "idle" /\ i' = i /\ prev' = prev
    BY <1>3 DEF Mutate, Opens, Open, locals
  <2>2. CallOK'
    BY <2>1 DEF LiveInv, CallOK
  <2> QED BY <1>1, <2>1, <2>2, NotDone DEF LiveInv
<1>4. CASE Calls
  BY <1>1, <1>4, CallStarts DEF Calls, LiveInv
<1>5. CASE Verify
  BY <1>5, CheckSteps, RejectSteps, EndLoopSteps, CheckHeadSteps DEF Verify
<1>6. CASE UNCHANGED vars
  <2>1. /\ pc' = pc /\ target' = target /\ o' = o /\ i' = i /\ prev' = prev
        /\ reason' = reason /\ verdict' = verdict /\ called' = called
        /\ chain' = chain /\ UNCHANGED objects
    BY <1>6 DEF vars, locals, objects
  <2>2. entries' = entries /\ Live' = Live
    BY <2>1, ObjectsStay DEF entries, EntriesOf, objects
  <2>3. CallOK'
    BY <2>1, <2>2 DEF LiveInv, CallOK, Since, Walked, Written
  <2>4. Verdicts'
    BY <2>1, <2>2 DEF LiveInv, Verdicts, VerdictTypes, VerdictOfAMoment, DamageIsSeen,
                      NoFalseAlarm, Done
  <2> QED BY <1>1, <2>3, <2>4 DEF LiveInv
<1> QED BY <1>2, <1>3, <1>4, <1>5, <1>6 DEF Next

(* What verify_chain has established at every moment of a call on a chain   *)
(* that grows.                                                              *)
THEOREM LiveInvariant == Spec => []LiveInv
<1> QED BY LiveInit, LiveStep, PTL DEF Spec

(* The objects, the locals of verify_chain and its verdict keep their types. *)
THEOREM LiveTypes == Spec => []TypeOK
<1>1. LiveInv => TypeOK
  <2> SUFFICES ASSUME LiveInv PROVE TypeOK
    OBVIOUS
  <2>1. \A l \in Chains : \A n \in DOMAIN lists[l] : lists[l][n] \in DOMAIN heap
    BY DEF LiveInv, ActorInv, ObjectsOK
  <2>2. \A c \in Live : chain[c].list \in Chains
    BY DEF LiveInv, ActorInv, ObjectsOK, Live
  <2> QED BY <2>1, <2>2 DEF LiveInv, CallOK, Verdicts, VerdictTypes, TypeOK
<1> QED BY <1>1, LiveInvariant, PTL

(* verify_chain on a Chain that goes on logging gives the verdict on the    *)
(* chain as it stood at one moment of the call.                             *)
THEOREM VerdictIsOfAMoment == Spec => []VerdictOfAMoment
<1>1. LiveInv => VerdictOfAMoment
  BY DEF LiveInv, Verdicts
<1> QED BY <1>1, LiveInvariant, PTL

(* It reports the damage there was when it was called, at its place.        *)
THEOREM DamageIsReported == Spec => []DamageIsSeen
<1>1. LiveInv => DamageIsSeen
  BY DEF LiveInv, Verdicts
<1> QED BY <1>1, LiveInvariant, PTL

(* And what is logged during the call raises no alarm.                      *)
THEOREM LoggingIsNoDamage == ASSUME NoneIsApart PROVE Spec => []NoFalseAlarm
<1>1. LiveInv => NoFalseAlarm
  BY DEF LiveInv, Verdicts
<1> QED BY <1>1, LiveInvariant, PTL
=============================================================================
