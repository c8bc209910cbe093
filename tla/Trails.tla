------------------------------- MODULE Trails -------------------------------
(***************************************************************************)
(* What a Chain promises: an append-only trail.  A trail grows at its end  *)
(* by one entry at a time, each linked to the one before it and signed; a  *)
(* Chain may also be opened on any list that some Chain held before (an    *)
(* export read back after a restart, or a copy), which is how trails fork  *)
(* and roll back.                                                          *)
(***************************************************************************)
EXTENDS Entries

CONSTANTS
  Handle,     \* the Chain objects of the program
  KeyOf,      \* the signing key a Chain was opened with, None to read only
  Actor,      \* the actor whose trail it is
  Time        \* timestamps, as numbers in the order of their text

ASSUME KeyOfAssumption == KeyOf \in [Handle -> Key \cup {None}]
ASSUME TimeAssumption == Time \subseteq Nat

VARIABLES
  trails,     \* the entries of each Chain
  held        \* history: every list of entries some Chain ever held

vars == <<trails, held>>

Init == /\ trails = [h \in Handle |-> <<>>]
        /\ held = {<<>>}

(* Entries counted from one. *)
CountedFromOne(h, body, timestamp) ==
  build_entry(Len(trails[h]) + 1, timestamp, Actor, body, head_hash(trails[h]), KeyOf[h])

(* The entry Chain h writes next. *)
Next_entry(h, body, timestamp) ==
  build_entry(Len(trails[h]), timestamp, Actor, body, head_hash(trails[h]), KeyOf[h])

Extend(h) ==
  \E body \in Appendable, timestamp \in Time :
    LET longer == Append(trails[h], Next_entry(h, body, timestamp))
    IN  /\ KeyOf[h] \in Key
        /\ trails' = [trails EXCEPT ![h] = longer]
        /\ held' = held \cup {longer}

Reopen(h) ==
  \E entries \in held :
    /\ trails' = [trails EXCEPT ![h] = entries]
    /\ UNCHANGED held

Next == \E h \in Handle : Extend(h) \/ Reopen(h)

Spec == Init /\ [][Next]_vars

-----------------------------------------------------------------------------
Writers == {KeyOf[h] : h \in Handle} \ {None}

(* Every entry that was ever in a trail. *)
Issued == UNION {Elements(s) : s \in held}

(* An entry as the Chains write and sign them. *)
IsWritten(e) ==
  /\ IsBuilt(e, Writers)
  /\ e.body \in Appendable /\ e.timestamp \in Time /\ e.actor = Actor

(* The history is a tree: every list ever held is a linked list of entries  *)
(* the writers signed, and every start of it was held too.                  *)
HistoryOK ==
  /\ <<>> \in held
  /\ trails \in [Handle -> held]
  /\ \A s \in held :
       /\ IsList(s) /\ Linked(s)
       /\ \A e \in Elements(s) : IsWritten(e)
       /\ \A n \in 1 .. Len(s) : SubSeq(s, 1, n) \in held

(* A head hash stands for one history only: two lists that were ever held,  *)
(* forks and rolled back ones included, share a head hash only if they say  *)
(* the same, entry by entry.                                                *)
HeadCommits ==
  \A s, u \in held \ {<<>>} :
    head_hash(s) = head_hash(u) => Content(s) = Content(u)
=============================================================================
