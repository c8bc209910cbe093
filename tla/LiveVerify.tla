------------------------------ MODULE LiveVerify ------------------------------
(***************************************************************************)
(* Chain objects that share what they hold, and verify_chain on one of     *)
(* them while they are in use.                                             *)
(*                                                                         *)
(* python/witnesskit/chain.py: a Chain keeps a list of references to its   *)
(* entries.  append returns the entry it stores, to_json returns the list  *)
(* itself, and open copies the list, not the entries in it.  So two Chains *)
(* may share entries but, if each list is copied, never a list.            *)
(*                                                                         *)
(* python/witnesskit/verify.py: verify_chain takes chain.entries as it is, *)
(* walks it with an iterator that sees entries appended behind it, and     *)
(* asks for len(entries) again when it reports.  The Chains go on logging  *)
(* meanwhile; before the call a caller may have changed a payload it had   *)
(* logged.                                                                 *)
(***************************************************************************)
EXTENDS Entries

CONSTANTS
  Signer,     \* the key of the first Chain
  Actor,      \* its actor
  OpenKey,    \* the keys a Chain is opened with, None for "read only"
  OpenActor,  \* the actor arguments of open, None for "not given"
  Time,       \* timestamps
  Caller,     \* the options of verify_chain tried, without an expected head
  MaxEntries  \* bound: entries logged

ASSUME LiveAssumption ==
  /\ Signer \in Key /\ OpenKey \subseteq Key \cup {None}
  /\ Time \subseteq Nat /\ MaxEntries \in Nat

VARIABLES
  heap,       \* the entry objects, in the order they were made
  lists,      \* the list objects: sequences of positions in heap
  chain,      \* the Chain objects: their list, actor and key, None if not made
  pc,         \* where verify_chain is
  target,     \* the Chain it was given
  o,          \* its options
  i,          \* index of the entry checked next
  prev,       \* prev_hash and prev_ts
  reason,     \* why it is about to reject
  verdict,
  called      \* history: the entries when verify_chain was called

objects == <<heap, lists, chain>>
locals == <<target, o, i, prev, reason>>
vars == <<objects, pc, locals, verdict, called>>

-----------------------------------------------------------------------------
(* Chain objects                                                            *)

(* The Chain that is there from the start, and one opened from an export.   *)
Chains == {"made", "opened"}

Live == {c \in Chains : chain[c] # None}

(* self.entries of a Chain. *)
EntriesOf(c) ==
  LET list == lists[chain[c].list] IN [n \in DOMAIN list |-> heap[list[n]]]

(* The mutable list of a Chain, and a Chain that keeps the list it was given. *)
Kept(from) == chain[from].list
Copied(from) == "opened"

Init ==
  /\ heap = <<>> /\ lists = [l \in Chains |-> <<>>]
  /\ chain = [c \in Chains |-> IF c = "made"
                THEN [list |-> c, actor |-> Actor, key |-> Signer] ELSE None]
  /\ pc = "idle" /\ target = None /\ o = None /\ i = 0
  /\ prev = [hash |-> None, timestamp |-> None]
  /\ reason = None /\ verdict = None /\ called = <<>>

(* append, at any time; without a key it raises.  Another thread's call of  *)
(* it on the same Chain is the subject of module ChainLog.                  *)
Log(c) ==
  /\ pc # "done" /\ Len(heap) < MaxEntries
  /\ chain[c].key # None
  /\ \E body \in Appendable, timestamp \in Time :
       heap' = Append(heap, build_entry(Len(EntriesOf(c)), timestamp, chain[c].actor,
                                        body, head_hash(EntriesOf(c)), chain[c].key))
  /\ lists' = [lists EXCEPT ![chain[c].list] = Append(@, Len(heap'))]
  /\ UNCHANGED <<chain, pc, locals, verdict, called>>

(* A caller writes to a payload after logging it: every Chain that lists    *)
(* the entry sees it.  One write is the bound.                              *)
Mutate ==
  /\ pc = "idle"
  /\ \A n \in DOMAIN heap : heap[n].hash = Recomputed(heap[n])
  /\ \E n \in DOMAIN heap, body \in Body : heap' = [heap EXCEPT ![n].body = body]
  /\ UNCHANGED <<lists, chain, pc, locals, verdict, called>>

(* The actor of the last entry, and the inference without it.               *)
NoActor(entries) == None
LastActor(entries) == IF entries = <<>> THEN None ELSE entries[Len(entries)].actor

(* Chain.open on an export, or on the list of one, which names no actor.    *)
(* The copy has room of its own; an earlier opened Chain is dropped.        *)
Open(from, given, exported, key) ==
  /\ pc = "idle"
  /\ LET named == IF given # None THEN given
                  ELSE IF exported THEN chain[from].actor ELSE None
         actor == IF named = None THEN LastActor(EntriesOf(from)) ELSE named
     IN  chain' = [chain EXCEPT !["opened"] =
                     [list |-> Copied(from), actor |-> actor, key |-> key]]
  /\ lists' = [lists EXCEPT !["opened"] = lists[chain[from].list]]
  /\ UNCHANGED <<heap, pc, locals, verdict, called>>

-----------------------------------------------------------------------------
(* verify_chain                                                             *)

entries == EntriesOf(target)

Return(result) == pc' = "done" /\ verdict' = result

(* Everything before the loop: no signers named, or nothing to check. *)
Call(c, options) ==
  /\ pc = "idle"
  /\ target' = c /\ o' = options /\ called' = EntriesOf(c)
  /\ IF FailsClosed(options) \/ EntriesOf(c) = <<>>
     THEN Return(verify_chain(EntriesOf(c), options))
     ELSE pc' = "loop" /\ UNCHANGED verdict
  /\ UNCHANGED <<objects, i, prev, reason>>

(* What the loop remembers of an entry, and a loop that remembers nothing.  *)
Nothing(e) == [hash |-> None, timestamp |-> None]
Remembered(e) == [hash |-> e.hash, timestamp |-> e.timestamp]

(* One iteration: the next entry of the list as it is by now. *)
Check ==
  /\ pc = "loop" /\ i < Len(entries)
  /\ LET e      == entries[i + 1]
         defect == Defect(e, i, prev, o)
     IN  IF defect = "none"
         THEN i' = i + 1 /\ prev' = Remembered(e) /\ UNCHANGED <<pc, reason>>
         ELSE pc' = "reject" /\ reason' = defect /\ UNCHANGED <<i, prev>>
  /\ UNCHANGED <<objects, target, o, verdict, called>>

(* The index to report, and two wrong ones. *)
NextIndex == i + 1
LastIndex == Len(entries) - 1
BrokenAt == i

Reject ==
  /\ pc = "reject"
  /\ Return(_result(FALSE, Len(entries), BrokenAt, reason))
  /\ UNCHANGED <<objects, locals, called>>

(* Whether the iterator is exhausted, and off by one. *)
PastTheEnd == i > Len(entries)
Exhausted == i >= Len(entries)

EndLoop ==
  /\ pc = "loop" /\ Exhausted
  /\ pc' = "head"
  /\ UNCHANGED <<objects, locals, verdict, called>>

CheckHead ==
  /\ pc = "head"
  /\ Return(IF o.head # None /\ prev.hash # o.head
            THEN _result(FALSE, Len(entries), Len(entries) - 1, "head hash does not match")
            ELSE _result(TRUE, Len(entries), None, "chain intact"))
  /\ UNCHANGED <<objects, locals, called>>

(* A caller anchors nothing, or the head the chain has or had. *)
Calls ==
  \E c \in Live, options \in Caller :
    \E head \in {e.hash : e \in Elements(EntriesOf(c))} \cup {None} :
      Call(c, [options EXCEPT !.head = head])

Opens ==
  \E from \in Live, given \in OpenActor, exported \in BOOLEAN, key \in OpenKey :
    Open(from, given, exported, key)

Verify == Check \/ Reject \/ EndLoop \/ CheckHead

Next == (\E c \in Live : Log(c)) \/ Mutate \/ Opens \/ Calls \/ Verify

Spec == Init /\ [][Next]_vars

(* verify_chain never waits: a call that was made goes on.  Nothing makes a *)
(* caller log, open or verify.                                              *)
FairSpec == Spec /\ WF_vars(Verify)

-----------------------------------------------------------------------------
Done == pc = "done"

TypeOK ==
  /\ \A l \in Chains : \A n \in DOMAIN lists[l] : lists[l][n] \in DOMAIN heap
  /\ \A c \in Live : chain[c].list \in Chains
  /\ pc \in {"idle", "loop", "reject", "head", "done"}
  /\ pc # "idle" => target \in Live /\ i \in 0 .. Len(entries)
  /\ pc = "reject" => i < Len(entries)
  /\ Done => /\ verdict.valid \in BOOLEAN
             /\ verdict.length \in Len(called) .. Len(entries)
             /\ verdict.broken_at \in 0 .. Len(entries) - 1 \cup {None}

(* "An append-only, signed audit trail for one actor": what a Chain lists   *)
(* is changed by its own append alone (or when it is opened), never by the  *)
(* append of a Chain opened from it or that it was opened from, though they *)
(* share entries.                                                           *)
ListsStaySeparate ==
  [][\A c, d \in Live : chain' = chain /\ c # d /\ Len(EntriesOf(c))' # Len(EntriesOf(c))
       => Len(EntriesOf(d))' = Len(EntriesOf(d))]_vars

(* Re-opening a log does not lose who it belongs to: in no Chain does an    *)
(* entry without an actor follow one with an actor.                         *)
ActorIsKept ==
  \A c \in Live : \A n \in 1 .. Len(EntriesOf(c)) - 1 :
    EntriesOf(c)[n].actor # None => EntriesOf(c)[n + 1].actor # None

(* A verdict on a chain that grows under the loop is the verdict of module  *)
(* Entries on the chain as it stood at one moment of the call.  Only the    *)
(* length, and the index that says where a head is missing, may count       *)
(* entries that came later and were never looked at.                        *)
VerdictOfAMoment ==
  Done =>
    \E n \in Len(called) .. verdict.length :
      LET moment == verify_chain(SubSeq(entries, 1, n), o)
      IN  /\ verdict.valid = moment.valid /\ verdict.reason = moment.reason
          /\ \/ verdict.broken_at = moment.broken_at
             \/ /\ verdict.reason = "head hash does not match"
                /\ verdict.broken_at = verdict.length - 1

(* Damage that was there when the call was made, through this Chain or one  *)
(* that shares its entries, is reported at its place and for its reason,    *)
(* whatever is logged during the call.                                      *)
DamageIsSeen ==
  Done /\ ~FailsClosed(o) /\ Broken(called, o) # {} =>
    verdict = [verify_chain(called, o) EXCEPT !.length = verdict.length]

(* Logging during the call raises no false alarm: a chain in order when the *)
(* call was made, with no anchor and times left aside, stays accepted as    *)
(* long as its Chain signs with a key the caller trusts.                    *)
NoFalseAlarm ==
  /\ Done /\ verify_chain(called, o).valid /\ o.head = None /\ ~o.monotonic
  /\ o.trusted # None => chain[target].key \in o.trusted
  => verdict.valid

(* A call returns, although the loop follows the list that grows under it,  *)
(* when finitely many entries are logged during it.                         *)
CallReturns == pc = "loop" ~> Done
=============================================================================
