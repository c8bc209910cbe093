------------------------------ MODULE ChainLog ------------------------------
(***************************************************************************)
(* python/witnesskit/chain.py: Chain objects, and the threads that append  *)
(* to them.  Chain.append is not atomic.  It reads len(self.entries), then *)
(* self.head_hash, then builds and signs the entry (where it may raise),   *)
(* and only then pushes it; nothing locks the list in between.  A program  *)
(* may export a Chain to a file, crash, and open the file again; the clock *)
(* may be set back, and a caller may pass a timestamp of its own.          *)
(***************************************************************************)
EXTENDS Entries

CONSTANTS
  Handle,       \* the Chain objects
  KeyOf,        \* Handle -> the key it is opened with, None to read only
  Actor,        \* chain.actor
  Thread,       \* the threads that call append
  Uses,         \* Thread -> the Chain objects it appends to
  MaxLen,       \* bound: entries in a Chain
  MaxTime,      \* bound: the clock
  MaxHeld,      \* bound: different lists of entries over all Chains and restarts
  CallerTime    \* the explicit timestamps callers pass

ASSUME HandleAssumption == /\ KeyOf \in [Handle -> Key \cup {None}]
                           /\ Uses \in [Thread -> SUBSET Handle]
ASSUME BoundAssumption == /\ MaxLen \in Nat /\ MaxTime \in Nat /\ MaxHeld \in Nat
                          /\ CallerTime \subseteq 0..MaxTime

VARIABLES
  entries,      \* Handle -> self.entries
  call,         \* Thread -> the append in progress, None when there is none
  now,          \* the wall clock, in seconds
  exported,     \* the file the last export was written to
  held,         \* history: every list of entries some Chain ever held
  skewed        \* history: the clock was set back or a caller chose a time

vars == <<entries, call, now, exported, held, skewed>>

-----------------------------------------------------------------------------
Init == /\ entries = [h \in Handle |-> <<>>]
        /\ call = [t \in Thread |-> None]
        /\ now = 0
        /\ exported = <<>>
        /\ held = {<<>>}
        /\ skewed = FALSE

InFlight == {t \in Thread : call[t] # None}

(* seq=len(self.entries), the first argument append evaluates. A Chain     *)
(* without a key raises before it.  The bounds are kept here, where a call *)
(* begins, so that they never hold up one that has begun.                  *)
ReadLength(t) ==
  /\ call[t] = None
  /\ Cardinality(held) + Cardinality(InFlight) < MaxHeld
  /\ \E h \in Uses[t], body \in Body, timestamp \in CallerTime \cup {None} :
       /\ KeyOf[h] # None
       /\ Len(entries[h]) + Cardinality({u \in InFlight : call[u].chain = h}) < MaxLen
       /\ call' = [call EXCEPT ![t] =
            [at |-> "head", chain |-> h, body |-> body, timestamp |-> timestamp,
             seq |-> Len(entries[h])]]
  /\ UNCHANGED <<entries, now, exported, held, skewed>>

(* prev_hash=self.head_hash *)
ReadHead(t) ==
  /\ call[t] # None /\ call[t].at = "head"
  /\ call' = [call EXCEPT ![t] =
       [at |-> "build", chain |-> call[t].chain, body |-> call[t].body,
        timestamp |-> call[t].timestamp, seq |-> call[t].seq,
        prev_hash |-> head_hash(entries[call[t].chain])]]
  /\ UNCHANGED <<entries, now, exported, held, skewed>>

(* The timestamp argument without its default. *)
CallerStamp(c) == c.timestamp

(* timestamp or _now_iso() *)
Stamp(c) == IF c.timestamp # None THEN c.timestamp ELSE now

Prepared(c) ==
  [at |-> "push", chain |-> c.chain,
   entry |-> build_entry(c.seq, Stamp(c), Actor, c.body, c.prev_hash, KeyOf[c.chain])]

(* Build that does not validate, and Build that tries a refused payload again. *)
Unchecked(c) == Prepared(c)
Retried(c) == IF c.body \in Appendable THEN Prepared(c) ELSE c

(* What is left of a call: the signed entry, or nothing, if build_entry     *)
(* raises and append with it.                                               *)
Built(c) == IF c.body \in Appendable THEN Prepared(c) ELSE None

Build(t) ==
  /\ call[t] # None /\ call[t].at = "build"
  /\ call' = [call EXCEPT ![t] = Built(call[t])]
  /\ skewed' = (skewed \/ call[t].timestamp # None)
  /\ UNCHANGED <<entries, now, exported, held>>

(* self.entries.append(entry); return entry *)
Push(t) ==
  /\ call[t] # None /\ call[t].at = "push"
  /\ LET h == call[t].chain
         longer == Append(entries[h], call[t].entry)
     IN  /\ entries' = [entries EXCEPT ![h] = longer]
         /\ held' = held \cup {longer}
  /\ call' = [call EXCEPT ![t] = None]
  /\ UNCHANGED <<now, exported, skewed>>

(* json.dump(chain.to_json(), f) *)
Export(h) ==
  /\ exported' = entries[h]
  /\ UNCHANGED <<entries, call, now, held, skewed>>

(* The appends on h still there after its process ended, and gone.          *)
AllCalls(h) == call
OtherCalls(h) ==
  [t \in Thread |-> IF call[t] # None /\ call[t].chain = h THEN None ELSE call[t]]

(* The process that ran h ends, losing the appends in flight, and          *)
(* Chain.open reads the export back: with one entry list per Chain object, *)
(* a second Chain opened on the same export is a fork of the first.        *)
Open(h) ==
  /\ entries' = [entries EXCEPT ![h] = exported]
  /\ call' = OtherCalls(h)
  /\ UNCHANGED <<now, exported, held, skewed>>

Tick ==
  /\ now < MaxTime
  /\ now' = now + 1
  /\ UNCHANGED <<entries, call, exported, held, skewed>>

StepBack ==
  /\ now > 0
  /\ now' = now - 1
  /\ skewed' = TRUE
  /\ UNCHANGED <<entries, call, exported, held>>

Next ==
  \/ \E t \in Thread : ReadLength(t) \/ ReadHead(t) \/ Build(t) \/ Push(t)
  \/ \E h \in Handle : Export(h) \/ Open(h)
  \/ Tick
  \/ StepBack

Spec == Init /\ [][Next]_vars

(* A thread inside append keeps running; nobody has to call it.             *)
Fairness ==
  \A t \in Thread : WF_vars(ReadHead(t) \/ Build(t) \/ Push(t))

FairSpec == Spec /\ Fairness

-----------------------------------------------------------------------------
(* Types                                                                    *)

IsEntry(e) ==
  /\ e.seq \in Nat /\ e.timestamp \in 0..MaxTime
  /\ e.body \in Appendable /\ e.signature.public_key \in Key

IsCall(c) ==
  /\ c.chain \in Handle
  /\ c.at \in {"head", "build", "push"}
  /\ c.at = "push" => IsEntry(c.entry)
  /\ c.at # "push" => /\ c.seq \in Nat /\ c.body \in Body
                     /\ c.timestamp \in CallerTime \cup {None}

(* The values the variables range over. *)
TypeOK ==
  /\ DOMAIN entries = Handle
  /\ \A h \in Handle : \A i \in DOMAIN entries[h] : IsEntry(entries[h][i])
  /\ DOMAIN call = Thread
  /\ \A t \in Thread : call[t] # None => IsCall(call[t]) /\ call[t].chain \in Uses[t]
  /\ now \in 0..MaxTime
  /\ skewed \in BOOLEAN
  /\ exported \in held
  /\ \A h \in Handle : entries[h] \in held

-----------------------------------------------------------------------------
(* With one writer per Chain                                                *)

OneWriter == \A t, u \in Thread : t # u => Uses[t] \cap Uses[u] = {}

Writers == {KeyOf[h] : h \in Handle} \ {None}

(* The auditor pins every key the program signs with. *)
Auditor(monotonic, head) == Options(Writers, FALSE, monotonic, head)

(* Whatever appends, refused payloads, crashes and re-opened exports came   *)
(* before, verify_chain accepts what a Chain holds (Chain.append and        *)
(* Chain.open against verify_chain's checks, time order left aside).        *)
ChainsVerify ==
  \A h \in Handle : verify_chain(entries[h], Auditor(FALSE, None)).valid

(* An anchored head accepts exactly the history it was taken of: passed as  *)
(* expected_head, the head hash of a list some Chain held is satisfied by a *)
(* Chain if and only if it says what that list says; a fork, a roll-back    *)
(* and a longer chain are all refused.                                      *)
AnchorIsExact ==
  \A h \in Handle : \A s \in held \ {<<>>} :
    verify_chain(entries[h], Auditor(FALSE, head_hash(s))).valid
      <=> Content(entries[h]) = Content(s)

InTimeOrder(s) == \A i, j \in DOMAIN s : i < j => s[i].timestamp =< s[j].timestamp

(* require_monotonic_time, which looks at neighbours only, rejects a Chain  *)
(* exactly when some earlier entry is dated after some later one.           *)
TimeVerdict ==
  \A h \in Handle :
    verify_chain(entries[h], Auditor(TRUE, None)).valid <=> InTimeOrder(entries[h])

(* As long as no clock was set back and no caller dated an entry itself,    *)
(* the default verdict is valid: _now_iso alone never breaks a Chain, over  *)
(* restarts and forks.                                                      *)
HonestClockVerifies ==
  ~skewed => \A h \in Handle : verify_chain(entries[h], Auditor(TRUE, None)).valid

Abstract == INSTANCE Trails WITH trails <- entries, Time <- 0..MaxTime

(* The four steps of append, with crashes between them, implement the one   *)
(* step of an append-only trail.                                            *)
ImplementsTrails == Abstract!Spec

(* Every append comes to an end, whatever the others do, returned, refused  *)
(* or lost in a crash: nobody waits for anybody (there is no lock, and a    *)
(* payload that is refused is not tried again).                             *)
AppendsEnd == \A t \in Thread : call[t] # None ~> call[t] = None

-----------------------------------------------------------------------------
(* With several writers on one Chain                                        *)

(* What a lost race leaves behind: an entry may repeat an index but never   *)
(* skips one, and links to an entry that stands between its own index and   *)
(* its position (append reads the length before the head, the head before   *)
(* the push).                                                               *)
RaceShape ==
  \A h \in Handle : LET s == entries[h] IN
    \A i \in DOMAIN s :
      \E j \in s[i].seq .. i - 1 :
        s[i].prev_hash = head_hash(SubSeq(s, 1, j))

(* verify_chain sees every race: it accepts a Chain that several threads    *)
(* wrote exactly when each entry got the index of its position, and blames  *)
(* the first entry that was overtaken, always for its sequence number.      *)
RaceIsLocated ==
  \A h \in Handle :
    LET s       == entries[h]
        late    == {i \in DOMAIN s : s[i].seq # i - 1}
        verdict == verify_chain(s, Auditor(FALSE, None))
    IN  /\ verdict.valid <=> late = {}
        /\ ~verdict.valid => /\ verdict.reason = "seq mismatch"
                            /\ verdict.broken_at + 1 \in late
                            /\ \A i \in late : verdict.broken_at + 1 =< i

(* Later appends never repair or move the damage: the verdict on a broken   *)
(* list is the verdict on every list that extends it, index and reason      *)
(* included (verify_chain stops at the first failing entry).                *)
DamageStays ==
  \A h \in Handle : \A n \in DOMAIN entries[h] :
    LET verdict(list) == verify_chain(list, Auditor(TRUE, None))
        start         == SubSeq(entries[h], 1, n)
    IN  ~verdict(start).valid =>
          verdict(entries[h]) = [verdict(start) EXCEPT !.length = Len(entries[h])]
=============================================================================
