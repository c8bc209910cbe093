----------------------------- MODULE VerifyPorts -----------------------------
(***************************************************************************)
(* typescript/src/verify.ts beside python/witnesskit/verify.py, on packs   *)
(* edited as in module Evidence and with keys deleted besides.  The ports  *)
(* read JSON differently: a key that is not there is None in Python        *)
(* (dict.get) and undefined in JavaScript, where canonical JSON keeps a    *)
(* null and drops an undefined; true is 1 in Python and nothing but true   *)
(* in JavaScript; Buffer.from takes base64 that b64decode refuses, and the *)
(* other way round; an integer past 2^53 is a float in JavaScript.         *)
(***************************************************************************)
EXTENDS Evidence

CONSTANTS
  Absent,       \* the value of a key that is not there
  JSCanonical,  \* the bodies canonicalize.ts has an encoding for
  JSForm        \* the body it encodes them as: a number read as a float

ASSUME AbsentAssumption == Absent # None
ASSUME FormAssumption == JSCanonical \subseteq Body /\ JSForm \in [JSCanonical -> Body]

(* The keys an editor may delete; action and payload, which stand as one    *)
(* here, are left alone, and a signature deleted is a signature null.       *)
Keys == {"version", "seq", "timestamp", "actor", "prev_hash", "hash"}

Strip ==
  \E i \in DOMAIN pack, key \in Keys :
    pack[i] # None /\ Put(i, [pack[i] EXCEPT ![key] = Absent])

PortsNext == EvidenceNext \/ Strip

PortsSpec == EvidenceInit /\ [][PortsNext]_evars

-----------------------------------------------------------------------------
(* e.get(key) for every key. *)
Get(e) ==
  IF e = None THEN None
  ELSE [key \in DOMAIN e |-> IF e[key] = Absent THEN None ELSE e[key]]

PythonVerdict(o) == verify_chain([i \in DOMAIN pack |-> Get(pack[i])], o)

(* x ?? null, and x != null. *)
OrNull(x) == IF x = Absent THEN None ELSE x
IsGiven(x) == OrNull(x) # None

(* Buffer.from takes the URL-safe alphabet, text without padding and lists  *)
(* of bytes, stops at the first "=", and throws only at what is neither.    *)
Throws(text) == text.writing \in {"number", "object"}
Buffer(text) ==
  IF text.writing \in {"empty", "null", "cut", "early ="} THEN Junk ELSE text.bytes

(* What canonicalize writes for the content; the link defaulted to null.    *)
entryHash(e) ==
  entry_hash(e.seq, e.timestamp, e.actor, JSForm[e.body], OrNull(e.prev_hash))

(* The link compared without its default, and not compared at all. *)
StrictLink(e, prevHash) == e.prev_hash = prevHash
AnyLink(e, prevHash) == TRUE

LinksTo(e, prevHash) == OrNull(e.prev_hash) = prevHash

(* Times that must grow. *)
NotLater(e, prevTs) ==
  IsGiven(prevTs) /\ IsGiven(e.timestamp) /\ index(e.timestamp) =< index(prevTs)

(* A number beside a text compares as NaN: neither is earlier. *)
Earlier(e, prevTs) ==
  /\ IsGiven(prevTs) /\ IsGiven(e.timestamp)
  /\ e.timestamp \in Nat <=> prevTs \in Nat
  /\ index(e.timestamp) < index(prevTs)

(* What the loop says of entry e at index i after the entry before. *)
Fault(e, i, before, o) ==
  LET prevHash == IF before = None THEN None ELSE before.hash
      prevTs   == IF before = None THEN None ELSE before.timestamp
      text     == e.signature.value
      key      == KeyText(e.signature.public_key)
  IN  IF e = None THEN "entry is not an object"
      ELSE IF e.version # VERSION THEN "unexpected entry version"
      ELSE IF e.seq # i THEN "seq mismatch"
      ELSE IF ~LinksTo(e, prevHash) THEN "broken chain link"
      ELSE IF e.body \notin JSCanonical THEN "malformed entry"
      ELSE IF entryHash(e) # e.hash THEN "content tampered"
      ELSE IF e.signature = None THEN "missing or unsupported signature"
      ELSE IF o.trusted # None /\ e.signature.public_key \notin o.trusted
           THEN "signer is not trusted"
      ELSE IF Throws(text) \/ Throws(key) THEN "malformed entry"
      ELSE IF ~verify(Buffer(text), e.hash, Buffer(key)) THEN "invalid signature"
      ELSE IF o.monotonic /\ Earlier(e, prevTs) THEN "timestamp goes backwards"
      ELSE "none"

(* The loop returns at the first fault. *)
verifyChain(entries, o) ==
  LET n        == Len(entries)
      Verdict(i) == Fault(entries[i], i - 1, IF i = 1 THEN None ELSE entries[i - 1], o)
      Stops(i) == /\ Verdict(i) # "none"
                  /\ \A j \in 1 .. i - 1 : Verdict(j) = "none"
  IN  IF o.trusted = None /\ ~o.unverified
      THEN _result(FALSE, n, None, "no trusted issuer keys supplied")
      ELSE IF n = 0
      THEN _result(o.head = None, 0, None,
                   IF o.head = None THEN "empty chain" ELSE "chain is empty")
      ELSE IF \E i \in 1 .. n : Stops(i)
      THEN LET i == CHOOSE j \in 1 .. n : Stops(j)
           IN  _result(FALSE, n, i - 1, Verdict(i))
      ELSE IF o.head # None /\ entries[n].hash # o.head
      THEN _result(FALSE, n, n - 1, "head hash does not match")
      ELSE _result(TRUE, n, None, "chain intact")

-----------------------------------------------------------------------------
(* Pinned keys, with and without the order of times or an anchored head.    *)
Pinned ==
  {Auditor(TRUE, None), Auditor(FALSE, None)}
  \cup {Auditor(FALSE, head_hash(s)) : s \in held}

(* Any signer, and nothing said about signers at all.                       *)
Unpinned == {Options(None, TRUE, TRUE, None), Options(None, FALSE, TRUE, None)}

(* Both ports raise or neither does, and both see the same bytes.           *)
TextAlike(text) ==
  (Undecodable(text) <=> Throws(text)) /\ unb64(text) = Buffer(text)

BodyAlike(body) ==
  /\ body \in Canonical <=> body \in JSCanonical
  /\ body \in JSCanonical => JSForm[body] = body

(* Nothing in the entry that the ports read in different ways. *)
ReadAlike(e) ==
  e # None =>
    /\ BodyAlike(e.body)
    /\ e.actor # Absent /\ e.timestamp \in Nat \cup {None}
    /\ e.seq \notin {True, False}
    /\ e.signature # None =>
         /\ TextAlike(e.signature.value)
         /\ TextAlike(KeyText(e.signature.public_key))
         /\ ~Unhashable(e.signature.public_key)

(* For every caller the verdicts are the same, down to the index and the    *)
(* reason, unless the ports read some entry in different ways, at or before *)
(* whatever index a verdict blames.                                         *)
SameVerdict ==
  \A o \in Pinned \cup Unpinned :
    LET py == PythonVerdict(o)
        ts == verifyChain(pack, o)
    IN  py = ts \/ \E i \in DOMAIN pack :
          /\ ~ReadAlike(pack[i])
          /\ \A v \in {py, ts} : v.broken_at # None => i - 1 =< v.broken_at

(* One port sees the signature's bytes exactly if the other does. *)
SameBytes(text) ==
  (~Undecodable(text) /\ unb64(text) = text.bytes)
    <=> (~Throws(text) /\ Buffer(text) = text.bytes)

(* Under pinned keys the ports accept the same packs, whatever keys were    *)
(* deleted and whatever number or text became true, as long as they read    *)
(* the bodies and the signatures' bytes alike.                              *)
SameAcceptance ==
  (\A i \in DOMAIN pack : pack[i] # None =>
     /\ BodyAlike(pack[i].body)
     /\ pack[i].signature # None => SameBytes(pack[i].signature.value))
  => \A o \in Pinned : PythonVerdict(o).valid = verifyChain(pack, o).valid

(* A pack that verifyChain accepts under pinned keys says, as it reads it,  *)
(* what some Chain once held, whatever it takes for base64 and for a link.  *)
Seen(e) == <<e.seq, e.timestamp, e.actor, JSForm[e.body], OrNull(e.prev_hash), e.hash>>

AcceptedBesideWasHeld ==
  \A o \in Pinned :
    verifyChain(pack, o).valid =>
      \E s \in held : [i \in DOMAIN pack |-> Seen(pack[i])] = Content(s)

(* verify.ts:2 "Same checks and security model as Python": under pinned     *)
(* keys the ports accept the same packs of entries whose bodies they read   *)
(* alike.  The code disagrees: a signature's text in the URL-safe alphabet  *)
(* is taken by one port and refused by the other.                           *)
SameSecurity ==
  (\A i \in DOMAIN pack : pack[i] # None => BodyAlike(pack[i].body))
  => \A o \in Pinned : PythonVerdict(o).valid = verifyChain(pack, o).valid
=============================================================================
