------------------------------ MODULE Entries ------------------------------
(***************************************************************************)
(* The log entry of witnesskit and the verdict on a list of them: the      *)
(* operators of python/witnesskit/chain.py (entry_hash, build_entry) and   *)
(* verify.py (verify_chain) that the state machines are built from.        *)
(*                                                                         *)
(* SHA-256 and Ed25519 are modelled as free terms: a digest is the record  *)
(* it was computed from, a signature is the pair of what was signed and    *)
(* the key that signed it.  So two digests are equal exactly when their    *)
(* inputs are, and a signature verifies exactly for its digest and its key.*)
(* A public key stands for the seed it is derived from, and for the base64 *)
(* text it is pinned as.                                                   *)
(***************************************************************************)
EXTENDS Integers, Sequences, FiniteSets

CONSTANTS
  None,       \* Python's None, JavaScript's null: "no value"
  True, False, \* JSON's booleans, which are numbers in Python: True == 1
  Key,        \* signing keys
  Body,       \* what an entry records: its action and its payload
  Loggable,   \* the bodies _validate_payload lets through
  Canonical   \* the bodies canonicalize has an encoding for

ASSUME BodyAssumption == Loggable \subseteq Body /\ Canonical \subseteq Body
ASSUME KeyAssumption == None \notin Key
ASSUME BooleanAssumption ==
  True # False /\ {True, False} \cap (Nat \cup {None}) = {}

VERSION == "witnesskit/v0"

-----------------------------------------------------------------------------
(* Hashing and signing                                                      *)

(* A hash that forgets the chain link. *)
UnlinkedHash(seq, timestamp, actor, body, prev_hash) ==
  [version |-> VERSION, seq |-> seq, timestamp |-> timestamp,
   actor |-> actor, body |-> body]

(* The digest covers the pinned version, the content and the chain link. *)
entry_hash(seq, timestamp, actor, body, prev_hash) ==
  [version |-> VERSION, seq |-> seq, timestamp |-> timestamp,
   actor |-> actor, body |-> body, prev_hash |-> prev_hash]

sign(hash, key) == [signed |-> hash, by |-> key]

verify(value, hash, public_key) == value = sign(hash, public_key)

(* A base64 text is the bytes it stands for and how it writes them: as      *)
(* b64encode does, or edited into another JSON value.                       *)
b64(bytes) == [writing |-> "standard", bytes |-> bytes]

(* A character of the URL-safe alphabet or a lost "=" leaves b64decode with *)
(* bad padding, a lost character too; what is no text has no decoding.      *)
Undecodable(text) ==
  text.writing \in {"url-safe", "cut", "null", "list", "number", "object"}

(* Bytes that are nobody's key, and nobody's signature of anything. *)
Junk == sign(None, None)

(* Four characters left out decode to fewer bytes, white space and an early *)
(* "=" are passed over.                                                     *)
unb64(text) ==
  IF text.writing \in {"url-safe twice", "empty"} THEN Junk ELSE text.bytes

(* A member of Key stands for its standard text. *)
KeyText(public_key) == IF public_key \in Key THEN b64(public_key) ELSE public_key

(* Lists and objects cannot be looked for in a set. *)
Unhashable(public_key) == KeyText(public_key).writing \in {"list", "object"}

build_entry(seq, timestamp, actor, body, prev_hash, key) ==
  LET hash == entry_hash(seq, timestamp, actor, body, prev_hash)
  IN  [version   |-> VERSION,
       seq       |-> seq,
       timestamp |-> timestamp,
       actor     |-> actor,
       body      |-> body,
       prev_hash |-> prev_hash,
       hash      |-> hash,
       signature |-> [public_key |-> key, value |-> b64(sign(hash, key))],
       extra     |-> None]     \* any key the code never reads: absent

(* build_entry raises on a payload it refuses to log, or cannot hash. *)
Appendable == Loggable \cap Canonical

-----------------------------------------------------------------------------
(* Lists of entries                                                         *)

Elements(entries) == {entries[i] : i \in DOMAIN entries}

IsList(entries) == entries \in Seq(Elements(entries))

(* The hash of the wrong end. *)
FirstHash(entries) == IF entries = <<>> THEN None ELSE entries[1].hash

head_hash(entries) ==
  IF entries = <<>> THEN None ELSE entries[Len(entries)].hash

(* An element of the list that is not a JSON object stands as None. *)
IsObject(e) == e # None

(* What verify_chain remembers of the entry before position i (1-based):   *)
(* nothing before the first.                                               *)
Before(entries, i) ==
  IF i = 1 \/ ~IsObject(entries[i - 1])
  THEN [hash |-> None, timestamp |-> None]
  ELSE [hash |-> entries[i - 1].hash, timestamp |-> entries[i - 1].timestamp]

(* Every content field and the link of e are what its hash was taken over. *)
Recomputed(e) ==
  entry_hash(e.seq, e.timestamp, e.actor, e.body, e.prev_hash)

(* What a list of entries says, whoever signed it: everything the hashes    *)
(* cover.                                                                   *)
Said(e) == <<e.seq, e.timestamp, e.actor, e.body, e.prev_hash, e.hash>>
Content(entries) == [i \in DOMAIN entries |-> Said(entries[i])]

(* An entry as build_entry makes it, for one of the given keys.              *)
IsBuilt(e, keys) ==
  /\ e = build_entry(e.seq, e.timestamp, e.actor, e.body, e.prev_hash,
                     e.signature.public_key)
  /\ e.signature.public_key \in keys

(* A number as Python compares it. *)
index(x) == CASE x = True -> 1 [] x = False -> 0 [] OTHER -> x

(* A list whose entries stand at their own index, linked, with the hashes   *)
(* of what they say.                                                        *)
Linked(entries) ==
  \A i \in DOMAIN entries :
    /\ entries[i].seq = i - 1
    /\ entries[i].prev_hash = IF i = 1 THEN None ELSE entries[i - 1].hash
    /\ entries[i].hash = Recomputed(entries[i])

-----------------------------------------------------------------------------
(* Verification                                                             *)
(* Options: trusted_keys as a set of keys or None, allow_unverified_issuer, *)
(* require_monotonic_time, expected_head as a hash or None.                 *)

Options(trusted, unverified, monotonic, head) ==
  [trusted |-> trusted, unverified |-> unverified,
   monotonic |-> monotonic, head |-> head]

_result(valid, length, broken_at, reason) ==
  [valid |-> valid, length |-> length, broken_at |-> broken_at, reason |-> reason]

(* Times are texts, which stand as numbers in their order; a boolean stands *)
(* for every JSON number.  Texts and numbers cannot be compared.            *)
BothGiven(e, prev) == prev.timestamp # None /\ e.timestamp # None
Incomparable(e, prev) ==
  BothGiven(e, prev) /\ ~(e.timestamp \in Nat <=> prev.timestamp \in Nat)

(* Two ways to get the comparison of times wrong. *)
NotAfter(e, prev) ==
  BothGiven(e, prev) /\ index(e.timestamp) =< index(prev.timestamp)
NeverBackwards(e, prev) == FALSE

GoesBackwards(e, prev) ==
  BothGiven(e, prev) /\ index(e.timestamp) < index(prev.timestamp)

(* The checks of content and signature, which do not depend on the position. *)
OwnDefect(e, prev, o) ==
  IF e.body \notin Canonical THEN "malformed entry"
  ELSE IF Recomputed(e) # e.hash THEN "content tampered"
  ELSE IF e.signature = None THEN "missing or unsupported signature"
  ELSE IF o.trusted # None /\ Unhashable(e.signature.public_key)
       THEN "malformed entry"
  ELSE IF o.trusted # None /\ e.signature.public_key \notin o.trusted
       THEN "signer is not trusted"
  ELSE IF Undecodable(e.signature.value) \/ Undecodable(KeyText(e.signature.public_key))
       THEN "malformed entry"
  ELSE IF ~verify(unb64(e.signature.value), e.hash, unb64(KeyText(e.signature.public_key)))
       THEN "invalid signature"
  ELSE IF o.monotonic /\ Incomparable(e, prev) THEN "malformed entry"
  ELSE IF o.monotonic /\ GoesBackwards(e, prev) THEN "timestamp goes backwards"
  ELSE "none"

(* The checks with the link compared before the sequence number. *)
LinkFirstDefect(e, i, prev, o) ==
  IF ~IsObject(e) THEN "entry is not an object"
  ELSE IF e.version # VERSION THEN "unexpected entry version"
  ELSE IF e.prev_hash # prev.hash THEN "broken chain link"
  ELSE IF index(e.seq) # i THEN "seq mismatch"
  ELSE OwnDefect(e, prev, o)

(* The checks without the comparison of links. *)
UnlinkedDefect(e, i, prev, o) ==
  IF ~IsObject(e) THEN "entry is not an object"
  ELSE IF e.version # VERSION THEN "unexpected entry version"
  ELSE IF index(e.seq) # i THEN "seq mismatch"
  ELSE OwnDefect(e, prev, o)

(* The checks on the entry e at index i (0-based), in the code's order,    *)
(* after an entry of which prev was remembered: the first that fails names *)
(* the reason.                                                             *)
Defect(e, i, prev, o) ==
  IF ~IsObject(e) THEN "entry is not an object"
  ELSE IF e.version # VERSION THEN "unexpected entry version"
  ELSE IF index(e.seq) # i THEN "seq mismatch"
  ELSE IF e.prev_hash # prev.hash THEN "broken chain link"
  ELSE OwnDefect(e, prev, o)

FailsClosed(o) == o.trusted = None /\ ~o.unverified

(* Positions (1-based) whose own check fails, given what precedes them. *)
Broken(entries, o) ==
  {i \in DOMAIN entries : Defect(entries[i], i - 1, Before(entries, i), o) # "none"}

(* The position verification stops at, and what it would be if the last     *)
(* failure were reported instead of the first.                             *)
LastBroken(entries, o) ==
  CHOOSE i \in Broken(entries, o) : \A j \in Broken(entries, o) : j =< i

FirstBroken(entries, o) ==
  CHOOSE i \in Broken(entries, o) : \A j \in Broken(entries, o) : i =< j

(* expected_head looked for anywhere in the list. *)
HeadMissing(entries, o) ==
  o.head # None /\ \A i \in DOMAIN entries : entries[i].hash # o.head

HeadMismatch(entries, o) == o.head # None /\ head_hash(entries) # o.head

verify_chain(entries, o) ==
  LET n     == Len(entries)
      first == FirstBroken(entries, o)
  IN  IF FailsClosed(o)
      THEN _result(FALSE, n, None, "no trusted issuer keys supplied")
      ELSE IF entries = <<>>
      THEN IF o.head # None THEN _result(FALSE, 0, None, "chain is empty")
                            ELSE _result(TRUE, 0, None, "empty chain")
      ELSE IF Broken(entries, o) # {}
      THEN _result(FALSE, n, first - 1,
                   Defect(entries[first], first - 1, Before(entries, first), o))
      ELSE IF HeadMismatch(entries, o)
      THEN _result(FALSE, n, n - 1, "head hash does not match")
      ELSE _result(TRUE, n, None, "chain intact")
=============================================================================
