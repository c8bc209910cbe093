------------------------------ MODULE Canonical ------------------------------
(***************************************************************************)
(* The canonical form of a payload, in the three installations that sign   *)
(* and check entries: Python with the rfc8785 library, Python without it   *)
(* (python/witnesskit/canonical.py falls back on json.dumps), and          *)
(* TypeScript (typescript/src/canonical.ts).  One installation logs a      *)
(* payload, and the evidence pack then goes from one to another as JSON    *)
(* text, each of which reads it into its own types and writes it again.    *)
(*                                                                         *)
(* A payload is some lists, one in the other, around a scalar, or around   *)
(* an object that has the scalar under some keys.  Numbers are counted in  *)
(* halves, so that there are fractions.  Text is well-formed Unicode.      *)
(***************************************************************************)
EXTENDS Integers, Sequences, FiniteSets, SequencesExt

CONSTANTS
  None,       \* no object: the payload ends in a scalar
  Raise,      \* an exception
  NaN,        \* a number that is not finite
  Halves,     \* the finite numbers tried, in halves
  CodePoint,  \* keys: strings of one character, by its code point
  MaxSafe,    \* 2^53 - 1
  Exponent,   \* 10^21: ECMAScript writes whole numbers from here on with "e"
  MaxDepth,   \* _MAX_PAYLOAD_DEPTH
  MaxHops     \* bound: installations a pack is sent to

ASSUME NumberAssumption ==
  Halves \subseteq Int /\ MaxSafe \in Nat /\ Exponent \in Nat /\ MaxSafe < Exponent
ASSUME KeyAssumption == CodePoint \subseteq 0 .. 1114111
ASSUME DepthAssumption == MaxDepth \in Nat /\ MaxHops \in Nat

VARIABLES
  logger,     \* the installation that logged the entry, None before
  signed,     \* the canonical form its hash was taken over
  holder,     \* the installation that has the pack
  payload,    \* the payload of the entry there
  hops        \* how often it was sent

vars == <<logger, signed, holder, payload, hops>>

-----------------------------------------------------------------------------
(* Values                                                                   *)

Python == {"rfc8785", "fallback"}
Installation == Python \cup {"typescript"}

ASSUME NoneAssumption == None \notin Installation

(* The types of numbers of an installation. *)
NumberTypes(at) == IF at \in Python THEN {"int", "float"} ELSE {"number"}

Whole(value) == value # NaN /\ value % 2 = 0
Safe(value) == value \in -2 * MaxSafe .. 2 * MaxSafe
Unsafe(value) == Whole(value) /\ ~Safe(value)

(* Text, null and booleans are "plain"; "other" has no JSON form.           *)
Scalar(at) ==
  {[type |-> "plain", value |-> 0], [type |-> "other", value |-> 0]}
  \cup {s \in [type : NumberTypes(at), value : Halves \cup {NaN}] :
          s.type = "int" => Whole(s.value)}

(* Payloads deeper than the limit by one are enough to be refused.          *)
Payload(at) ==
  [lists : 0 .. MaxDepth + 1, keys : (SUBSET CodePoint) \cup {None}, scalar : Scalar(at)]

(* The depth of the deepest part. *)
Depth(p) == p.lists + IF p.keys \in {None, {}} THEN 0 ELSE 1

(* An empty object has no scalar in it. *)
Scalars(p) == IF p.keys = {} THEN {} ELSE {p.scalar}

-----------------------------------------------------------------------------
(* Writing and reading JSON                                                 *)

(* How a number is written: with a point or an exponent, or as digits only. *)
literal(at, s) ==
  [value |-> s.value,
   digits |-> IF at \in Python THEN s.type = "int"
              ELSE Whole(s.value) /\ s.value \in -2 * Exponent + 1 .. 2 * Exponent - 1]

(* Reading back: Python takes digits for an int and all else for a float.   *)
loads(at, text) ==
  [type  |-> IF at \notin Python THEN "number" ELSE IF text.digits THEN "int" ELSE "float",
   value |-> text.value]

Sent(from, to, s) ==
  IF s.type \in NumberTypes(from) THEN loads(to, literal(from, s)) ELSE s

-----------------------------------------------------------------------------
(* Canonical forms                                                          *)

(* Keys in order of code points, which is how Python compares strings, and  *)
(* of UTF-16 code units, which is how RFC 8785 and ECMAScript do.           *)
ByCodePoint(j, k) == j < k

Units(point) ==
  IF point < 65536 THEN <<point>>
  ELSE <<55296 + (point - 65536) \div 1024, 56320 + ((point - 65536) % 1024)>>

ByUnit(j, k) ==
  \/ Units(j)[1] < Units(k)[1]
  \/ Units(j)[1] = Units(k)[1] /\ Len(Units(j)) = 2 /\ Units(j)[2] < Units(k)[2]

(* The members of an object, in either order. *)
PointOrder(keys) == IF keys = None THEN None ELSE SetToSortSeq(keys, ByCodePoint)
UnitOrder(keys) == IF keys = None THEN None ELSE SetToSortSeq(keys, ByUnit)

(* The form with the members in order and numbers written as in one         *)
(* installation.                                                            *)
Written(p, members, at) ==
  [lists |-> p.lists, members |-> members,
   scalars |-> {IF s.type = "plain" THEN s ELSE literal(at, s) : s \in Scalars(p)}]

(* RFC 8785, by the rfc8785 library, which refuses ints no ECMAScript       *)
(* number can hold, and by the canonicalize package.                        *)
rfc8785_dumps(p) ==
  IF \E s \in Scalars(p) : \/ s.type = "other" \/ s.value = NaN
                           \/ s.type = "int" /\ Unsafe(s.value)
  THEN Raise ELSE Written(p, UnitOrder(p.keys), "typescript")

jcs(p) ==
  IF \E s \in Scalars(p) : s.type = "other" \/ s.value = NaN
  THEN Raise ELSE Written(p, UnitOrder(p.keys), "typescript")

(* A fallback that lets floats through, and the one that fails closed: no   *)
(* floats, no unsafe ints; json.dumps itself refuses unknown types.         *)
LetsFloatsThrough(s) == s.type = "int" /\ Unsafe(s.value)
_reject_divergent(s) == s.type = "float" \/ (s.type = "int" /\ Unsafe(s.value))

fallback_dumps(p) ==
  IF \E s \in Scalars(p) : _reject_divergent(s) \/ s.type = "other" \/ s.value = NaN
  THEN Raise ELSE Written(p, PointOrder(p.keys), "fallback")

canonicalize(at, p) ==
  CASE at = "rfc8785"    -> rfc8785_dumps(p)
    [] at = "fallback"   -> fallback_dumps(p)
    [] at = "typescript" -> jcs(p)

-----------------------------------------------------------------------------
(* Logging and sending                                                      *)

(* Whether a payload nests too deep, and off by one. *)
DeeperStill(p) == Depth(p) > MaxDepth + 1
TooDeep(p) == Depth(p) > MaxDepth

(* Python looks at ints only: a float may be as large as it likes, or no    *)
(* number at all.                                                           *)
_validate_payload(p) ==
  /\ ~TooDeep(p)
  /\ \A s \in Scalars(p) : s.type # "other" /\ ~(s.type = "int" /\ Unsafe(s.value))

(* The port without, and with, its test of the range. *)
FiniteOnly(p) ==
  ~TooDeep(p) /\ \A s \in Scalars(p) : s.type # "other" /\ s.value # NaN

validatePayload(p) ==
  /\ ~TooDeep(p)
  /\ \A s \in Scalars(p) : s.type # "other" /\ s.value # NaN /\ ~Unsafe(s.value)

Validated(at, p) == IF at \in Python THEN _validate_payload(p) ELSE validatePayload(p)

Init == logger = None /\ signed = None /\ holder = None /\ payload = None /\ hops = 0

(* build_entry: nothing is logged of a payload that is refused, or that has *)
(* no canonical form.                                                       *)
Log(at, p) ==
  /\ logger = None
  /\ Validated(at, p) /\ canonicalize(at, p) # Raise
  /\ logger' = at /\ holder' = at /\ payload' = p
  /\ signed' = canonicalize(at, p)
  /\ UNCHANGED hops

(* The pack is written out and read in another installation. *)
Send(to) ==
  /\ logger # None /\ hops < MaxHops
  /\ holder' = to
  /\ payload' = [payload EXCEPT !.scalar = Sent(holder, to, @)]
  /\ hops' = hops + 1
  /\ UNCHANGED <<logger, signed>>

Next ==
  \/ \E at \in Installation : \E p \in Payload(at) : Log(at, p)
  \/ \E to \in Installation : Send(to)

Spec == Init /\ [][Next]_vars

-----------------------------------------------------------------------------
(* Properties                                                               *)

(* What verify_chain says of the content, here or after one more trip.      *)
Verdict(at, p) ==
  CASE canonicalize(at, p) = Raise  -> "malformed entry"
    [] canonicalize(at, p) = signed -> "intact"
    [] OTHER                        -> "content tampered"

(* What is held is of the holder's types, within the depth that was meant,  *)
(* and a finite number.                                                     *)
TypeOK ==
  /\ logger \in Installation \cup {None} /\ holder \in Installation \cup {None}
  /\ hops \in 0 .. MaxHops
  /\ logger # None =>
       /\ payload \in Payload(holder) /\ Depth(payload) =< MaxDepth
       /\ \A s \in Scalars(payload) : s.type # "other" /\ s.value # NaN

(* Whether the two orders of the keys differ. *)
OrdersDiffer == UnitOrder(payload.keys) # PointOrder(payload.keys)

(* "byte-identical output", "FAILS CLOSED": no installation takes an entry  *)
(* nobody touched for a tampered one, wherever it was logged and however    *)
(* often it was re-exported; it may refuse it.  Objects whose keys the      *)
(* fallback orders otherwise are the exception.                             *)
NoFalseTamper ==
  logger # None =>
    (Verdict(holder, payload) = "content tampered" =>
       OrdersDiffer /\ {logger, holder} \cap {"fallback"} # {} /\ logger # holder)

(* An entry stays verifiable on its way: with rfc8785 or in TypeScript it   *)
(* is intact wherever it was logged, but for a float that is whole and out  *)
(* of the safe range: Python logs it, and TypeScript writes it as digits,   *)
(* which Python reads as an int and refuses.                                *)
StaysVerifiable ==
  logger # None /\ holder # "fallback" /\ (logger = "fallback" => ~OrdersDiffer) =>
    \/ Verdict(holder, payload) = "intact"
    \/ /\ logger = "rfc8785"
       /\ payload.scalar.type = "int" /\ Unsafe(payload.scalar.value)

(* "For accepted inputs ... the fallback is byte-identical to JCS".         *)
FallbackIsJCS ==
  holder \in Python /\ canonicalize("fallback", payload) # Raise =>
    canonicalize("fallback", payload) = canonicalize("rfc8785", payload)
=============================================================================
