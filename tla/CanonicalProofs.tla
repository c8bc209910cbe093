--------------------------- MODULE CanonicalProofs ---------------------------
(***************************************************************************)
(* The properties of module Canonical for any numbers and keys, any limits *)
(* and any number of trips.                                                *)
(***************************************************************************)
EXTENDS Canonical, TLAPS

(* What a payload has to be to be logged anywhere. *)
Fine(p) == \A s \in Scalars(p) : s.type # "other" /\ s.value # NaN

(* The keys in the order of the installation that logged them.              *)
OrderAt(at, keys) == IF at = "fallback" THEN PointOrder(keys) ELSE UnitOrder(keys)

(* The numbers of a logger that refuses some.                               *)
Kept(at, s) ==
  /\ at = "fallback" => s.type = "plain" \/ (Whole(s.value) /\ Safe(s.value))
  /\ at = "typescript" => ~Unsafe(s.value)

(* The inductive invariant: the payload is of the holder's types, and what  *)
(* was signed is the RFC 8785 form of the payload as it is now, but for the *)
(* order of the keys.                                                       *)
CInv ==
  /\ hops \in 0 .. MaxHops
  /\ logger = None => holder = None
  /\ logger # None =>
       /\ logger \in Installation /\ holder \in Installation
       /\ payload \in Payload(holder) /\ Depth(payload) =< MaxDepth
       /\ Fine(payload)
       /\ signed # Raise
       /\ signed = Written(payload, OrderAt(logger, payload.keys), "typescript")
       /\ \A s \in Scalars(payload) : Kept(logger, s)

-----------------------------------------------------------------------------
(* Values on their way                                                      *)

(* A scalar arrives as one of the reader's, with its value and plain if it  *)
(* was.                                                                     *)
LEMMA SentScalar ==
  ASSUME NEW from \in Installation, NEW to \in Installation, NEW s \in Scalar(from)
  PROVE  LET r == Sent(from, to, s) IN
         /\ r \in Scalar(to) /\ r.value = s.value
         /\ r.type = "plain" <=> s.type = "plain"
         /\ r.type = "other" <=> s.type = "other"
<1> DEFINE r == Sent(from, to, s)
<1>1. CASE s.type \in NumberTypes(from)
  <2>1. s \in [type : NumberTypes(from), value : Halves \cup {NaN}]
        /\ (s.type = "int" => Whole(s.value))
    BY <1>1 DEF Scalar, NumberTypes, Python
  <2>2. r = loads(to, literal(from, s))
    BY <1>1 DEF Sent
  <2>3. r.value = s.value
    BY <2>2 DEF loads, literal
  <2>4. (literal(from, s)).digits => Whole(s.value)
    BY <2>1, <1>1 DEF literal, NumberTypes
  <2>5. r.type \in NumberTypes(to) /\ (r.type = "int" => Whole(s.value))
    BY <2>2, <2>4 DEF loads, NumberTypes
  <2>6. r \in [type : NumberTypes(to), value : Halves \cup {NaN}]
    BY <2>1, <2>2, <2>3, <2>5 DEF loads, literal
  <2> QED
    BY <1>1, <2>3, <2>5, <2>6 DEF Scalar, NumberTypes, Python
<1>2. CASE s.type \notin NumberTypes(from)
  <2>1. r = s
    BY <1>2 DEF Sent
  <2>2. s = [type |-> "plain", value |-> 0] \/ s = [type |-> "other", value |-> 0]
    BY <1>2 DEF Scalar
  <2> QED
    BY <2>1, <2>2 DEF Scalar
<1> QED
  BY <1>1, <1>2

(* The RFC 8785 form looks at values only.                                  *)
LEMMA FormOfValue ==
  ASSUME NEW p, NEW r, NEW members,
         p.lists = r.lists, p.keys = r.keys,
         p.scalar.value = r.scalar.value,
         p.scalar.type = "plain" <=> r.scalar.type = "plain",
         p.scalar.type = "plain" => p.scalar = r.scalar
  PROVE  Written(p, members, "typescript") = Written(r, members, "typescript")
<1> DEFINE W(s) == IF s.type = "plain" THEN s ELSE literal("typescript", s)
<1>1. W(p.scalar) = W(r.scalar)
  BY DEF literal, Python
<1>2. {W(s) : s \in Scalars(p)} = {W(s) : s \in Scalars(r)}
  BY <1>1 DEF Scalars
<1> QED
  BY <1>2 DEF Written

(* Where the fallback writes anything, it writes what RFC 8785 writes, but  *)
(* for the order of the keys: it takes safe ints only.                      *)
LEMMA FallbackForm ==
  ASSUME NEW p \in Payload("fallback"), fallback_dumps(p) # Raise
  PROVE  /\ fallback_dumps(p) = Written(p, PointOrder(p.keys), "typescript")
         /\ \A s \in Scalars(p) : s.type = "plain" \/ (Whole(s.value) /\ Safe(s.value))
<1>1. \A s \in Scalars(p) : ~_reject_divergent(s) /\ s.type # "other" /\ s.value # NaN
  BY DEF fallback_dumps
<1>2. fallback_dumps(p) = Written(p, PointOrder(p.keys), "fallback")
  BY <1>1 DEF fallback_dumps
<1>3. \A s \in Scalars(p) : s \in Scalar("fallback")
  BY DEF Payload, Scalars
<1>4. \A s \in Scalars(p) :
        s.type = "plain" \/ (s.type = "int" /\ Whole(s.value) /\ Safe(s.value))
  BY <1>1, <1>3 DEF Scalar, NumberTypes, Python, _reject_divergent, Unsafe
<1>5. \A s \in Scalars(p) :
        s.type # "plain" => literal("fallback", s) = literal("typescript", s)
  <2> SUFFICES ASSUME NEW s \in Scalars(p), s.type # "plain"
               PROVE  literal("fallback", s) = literal("typescript", s)
    OBVIOUS
  <2>1. s.type = "int" /\ Whole(s.value) /\ Safe(s.value)
    BY <1>4
  <2>2. s.value \in -2 * Exponent + 1 .. 2 * Exponent - 1
    BY <2>1, NumberAssumption DEF Safe
  <2> QED
    BY <2>1, <2>2 DEF literal, Python
<1>6. Written(p, PointOrder(p.keys), "fallback") = Written(p, PointOrder(p.keys), "typescript")
  BY <1>5 DEF Written
<1> QED
  BY <1>2, <1>4, <1>6

-----------------------------------------------------------------------------
(* The invariant                                                            *)

LEMMA LogKeeps ==
  ASSUME CInv, NEW at \in Installation, NEW p \in Payload(at), Log(at, p)
  PROVE  CInv'
<1>1. /\ logger' = at /\ holder' = at /\ payload' = p /\ hops' = hops
      /\ signed' = canonicalize(at, p) /\ canonicalize(at, p) # Raise
      /\ Validated(at, p)
  BY DEF Log
<1>2. at # None
  BY NoneAssumption
<1>3. Depth(p) =< MaxDepth
  <2>1. ~TooDeep(p)
    BY <1>1 DEF Validated, _validate_payload, validatePayload
  <2>2. Depth(p) \in Nat
    BY DepthAssumption DEF Payload, Depth
  <2> QED
    BY <2>1, <2>2, DepthAssumption DEF TooDeep
<1>4. Fine(p) /\ canonicalize(at, p) = Written(p, OrderAt(at, p.keys), "typescript")
      /\ \A s \in Scalars(p) : Kept(at, s)
  <2>1. CASE at = "rfc8785"
    BY <1>1, <2>1 DEF canonicalize, rfc8785_dumps, Fine, OrderAt, Kept
  <2>2. CASE at = "fallback"
    <3>1. canonicalize(at, p) = fallback_dumps(p)
      BY <2>2 DEF canonicalize
    <3>2. Fine(p)
      BY <3>1, <1>1 DEF fallback_dumps, Fine
    <3> QED
      BY <1>1, <2>2, <3>1, <3>2, FallbackForm DEF OrderAt, Kept
  <2>3. CASE at = "typescript"
    <3>1. \A s \in Scalars(p) : ~Unsafe(s.value)
      BY <1>1, <2>3 DEF Validated, validatePayload, Python
    <3> QED
      BY <1>1, <2>3, <3>1 DEF canonicalize, jcs, Fine, OrderAt, Kept
  <2> QED
    BY <2>1, <2>2, <2>3 DEF Installation, Python
<1> QED
  BY <1>1, <1>2, <1>3, <1>4 DEF CInv

LEMMA SendKeeps ==
  ASSUME CInv, NEW to \in Installation, Send(to)
  PROVE  CInv'
<1> DEFINE s == payload.scalar
           r == Sent(holder, to, s)
<1>1. /\ logger # None /\ hops < MaxHops /\ hops' = hops + 1
      /\ holder' = to /\ logger' = logger /\ signed' = signed
      /\ payload' = [payload EXCEPT !.scalar = r]
  BY DEF Send
<1>2. /\ holder \in Installation /\ payload \in Payload(holder)
      /\ s \in Scalar(holder)
  BY <1>1 DEF CInv, Payload
<1>3. r \in Scalar(to) /\ r.value = s.value /\ (r.type = "plain" <=> s.type = "plain")
      /\ (r.type = "other" <=> s.type = "other") /\ (s.type = "plain" => r = s)
  BY <1>2, SentScalar DEF Sent, NumberTypes
<1>4. /\ payload' \in Payload(to) /\ payload'.scalar = r
      /\ payload'.lists = payload.lists /\ payload'.keys = payload.keys
  BY <1>1, <1>2, <1>3 DEF Payload
<1>5. Depth(payload') = Depth(payload)
  BY <1>4 DEF Depth
<1>6. \A x \in Scalars(payload') : x = r /\ s \in Scalars(payload)
  BY <1>4 DEF Scalars
<1>7. Fine(payload')
  BY <1>1, <1>3, <1>6 DEF CInv, Fine
<1>8. \A x \in Scalars(payload') : Kept(logger, x)
  BY <1>1, <1>3, <1>6 DEF CInv, Kept
<1>9. Written(payload', OrderAt(logger, payload.keys), "typescript")
        = Written(payload, OrderAt(logger, payload.keys), "typescript")
  BY <1>3, <1>4, FormOfValue
<1>10. hops' \in 0 .. MaxHops
  BY <1>1, DepthAssumption DEF CInv
<1> QED
  BY <1>1, <1>4, <1>5, <1>7, <1>8, <1>9, <1>10 DEF CInv

LEMMA CInvHolds == Spec => []CInv
<1>1. Init => CInv
  BY DepthAssumption DEF Init, CInv
<1>2. CInv /\ [Next]_vars => CInv'
  <2> SUFFICES ASSUME CInv, [Next]_vars PROVE CInv'
    OBVIOUS
  <2>1. CASE \E at \in Installation : \E p \in Payload(at) : Log(at, p)
    BY <2>1, LogKeeps
  <2>2. CASE \E to \in Installation : Send(to)
    BY <2>2, SendKeeps
  <2>3. CASE UNCHANGED vars
    BY <2>3 DEF vars, CInv, Payload, Depth, Fine, Scalars, Written, Kept
  <2> QED
    BY <2>1, <2>2, <2>3 DEF Next
<1> QED
  BY <1>1, <1>2, PTL DEF Spec

-----------------------------------------------------------------------------
(* The theorems                                                             *)

(* What an installation holds is of its own types, within the depth limit,  *)
(* and finite, after any number of trips (_validate_payload,                *)
(* validatePayload).                                                        *)
THEOREM TypeInvariant == Spec => []TypeOK
<1>1. CInv => TypeOK
  BY NoneAssumption DEF CInv, TypeOK, Fine
<1> QED
  BY <1>1, CInvHolds, PTL

(* The form the holder computes, unless it refuses.                         *)
LEMMA HolderForm ==
  ASSUME CInv, logger # None, canonicalize(holder, payload) # Raise
  PROVE  canonicalize(holder, payload)
           = Written(payload, OrderAt(holder, payload.keys), "typescript")
<1>1. holder \in Installation /\ payload \in Payload(holder)
  BY DEF CInv
<1>2. CASE holder = "rfc8785"
  BY <1>2 DEF canonicalize, rfc8785_dumps, OrderAt
<1>3. CASE holder = "typescript"
  BY <1>3 DEF canonicalize, jcs, OrderAt
<1>4. CASE holder = "fallback"
  BY <1>1, <1>4, FallbackForm DEF canonicalize, OrderAt
<1> QED
  BY <1>1, <1>2, <1>3, <1>4 DEF Installation, Python

(* No untouched entry is taken for a tampered one, wherever it was logged,  *)
(* whatever numbers it holds and however often it was re-exported, unless   *)
(* the fallback orders its keys otherwise (canonicalize).                   *)
THEOREM NobodySeesTampering == Spec => []NoFalseTamper
<1>1. CInv => NoFalseTamper
  <2> SUFFICES ASSUME CInv, logger # None,
                      Verdict(holder, payload) = "content tampered"
               PROVE  OrdersDiffer /\ {logger, holder} \cap {"fallback"} # {}
                      /\ logger # holder
    BY DEF NoFalseTamper
  <2>1. canonicalize(holder, payload) # Raise /\ canonicalize(holder, payload) # signed
    BY DEF Verdict, CInv
  <2>2. OrderAt(holder, payload.keys) # OrderAt(logger, payload.keys)
    BY <2>1, HolderForm DEF CInv
  <2> QED
    BY <2>2 DEF OrderAt, OrdersDiffer
<1> QED
  BY <1>1, CInvHolds, PTL

(* What was logged can be checked with rfc8785 and in TypeScript, wherever  *)
(* it has been, but for the large whole floats of Python.                   *)
THEOREM EntriesStayVerifiable == Spec => []StaysVerifiable
<1>1. CInv => StaysVerifiable
  <2> SUFFICES ASSUME CInv, logger # None, holder # "fallback",
                      logger = "fallback" => ~OrdersDiffer,
                      ~(/\ logger = "rfc8785"
                        /\ payload.scalar.type = "int" /\ Unsafe(payload.scalar.value))
               PROVE  Verdict(holder, payload) = "intact"
    BY DEF StaysVerifiable
  <2>1. logger \in Installation /\ holder \in {"rfc8785", "typescript"}
    BY DEF CInv, Installation, Python
  <2>2. \A s \in Scalars(payload) : s = payload.scalar /\ ~(s.type = "int" /\ Unsafe(s.value))
    BY <2>1 DEF CInv, Kept, Scalars, Installation, Python, Unsafe
  <2>3. canonicalize(holder, payload) = Written(payload, UnitOrder(payload.keys), "typescript")
    BY <2>1, <2>2 DEF CInv, Fine, canonicalize, rfc8785_dumps, jcs
  <2>4. signed = Written(payload, UnitOrder(payload.keys), "typescript")
    BY DEF CInv, OrderAt, OrdersDiffer
  <2> QED
    BY <2>3, <2>4 DEF Verdict, CInv
<1> QED
  BY <1>1, CInvHolds, PTL
=============================================================================
