------------------------ MODULE ReconcilePortsProofs ------------------------
(***************************************************************************)
(* The two ports of reconcile return the same, for chains, summaries and   *)
(* claims of any length.                                                   *)
(*                                                                         *)
(* The TypeScript port is made of folds, so the proof is an induction over *)
(* them: a fold over a list is a function of how far it has gone (the      *)
(* lemmas on ReadTo and PushedTo), and the Python machine has at each      *)
(* iteration what the fold has there (PortInv).                            *)
(***************************************************************************)
EXTENDS ReconcilePorts, ReconcileProofs

(* Neither an exception nor an inherited function nor null is a step, a     *)
(* list, a finding or a status.                                             *)
ValuesAreApart ==
  /\ NoneIsNoStep /\ None \notin CLAIMED
  /\ \A index, party, status, arrived :
       [step |-> index, counterparty |-> party, status |-> status, reached |-> arrived] # Raise
  /\ \A list : IsSequence(list) => list # Raise
  /\ Raise \notin BOOLEAN \cup {None}
  /\ \A kind, index, party, label, chain : _finding(kind, index, party, label, chain) # None
  /\ Function \notin {None, "unknown", "rejected", "done", "blocked", "declined",
                      "handoff", "error"}
  /\ \A e \in Entry : e # None => Function \notin {e.status, e.verdict}

(* A custom parser is a function of one language. *)
BuiltInParsers == \A args \in Arguments : args[2] # "custom"

-----------------------------------------------------------------------------
(* Folds                                                                    *)

LEMMA MaxIsLast ==
  ASSUME NEW n \in Nat, NEW S \in SUBSET (1 .. n + 1), n + 1 \in S
  PROVE  Max(S) = n + 1
<1>1. \A m \in S : m =< n + 1 /\ m \in Int
  OBVIOUS
<1>2. \E m \in S : \A k \in S : m >= k
  BY <1>1
<1>3. Max(S) \in S /\ \A k \in S : Max(S) >= k
  BY <1>2 DEF Max
<1>4. Max(S) >= n + 1 /\ Max(S) =< n + 1 /\ Max(S) \in Int
  BY <1>1, <1>3
<1> QED
  BY <1>4

(* The loop that pushes, as a function of the positions it has seen.        *)
Push(out, f) == IF f = None THEN out ELSE Append(out, f)

Pushes(iter, list, S) ==
  iter = [T \in SUBSET S |->
            IF T = {} THEN <<>> ELSE Push(iter[T \ {Max(T)}], list[Max(T)])]

PushedTo(list, n) == (CHOOSE iter : Pushes(iter, list, DOMAIN list))[1 .. n]

LEMMA PushOneMore ==
  ASSUME NEW list, NEW n \in Nat, NEW g, Pushes(g, list, 1 .. n)
  PROVE  \E h : Pushes(h, list, 1 .. n + 1)
<1> DEFINE h == [T \in SUBSET (1 .. n + 1) |->
                   IF n + 1 \in T THEN Push(g[T \ {n + 1}], list[n + 1]) ELSE g[T]]
<1>1. ASSUME NEW T \in SUBSET (1 .. n + 1)
      PROVE  h[T] = IF T = {} THEN <<>> ELSE Push(h[T \ {Max(T)}], list[Max(T)])
  <2>1. CASE n + 1 \in T
    <3>1. Max(T) = n + 1
      BY <2>1, MaxIsLast
    <3>2. T \ {n + 1} \in SUBSET (1 .. n + 1) /\ n + 1 \notin T \ {n + 1}
      OBVIOUS
    <3>3. h[T \ {n + 1}] = g[T \ {n + 1}]
      BY <3>2
    <3>4. h[T] = Push(g[T \ {n + 1}], list[n + 1])
      BY <2>1
    <3> QED
      BY <3>1, <3>3, <3>4, <2>1
  <2>2. CASE n + 1 \notin T
    <3>1. T \in SUBSET (1 .. n) /\ h[T] = g[T]
      BY <2>2
    <3>2. g[T] = IF T = {} THEN <<>> ELSE Push(g[T \ {Max(T)}], list[Max(T)])
      BY <3>1 DEF Pushes
    <3>3. T \ {Max(T)} \in SUBSET (1 .. n + 1) /\ n + 1 \notin T \ {Max(T)}
      BY <2>2
    <3>4. h[T \ {Max(T)}] = g[T \ {Max(T)}]
      BY <3>3
    <3> HIDE DEF h
    <3> QED
      BY <3>1, <3>2, <3>4
  <2> QED
    BY <2>1, <2>2
<1>2. Pushes(h, list, 1 .. n + 1)
  <2>1. h = [T \in SUBSET (1 .. n + 1) |-> h[T]]
    OBVIOUS
  <2> HIDE DEF h
  <2> QED
    BY <1>1, <2>1 DEF Pushes
<1> QED
  BY <1>2

(* If something goes wrong for some length up to n, it does for a first one. *)
LEMMA FirstLength ==
  ASSUME NEW S \in SUBSET Nat, NEW m \in S
  PROVE  \E n \in S : \A k \in S : n =< k
<1>1. PICK n \in S : \A y \in S : ~ (<<y, n>> \in OpToRel(<, Nat))
  BY NatLessThanWellFounded, WFMin
<1>2. \A k \in S : ~(k < n)
  BY <1>1 DEF OpToRel
<1>3. \A k \in S : k \in Nat
  OBVIOUS
<1> QED
  BY <1>2, <1>3

LEMMA PushesExist ==
  ASSUME NEW list, NEW n \in Nat
  PROVE  \E iter : Pushes(iter, list, 1 .. n)
<1> DEFINE Fails == {m \in Nat : ~\E iter : Pushes(iter, list, 1 .. m)}
<1>1. 0 \notin Fails
  <2>1. SUBSET (1 .. 0) = {{}}
    OBVIOUS
  <2>2. Pushes([T \in SUBSET (1 .. 0) |-> <<>>], list, 1 .. 0)
    BY <2>1 DEF Pushes
  <2> QED
    BY <2>2
<1>2. ASSUME NEW m \in Fails PROVE FALSE
  <2>1. PICK k \in Fails : \A l \in Fails : k =< l
    <3> HIDE DEF Fails
    <3>1. Fails \in SUBSET Nat
      BY DEF Fails
    <3> QED
      BY <1>2, <3>1, FirstLength
  <2>2. k # 0 /\ k - 1 \in Nat /\ k - 1 \notin Fails
    <3>1. k \in Nat /\ k # 0
      BY <1>1
    <3> HIDE DEF Fails
    <3> QED
      BY <2>1, <3>1
  <2>3. PICK g : Pushes(g, list, 1 .. k - 1)
    BY <2>2
  <2>4. \E h : Pushes(h, list, 1 .. (k - 1) + 1)
    BY <2>2, <2>3, PushOneMore
  <2>5. (k - 1) + 1 = k
    BY <2>2
  <2> QED
    BY <2>4, <2>5
<1> QED
  BY <1>2

(* What a loop that pushes has done after n + 1 elements, from what it had  *)
(* done after n.                                                            *)
LEMMA PushEquations ==
  ASSUME NEW list, IsSequence(list)
  PROVE  /\ Pushed(list) = PushedTo(list, Len(list))
         /\ PushedTo(list, 0) = <<>>
         /\ \A n \in 0 .. Len(list) - 1 :
              PushedTo(list, n + 1) = Push(PushedTo(list, n), list[n + 1])
<1>1. DOMAIN list = 1 .. Len(list) /\ Len(list) \in Nat
  BY DEF IsSequence
<1> DEFINE iter == CHOOSE iter : Pushes(iter, list, DOMAIN list)
<1>2. Pushes(iter, list, DOMAIN list)
  <2>1. \E g : Pushes(g, list, DOMAIN list)
    BY <1>1, PushesExist
  <2> QED
    BY <2>1
<1>3. Pushed(list) = iter[DOMAIN list]
  BY DEF Pushed, FoldLeft, MapThenFoldSet, Pushes, Push
<1>4. \A n : PushedTo(list, n) = iter[1 .. n]
  BY DEF PushedTo
<1> HIDE DEF iter
<1>5. iter[{}] = <<>>
  BY <1>2 DEF Pushes
<1>6. 1 .. 0 = {}
  OBVIOUS
<1>7. ASSUME NEW n \in 0 .. Len(list) - 1
      PROVE  iter[1 .. n + 1] = Push(iter[1 .. n], list[n + 1])
  <2>1. n \in Nat /\ 1 .. n + 1 \in SUBSET (1 .. n + 1) /\ n + 1 \in 1 .. n + 1
    OBVIOUS
  <2>2. Max(1 .. n + 1) = n + 1
    BY <2>1, MaxIsLast
  <2>3. 1 .. n + 1 \in SUBSET (DOMAIN list) /\ 1 .. n + 1 # {}
    BY <1>1
  <2>4. (1 .. n + 1) \ {n + 1} = 1 .. n
    BY <2>1
  <2> QED
    BY <1>2, <2>2, <2>3, <2>4 DEF Pushes
<1> QED
  BY <1>1, <1>3, <1>4, <1>5, <1>6, <1>7

(* The loop that parses.                                                    *)
ReadOne(p, read, e) ==
  IF read = Raise THEN Raise
  ELSE LET s == Parse(p, e, Len(read))
       IN  IF s = Raise THEN Raise ELSE IF s = None THEN read ELSE Append(read, s)

Reads(iter, list, p, S) ==
  iter = [T \in SUBSET S |->
            IF T = {} THEN <<>> ELSE ReadOne(p, iter[T \ {Max(T)}], list[Max(T)])]

ReadTo(list, p, n) == (CHOOSE iter : Reads(iter, list, p, DOMAIN list))[1 .. n]

LEMMA ReadOneMore ==
  ASSUME NEW list, NEW p, NEW n \in Nat, NEW g, Reads(g, list, p, 1 .. n)
  PROVE  \E h : Reads(h, list, p, 1 .. n + 1)
<1> DEFINE h == [T \in SUBSET (1 .. n + 1) |->
                   IF n + 1 \in T THEN ReadOne(p, g[T \ {n + 1}], list[n + 1]) ELSE g[T]]
<1>1. ASSUME NEW T \in SUBSET (1 .. n + 1)
      PROVE  h[T] = IF T = {} THEN <<>> ELSE ReadOne(p, h[T \ {Max(T)}], list[Max(T)])
  <2>1. CASE n + 1 \in T
    <3>1. Max(T) = n + 1
      BY <2>1, MaxIsLast
    <3>2. T \ {n + 1} \in SUBSET (1 .. n + 1) /\ n + 1 \notin T \ {n + 1}
      OBVIOUS
    <3>3. h[T \ {n + 1}] = g[T \ {n + 1}]
      BY <3>2
    <3>4. h[T] = ReadOne(p, g[T \ {n + 1}], list[n + 1])
      BY <2>1
    <3> QED
      BY <3>1, <3>3, <3>4, <2>1
  <2>2. CASE n + 1 \notin T
    <3>1. T \in SUBSET (1 .. n) /\ h[T] = g[T]
      BY <2>2
    <3>2. g[T] = IF T = {} THEN <<>> ELSE ReadOne(p, g[T \ {Max(T)}], list[Max(T)])
      BY <3>1 DEF Reads
    <3>3. T \ {Max(T)} \in SUBSET (1 .. n + 1) /\ n + 1 \notin T \ {Max(T)}
      BY <2>2
    <3>4. h[T \ {Max(T)}] = g[T \ {Max(T)}]
      BY <3>3
    <3> HIDE DEF h
    <3> QED
      BY <3>1, <3>2, <3>4
  <2> QED
    BY <2>1, <2>2
<1>2. Reads(h, list, p, 1 .. n + 1)
  <2>1. h = [T \in SUBSET (1 .. n + 1) |-> h[T]]
    OBVIOUS
  <2> HIDE DEF h
  <2> QED
    BY <1>1, <2>1 DEF Reads
<1> QED
  BY <1>2

LEMMA ReadsExist ==
  ASSUME NEW list, NEW p, NEW n \in Nat
  PROVE  \E iter : Reads(iter, list, p, 1 .. n)
<1> DEFINE Fails == {m \in Nat : ~\E iter : Reads(iter, list, p, 1 .. m)}
<1>1. 0 \notin Fails
  <2>1. SUBSET (1 .. 0) = {{}}
    OBVIOUS
  <2>2. Reads([T \in SUBSET (1 .. 0) |-> <<>>], list, p, 1 .. 0)
    BY <2>1 DEF Reads
  <2> QED
    BY <2>2
<1>2. ASSUME NEW m \in Fails PROVE FALSE
  <2>1. PICK k \in Fails : \A l \in Fails : k =< l
    <3> HIDE DEF Fails
    <3>1. Fails \in SUBSET Nat
      BY DEF Fails
    <3> QED
      BY <1>2, <3>1, FirstLength
  <2>2. k # 0 /\ k - 1 \in Nat /\ k - 1 \notin Fails
    <3>1. k \in Nat /\ k # 0
      BY <1>1
    <3> HIDE DEF Fails
    <3> QED
      BY <2>1, <3>1
  <2>3. PICK g : Reads(g, list, p, 1 .. k - 1)
    BY <2>2
  <2>4. \E h : Reads(h, list, p, 1 .. (k - 1) + 1)
    BY <2>2, <2>3, ReadOneMore
  <2>5. (k - 1) + 1 = k
    BY <2>2
  <2> QED
    BY <2>4, <2>5
<1> QED
  BY <1>2

(* What the loop that parses has done after n + 1 entries, from what it had *)
(* done after n.                                                            *)
LEMMA ReadEquations ==
  ASSUME NEW list, NEW p, IsSequence(list)
  PROVE  /\ parseSteps(list, p) = ReadTo(list, p, Len(list))
         /\ ReadTo(list, p, 0) = <<>>
         /\ \A n \in 0 .. Len(list) - 1 :
              ReadTo(list, p, n + 1) = ReadOne(p, ReadTo(list, p, n), list[n + 1])
<1>1. DOMAIN list = 1 .. Len(list) /\ Len(list) \in Nat
  BY DEF IsSequence
<1> DEFINE iter == CHOOSE iter : Reads(iter, list, p, DOMAIN list)
<1>2. Reads(iter, list, p, DOMAIN list)
  <2>1. \E g : Reads(g, list, p, DOMAIN list)
    BY <1>1, ReadsExist
  <2> QED
    BY <2>1
<1>3. parseSteps(list, p) = iter[DOMAIN list]
  BY DEF parseSteps, FoldLeft, MapThenFoldSet, Reads, ReadOne
<1>4. \A n : ReadTo(list, p, n) = iter[1 .. n]
  BY DEF ReadTo
<1> HIDE DEF iter
<1>5. iter[{}] = <<>>
  BY <1>2 DEF Reads
<1>6. 1 .. 0 = {}
  OBVIOUS
<1>7. ASSUME NEW n \in 0 .. Len(list) - 1
      PROVE  iter[1 .. n + 1] = ReadOne(p, iter[1 .. n], list[n + 1])
  <2>1. n \in Nat /\ 1 .. n + 1 \in SUBSET (1 .. n + 1) /\ n + 1 \in 1 .. n + 1
    OBVIOUS
  <2>2. Max(1 .. n + 1) = n + 1
    BY <2>1, MaxIsLast
  <2>3. 1 .. n + 1 \in SUBSET (DOMAIN list) /\ 1 .. n + 1 # {}
    BY <1>1
  <2>4. (1 .. n + 1) \ {n + 1} = 1 .. n
    BY <2>1
  <2> QED
    BY <1>2, <2>2, <2>3, <2>4 DEF Reads
<1> QED
  BY <1>1, <1>3, <1>4, <1>5, <1>6, <1>7

-----------------------------------------------------------------------------
(* The tables and the rules                                                 *)

LEMMA SameAliases ==
  ASSUME ValuesAreApart
  PROVE  /\ CLAIMED_ALIASES = _CLAIMED_ALIASES
         /\ \A label \in DOMAIN CLAIMED_ALIASES : CLAIMED_ALIASES[label] # None
<1>1. DOMAIN CLAIMED_ALIASES = {"done", "failed", "declined", "not_attempted",
                                "declined by bank", "not attempted"}
  BY DEF CLAIMED_ALIASES
<1>2. DOMAIN _CLAIMED_ALIASES = DOMAIN CLAIMED_ALIASES
  BY <1>1 DEF _CLAIMED_ALIASES, CLAIMED
<1>3. \A label \in DOMAIN CLAIMED_ALIASES : CLAIMED_ALIASES[label] = _CLAIMED_ALIASES[label]
  BY <1>1 DEF CLAIMED_ALIASES, _CLAIMED_ALIASES, CLAIMED
<1>4. \A label \in DOMAIN CLAIMED_ALIASES : _CLAIMED_ALIASES[label] \in CLAIMED
  BY <1>1 DEF _CLAIMED_ALIASES, CLAIMED
<1>5. /\ CLAIMED_ALIASES = [label \in DOMAIN CLAIMED_ALIASES |-> CLAIMED_ALIASES[label]]
      /\ _CLAIMED_ALIASES = [label \in DOMAIN CLAIMED_ALIASES |-> _CLAIMED_ALIASES[label]]
  BY <1>2 DEF CLAIMED_ALIASES, _CLAIMED_ALIASES
<1> QED
  BY <1>3, <1>4, <1>5 DEF ValuesAreApart

(* A claim both languages read alike.                                       *)
ClaimReadsAlike(c) ==
  /\ c.claimed.text \notin Inherited
  /\ c.claimed.space = {} /\ Double(c.step) = c.step

(* Both ports accept the same claims and normalize them alike.              *)
LEMMA SameClaims ==
  ASSUME ValuesAreApart, NEW c, IsRawClaim(c), c # None => ClaimReadsAlike(c)
  PROVE  /\ Normalizes(c) <=> WellFormed(c)
         /\ WellFormed(c) => _normalized(c) = Normal(c)
<1>1. /\ CLAIMED_ALIASES = _CLAIMED_ALIASES
      /\ \A label \in DOMAIN CLAIMED_ALIASES : CLAIMED_ALIASES[label] # None
  BY SameAliases
<1>2. CASE c # None
  <2>1. /\ c.claimed.text \notin Inherited /\ "python" \notin c.claimed.space
        /\ "javascript" \notin c.claimed.space
    BY <1>2 DEF ClaimReadsAlike
  <2>2. normalizeClaimed(c.claimed) = normalize_claimed(c.claimed)
    BY <1>1, <2>1 DEF normalizeClaimed, normalize_claimed, LookUp
  <2>3. Normalizes(c) <=> WellFormed(c)
    BY <2>2 DEF Normalizes, WellFormed
  <2>4. Normal(c) = _normalized(c)
    <3> DEFINE label == normalize_claimed(c.claimed)
    <3>1. c = [step |-> c.step, counterparty |-> c.counterparty, claimed |-> c.claimed]
      BY <1>2 DEF IsRawClaim
    <3>2. Normal(c) = [c EXCEPT !.step = c.step, !.claimed = label]
      BY <1>2, <2>2 DEF Normal, ClaimReadsAlike
    <3>3. _normalized(c) = [c EXCEPT !.claimed = label]
      BY DEF _normalized
    <3> HIDE DEF label
    <3> QED
      BY <3>1, <3>2, <3>3
  <2> QED
    BY <2>3, <2>4
<1> QED
  BY <1>2 DEF Normalizes, WellFormed

LEMMA SameStatus ==
  ASSUME NEW status, status \notin Inherited
  PROVE  /\ OrUnknown(OrElse(LookUp(SANDBOX_STATUSES, status), status)) = FromStatus(status)
         /\ OrElse(LookUp(SANDBOX_STATUSES, status), status) \in {status, "rejected"}
<1>1. DOMAIN SANDBOX_STATUSES = {"declined-by-rail"}
      /\ SANDBOX_STATUSES["declined-by-rail"] = "rejected"
  BY DEF SANDBOX_STATUSES
<1> QED
  BY <1>1, NoneIsNoStatus DEF OrUnknown, OrElse, LookUp, FromStatus

LEMMA SameVerdict ==
  ASSUME NEW verdict, verdict \notin Inherited
  PROVE  /\ OrUnknown(OrElse(LookUp(HARNESS_VERDICTS, verdict), verdict)) = FromVerdict(verdict)
         /\ OrElse(LookUp(HARNESS_VERDICTS, verdict), verdict)
              \in {verdict, "done", "blocked", "declined", "handoff", "error"}
<1>1. HARNESS_VERDICTS = _HARNESS_VERDICTS
  BY DEF HARNESS_VERDICTS, _HARNESS_VERDICTS
<1>2. DOMAIN _HARNESS_VERDICTS = {"allow", "deny", "ask", "handoff", "error"}
  BY DEF _HARNESS_VERDICTS
<1>3. CASE verdict \in DOMAIN _HARNESS_VERDICTS
  <2>1. _HARNESS_VERDICTS[verdict] \in {"done", "blocked", "declined", "handoff", "error"}
    BY <1>2, <1>3 DEF _HARNESS_VERDICTS
  <2>2. _HARNESS_VERDICTS[verdict] # None
    BY <2>1, NoneIsNoStatus
  <2> HIDE DEF _HARNESS_VERDICTS
  <2> QED
    BY <1>1, <1>3, <2>1, <2>2 DEF OrUnknown, OrElse, LookUp, FromVerdict
<1>4. CASE verdict \notin DOMAIN _HARNESS_VERDICTS
  BY <1>1, <1>4 DEF OrUnknown, OrElse, LookUp, FromVerdict
<1> QED
  BY <1>3, <1>4

(* An entry both languages read alike.                                      *)
ReadsAlike(e) ==
  /\ e \in Entry /\ e # None
  /\ e.status \notin Inherited /\ e.verdict \notin Inherited
  /\ e.form # "verb:status\n" /\ e.reference # "empty"
  /\ e.space = {} /\ Double(e.step) = e.step

LEMMA SameReading ==
  ASSUME ValuesAreApart, parser \in {"auto", "sandbox", "harness"},
         NEW e, ReadsAlike(e), NEW n
  PROVE  Parsed(e, n) = {Parse(parser, e, n)} /\ Parse(parser, e, n) # Raise
<1>1. IsLogEntry(e) /\ Function \notin {e.status, e.verdict}
  BY EntryAssumption DEF ReadsAlike, ValuesAreApart
<1>2. IsTrue(e.reference) <=> e.reference # "absent"
  BY <1>1 DEF IsLogEntry, Reference, IsTrue, ReadsAlike
<1>3. (e.reference # "absent") \in BOOLEAN /\ IsTrue(e.reference) \in BOOLEAN
  BY DEF IsTrue
<1>4. ASSUME NEW status, NEW party, status # Function
      PROVE  _step(e, n, OrUnknown(status), party) = step(e, n, status, party)
  <2>1. OrUnknown(status) = IF status \in {None, Function} THEN "unknown" ELSE status
    BY <1>4 DEF OrUnknown
  <2>2. IsTrue(e.reference) = (e.reference # "absent")
    BY <1>2, <1>3
  <2> QED
    BY <2>1, <2>2 DEF _step, step, OrElse, ReadsAlike
<1>5. parse_entry_sandbox(e, n) = parseEntrySandbox(e, n)
  <2> DEFINE st == OrElse(LookUp(SANDBOX_STATUSES, e.status), e.status)
  <2>1. st # Function /\ FromStatus(e.status) = OrUnknown(st)
    BY <1>1, SameStatus DEF ReadsAlike, ValuesAreApart
  <2>2. _SANDBOX_ACTION(e) <=> SANDBOX_ACTION(e)
    BY DEF _SANDBOX_ACTION, SANDBOX_ACTION, ReadsAlike
  <2> HIDE DEF st
  <2>3. _step(e, n, FromStatus(e.status), e.counterparty) = step(e, n, st, e.counterparty)
    BY <1>4, <2>1
  <2> QED
    BY <2>2, <2>3 DEF parse_entry_sandbox, parseEntrySandbox, st
<1>6. parse_entry_harness(e, n) = parseEntryHarness(e, n)
  <2> DEFINE st == OrElse(LookUp(HARNESS_VERDICTS, e.verdict), e.verdict)
  <2>1. st # Function /\ FromVerdict(e.verdict) = OrUnknown(st)
    BY <1>1, SameVerdict DEF ReadsAlike, ValuesAreApart
  <2> HIDE DEF st
  <2>3. _step(e, n, FromVerdict(e.verdict), e.to) = step(e, n, st, e.to)
    BY <1>4, <2>1
  <2> QED
    BY <2>3 DEF parse_entry_harness, parseEntryHarness, st
<1>7. parse_entry_auto(e, n) = parseEntryAuto(e, n)
  BY <1>5, <1>6 DEF parse_entry_auto, parseEntryAuto
<1>8. None # Raise /\ \A status, party : step(e, n, status, party) # Raise
  BY DEF ValuesAreApart, step
<1>9. /\ parseEntrySandbox(e, n) # Raise
      /\ parseEntryHarness(e, n) # Raise
      /\ parseEntryAuto(e, n) # Raise
  BY <1>8 DEF parseEntrySandbox, parseEntryHarness, parseEntryAuto
<1> QED
  BY <1>5, <1>6, <1>7, <1>9 DEF Parsed, Parse

-----------------------------------------------------------------------------
(* The diff                                                                 *)

LEMMA LastStep ==
  ASSUME NEW index, IsSequence(steps), At(index) # {}
  PROVE  by_index(index) = steps[ChosenOf(At(index))] /\ ChosenOf(At(index)) \in DOMAIN steps
<1>1. At(index) \in SUBSET (1 .. Len(steps)) /\ Len(steps) \in Nat
  BY DEF At, IsSequence
<1>2. PICK m \in At(index) : \A k \in At(index) : k =< m
  BY <1>1, LastPosition
<1>3. \A k \in At(index) : k \in Int
  BY <1>1
<1> DEFINE last == CHOOSE n \in At(index) : \A k \in At(index) : k =< n
           most == Max(At(index))
<1>4. last \in At(index) /\ \A k \in At(index) : k =< last
  BY <1>2
<1>5. most \in At(index) /\ \A k \in At(index) : most >= k
  BY <1>2, <1>3 DEF Max
<1>6. by_index(index) = steps[last]
  BY DEF by_index
<1> HIDE DEF last, most
<1>7. most = last
  BY <1>3, <1>4, <1>5
<1>8. ChosenOf(At(index)) = most
  BY DEF ChosenOf, most
<1> QED
  BY <1>5, <1>6, <1>7, <1>8 DEF At

(* The rules for a claim give the same verdict and the same finding.        *)
LEMMA SameJudgement ==
  ASSUME IsSequence(steps), NEW c
  PROVE  LET s == by_index(c.step) IN
         /\ Missing(c, s) =>
              Judge(c, steps) = _finding("no_entry", c.step, c.counterparty, c.claimed, None)
         /\ ~Missing(c, s) /\ Contradicted(c, s) =>
              Judge(c, steps)
                = _finding("contradicted", s.step, s.counterparty, c.claimed, s.status)
         /\ ~Missing(c, s) /\ ~Contradicted(c, s) => Judge(c, steps) = None
<1> DEFINE s == by_index(c.step)
           t == IF At(c.step) = {} THEN None ELSE steps[ChosenOf(At(c.step))]
<1>1. s = t
  BY LastStep DEF by_index
<1>2. {n \in DOMAIN steps : steps[n].step = c.step} = At(c.step)
  BY DEF At
<1> HIDE DEF t
<1>3. Judge(c, steps) =
        IF t = None \/ c.counterparty # t.counterparty
        THEN _finding("no_entry", c.step, c.counterparty, c.claimed, None)
        ELSE IF \/ (c.claimed = "done") # (t.status = "done")
                \/ c.claimed = "declined" /\ ~reached(t)
        THEN _finding("contradicted", t.step, t.counterparty, c.claimed, t.status)
        ELSE None
  BY <1>2 DEF Judge, t
<1> HIDE DEF s
<1>4. Missing(c, s) <=> t = None \/ c.counterparty # t.counterparty
  BY <1>1 DEF Missing
<1>5. Contradicted(c, s) <=> \/ (c.claimed = "done") # (t.status = "done")
                             \/ c.claimed = "declined" /\ ~reached(t)
  BY <1>1 DEF Contradicted, reached, _reached
<1>6. /\ Missing(c, s) =>
           Judge(c, steps) = _finding("no_entry", c.step, c.counterparty, c.claimed, None)
      /\ ~Missing(c, s) /\ Contradicted(c, s) =>
           Judge(c, steps)
             = _finding("contradicted", s.step, s.counterparty, c.claimed, s.status)
      /\ ~Missing(c, s) /\ ~Contradicted(c, s) => Judge(c, steps) = None
  BY <1>1, <1>3, <1>4, <1>5
<1> QED
  BY <1>6 DEF s

-----------------------------------------------------------------------------
(* The invariant                                                            *)

Alike == ~NamesAnInheritedOne /\ ~ReadsDifferently

(* The claims given, and as the port normalizes them.                       *)
raw == OrEmpty(given[1])

Normalized == [k \in DOMAIN raw |-> Normal(raw[k])]

(* What the port finds about each claim and about each step.                *)
Judgements == [k \in DOMAIN raw |-> Judge(Normalized[k], steps)]

Reproaches ==
  [n \in DOMAIN steps |-> Reproach(steps[n], {Normalized[k].step : k \in DOMAIN raw})]

(* The call both ports accept. *)
Accepted ==
  /\ given[1] # NoList /\ parser = given[2] /\ summary = given[3] /\ given[4]
  /\ IsSequence(raw) /\ \A k \in DOMAIN raw : Normalizes(raw[k])
  /\ claims = Normalized
  /\ parser \in {"auto", "sandbox", "harness"}
  /\ \A n \in DOMAIN entries : ReadsAlike(entries[n])

(* At each iteration the machine has what the fold of the port has there.   *)
PortInv ==
  /\ \A n \in DOMAIN entries : entries[n] \in Entry
  /\ pc = "idle" => steps = <<>> /\ i = 1
  /\ pc = "bind" => summary # None
  /\ Alike =>
       /\ pc \in {"parse", "bind", "diff", "undisclosed"} => Accepted
       /\ pc = "parse" => i =< Len(entries) + 1 /\ steps = ReadTo(entries, parser, i - 1)
       /\ pc \in {"bind", "diff", "undisclosed"} => steps = parseSteps(entries, parser)
       /\ pc = "diff" =>
            findings = PushedTo(Judgements, i - 1) /\ matches + Len(findings) = i - 1
       /\ pc = "undisclosed" =>
            /\ IsSequence(Pushed(Judgements)) /\ IsSequence(PushedTo(Reproaches, i - 1))
            /\ findings = Pushed(Judgements) \o PushedTo(Reproaches, i - 1)
            /\ matches + Len(Pushed(Judgements)) = Len(raw)
       /\ ~HashesDifferently =>
            /\ pc \in {"diff", "undisclosed"} => bound = summaryBound(entries, summary)
            /\ pc = "done" => PythonResult = TypeScriptResult

LEMMA CallAlike ==
  ASSUME ValuesAreApart, BuiltInParsers, DiffInv, BindInv, SettledInv, PortInv,
         NEW args \in Arguments, Call(args[1], args[2], args[3], args[4]), given' = args
  PROVE  PortInv'
<1> DEFINE asked == OrEmpty(args[1])
<1>1. /\ pc = "idle" /\ parser' = args[2] /\ summary' = args[3] /\ given' = args
      /\ UNCHANGED <<entries, i, steps>> /\ steps = <<>> /\ i = 1 /\ raw' = asked
  BY DEF Call, PortInv, raw
<1>2. \A n \in DOMAIN entries' : entries'[n] \in Entry
  BY <1>1 DEF PortInv
<1>3. pc' \in {"parse", "done"}
  BY DEF Call, Malformed
<1>4. args[2] # "custom" /\ IsSequence(entries) /\ args[4] \in BOOLEAN
  BY ArgumentsAssumption DEF IsCall, BuiltInParsers, BindInv
<1> SUFFICES ASSUME Alike'
             PROVE  /\ pc' = "parse" =>
                         /\ Accepted'
                         /\ (i =< Len(entries) + 1 /\ steps = ReadTo(entries, parser, i - 1))'
                    /\ pc' = "done" => PythonResult' = TypeScriptResult'
  BY <1>1, <1>2, <1>3 DEF PortInv
<1>5. /\ args[2] \notin Inherited
      /\ \A n \in DOMAIN entries : entries[n] # None => ReadsAlike(entries[n])
  <2>1. \A n \in DOMAIN entries : entries[n] # None => entries[n] \in Logged'
    BY <1>1 DEF Logged
  <2> QED
    BY <2>1, <1>1
       DEF Alike, NamesAnInheritedOne, ReadsDifferently, ReadsAlike, PortInv
<1>6. ASSUME args[1] # NoList
      PROVE  /\ IsSequence(asked)
             /\ \A k \in DOMAIN asked :
                  /\ Normalizes(asked[k]) <=> WellFormed(asked[k])
                  /\ WellFormed(asked[k]) => _normalized(asked[k]) = Normal(asked[k])
  <2>1. IsSequence(asked) /\ \A k \in DOMAIN asked : IsRawClaim(asked[k])
    BY <1>6, ListedClaims
  <2>2. \A k \in DOMAIN asked : asked[k] # None => asked[k] \in Claimed'
    BY <1>1, <1>6 DEF Claimed
  <2>3. \A k \in DOMAIN asked : asked[k] # None => ClaimReadsAlike(asked[k])
    BY <2>2 DEF Alike, NamesAnInheritedOne, ReadsDifferently, ClaimReadsAlike
  <2> HIDE DEF asked
  <2> QED
    BY <2>1, <2>3, SameClaims
<1> DEFINE Fine == /\ args[1] # NoList
                   /\ \A k \in DOMAIN asked : WellFormed(asked[k])
                   /\ args[4]
                   /\ \A n \in DOMAIN entries : entries[n] # None
                   /\ args[2] \in KnownParser
<1>7. CASE Fine
  <2>1. pc' = "parse" /\ claims' = [k \in DOMAIN asked |-> _normalized(asked[k])]
    BY <1>7 DEF Call
  <2>2. claims' = Normalized'
    <3> HIDE DEF asked
    <3> QED
      BY <2>1, <1>1, <1>6, <1>7 DEF Normalized
  <2>3. args[2] \in {"auto", "sandbox", "harness"}
    BY <1>4, <1>7 DEF KnownParser
  <2>4. Accepted'
    <3> HIDE DEF asked
    <3> QED
      BY <2>2, <2>3, <1>1, <1>5, <1>6, <1>7 DEF Accepted
  <2>5. ReadTo(entries, args[2], 0) = <<>> /\ Len(entries) \in Nat
    <3>1. ReadTo(entries, args[2], 0) = <<>>
      BY <1>4, ReadEquations
    <3>2. Len(entries) \in Nat
      BY <1>4 DEF IsSequence
    <3> QED
      BY <3>1, <3>2
  <2>6. (i =< Len(entries) + 1 /\ steps = ReadTo(entries, parser, i - 1))'
    BY <2>5, <1>1
  <2> QED
    BY <2>1, <2>4, <2>6
<1>8. CASE ~Fine
  <2>1. Malformed /\ pc' = "done"
    BY <1>8 DEF Call, Malformed
  <2>2. Resolves(args[2]) => args[2] \in KnownParser
    BY <1>5 DEF Resolves, KnownParser
  <2>3. \/ args[1] = NoList
        \/ \E k \in DOMAIN asked : ~Normalizes(asked[k])
        \/ ~args[4]
        \/ \E n \in DOMAIN entries : entries[n] = None
        \/ ~Resolves(args[2])
    <3> HIDE DEF asked
    <3> QED
      BY <2>2, <1>6, <1>8
  <2>4. TypeScriptResult' = reconcile(args[1], entries, args[2], args[3], args[4])
    BY <1>1 DEF TypeScriptResult
  <2>5. TypeScriptResult' = errorResult
    BY <2>3, <2>4 DEF reconcile
  <2>6. PythonResult' = errorResult
    BY <2>1 DEF PythonResult, errorResult, Malformed
  <2> QED
    BY <2>1, <2>5, <2>6
<1> QED
  BY <1>7, <1>8

(* While both the arguments and the chain stay, so do what is alike and     *)
(* what the port makes of them.                                             *)
LEMMA SameInputs ==
  ASSUME UNCHANGED <<given, entries, parser, summary>>
  PROVE  /\ Alike' <=> Alike
         /\ Normalized' = Normalized /\ raw' = raw
         /\ claims' = claims => (Accepted' <=> Accepted)
         /\ steps' = steps => Judgements' = Judgements /\ Reproaches' = Reproaches
         /\ found' = found => (HashesDifferently' <=> HashesDifferently)
         /\ TypeScriptResult' = TypeScriptResult
<1>1. Alike' <=> Alike
  BY DEF Alike, NamesAnInheritedOne, ReadsDifferently, Claimed, Logged
<1>2. Normalized' = Normalized /\ raw' = raw
  BY DEF Normalized, raw
<1>3. claims' = claims => (Accepted' <=> Accepted)
  BY <1>2 DEF Accepted
<1>4. steps' = steps => Judgements' = Judgements /\ Reproaches' = Reproaches
  BY <1>2 DEF Judgements, Reproaches
<1>5. found' = found => (HashesDifferently' <=> HashesDifferently)
  BY DEF HashesDifferently
<1> QED
  BY <1>1, <1>2, <1>3, <1>4, <1>5 DEF TypeScriptResult

LEMMA EntryAlike ==
  ASSUME ValuesAreApart, DiffInv, BindInv, PortInv, ParseEntry, UNCHANGED given
  PROVE  PortInv'
<1>1. /\ pc = "parse" /\ i =< Len(entries)
      /\ UNCHANGED <<given, entries, claims, parser, summary>>
  BY DEF ParseEntry, arguments
<1>2. /\ i \in Nat \ {0} /\ Len(entries) \in Nat /\ DOMAIN entries = 1 .. Len(entries)
      /\ IsSequence(entries) /\ IsSequence(steps)
  BY DEF DiffInv, BindInv, IsSequence
<1>3. \A n \in DOMAIN entries' : entries'[n] \in Entry
  BY <1>1 DEF PortInv
<1>4. CASE Alike
  <2>1. Accepted /\ steps = ReadTo(entries, parser, i - 1)
    BY <1>1, <1>4 DEF PortInv
  <2>2. ReadsAlike(entries[i]) /\ parser \in {"auto", "sandbox", "harness"}
    BY <2>1, <1>1, <1>2 DEF Accepted
  <2> DEFINE s == Parse(parser, entries[i], Len(steps))
  <2>3. Parsed(entries[i], Ordinal) = {s} /\ s # Raise
    BY <2>2, SameReading DEF Ordinal
  <2> HIDE DEF s
  <2>4. /\ steps' = IF s = None THEN steps ELSE Append(steps, s)
        /\ i' = i + 1 /\ pc' = "parse"
    BY <2>3, <1>1 DEF ParseEntry
  <2>5. steps # Raise
    BY <1>2 DEF ValuesAreApart
  <2>6. steps' = ReadOne(parser, ReadTo(entries, parser, i - 1), entries[i])
    BY <2>1, <2>3, <2>4, <2>5 DEF ReadOne, s
  <2>7. i - 1 \in 0 .. Len(entries) - 1 /\ (i - 1) + 1 = i /\ i' - 1 = i
    BY <1>1, <1>2, <2>4
  <2>8. ReadTo(entries, parser, (i - 1) + 1)
          = ReadOne(parser, ReadTo(entries, parser, i - 1), entries[(i - 1) + 1])
    BY <2>7, <1>2, ReadEquations
  <2>9. steps' = ReadTo(entries', parser', i' - 1) /\ i' =< Len(entries') + 1
    <3>1. ReadTo(entries, parser, i)
            = ReadOne(parser, ReadTo(entries, parser, i - 1), entries[i])
      BY <2>7, <2>8
    <3>2. steps' = ReadTo(entries', parser', i' - 1)
      BY <3>1, <2>6, <2>7, <1>1
    <3>3. i' =< Len(entries') + 1
      BY <2>4, <1>1, <1>2
    <3> QED
      BY <3>2, <3>3
  <2>10. Accepted'
    BY <2>1, <1>1, SameInputs
  <2> QED
    BY <2>4, <2>9, <2>10, <1>1, <1>3 DEF PortInv
<1>5. CASE ~Alike
  <2>1. pc' \in {"parse", "done"}
    BY <1>1 DEF ParseEntry, Malformed
  <2>2. ~Alike'
    BY <1>1, <1>5, SameInputs
  <2> QED
    BY <2>1, <2>2, <1>3 DEF PortInv
<1> QED
  BY <1>4, <1>5

LEMMA ListOfResults ==
  ASSUME NEW list, IsSequence(list), NEW f, f = [k \in DOMAIN list |-> f[k]]
  PROVE  IsSequence(f) /\ Len(f) = Len(list) /\ Len(list) \in Nat
         /\ DOMAIN f = 1 .. Len(list) /\ DOMAIN list = 1 .. Len(list)
<1>1. Len(list) \in Nat /\ DOMAIN list = 1 .. Len(list)
  BY DEF IsSequence
<1>2. f \in Seq({f[k] : k \in DOMAIN f})
  BY <1>1
<1> QED
  BY <1>1, <1>2 DEF IsSequence

LEMMA JudgementsAndReproaches ==
  ASSUME IsSequence(raw), IsSequence(steps)
  PROVE  /\ IsSequence(Judgements) /\ Len(Judgements) = Len(raw)
         /\ IsSequence(Reproaches) /\ Len(Reproaches) = Len(steps)
         /\ Len(raw) \in Nat /\ Len(steps) \in Nat
         /\ DOMAIN raw = 1 .. Len(raw) /\ DOMAIN steps = 1 .. Len(steps)
<1>1. IsSequence(Judgements) /\ Len(Judgements) = Len(raw)
      /\ Len(raw) \in Nat /\ DOMAIN raw = 1 .. Len(raw)
  <2>1. Judgements = [k \in DOMAIN raw |-> Judgements[k]]
    BY DEF Judgements
  <2> QED
    BY <2>1, ListOfResults
<1>2. IsSequence(Reproaches) /\ Len(Reproaches) = Len(steps)
      /\ Len(steps) \in Nat /\ DOMAIN steps = 1 .. Len(steps)
  <2>1. Reproaches = [n \in DOMAIN steps |-> Reproaches[n]]
    BY DEF Reproaches
  <2> QED
    BY <2>1, ListOfResults
<1> QED
  BY <1>1, <1>2

LEMMA EndParseAlike ==
  ASSUME ValuesAreApart, DiffInv, BindInv, SettledInv, PortInv, EndParse, UNCHANGED given
  PROVE  PortInv'
<1>1. /\ pc = "parse" /\ i > Len(entries) /\ i' = 1
      /\ pc' = IF summary = None THEN "diff" ELSE "bind"
      /\ UNCHANGED <<given, entries, claims, parser, summary, steps, findings, matches, bound>>
  BY DEF EndParse, arguments, results
<1>2. /\ i \in Nat \ {0} /\ Len(entries) \in Nat
      /\ IsSequence(entries) /\ IsSequence(steps)
  BY DEF DiffInv, BindInv, IsSequence
<1>3. \A n \in DOMAIN entries' : entries'[n] \in Entry
  BY <1>1 DEF PortInv
<1>4. CASE Alike
  <2>1. Accepted /\ i =< Len(entries) + 1 /\ steps = ReadTo(entries, parser, i - 1)
    BY <1>1, <1>4 DEF PortInv
  <2>2. i - 1 = Len(entries)
    BY <2>1, <1>1, <1>2
  <2>3. parseSteps(entries, parser) = ReadTo(entries, parser, Len(entries))
    BY <1>2, ReadEquations
  <2>4. steps' = parseSteps(entries', parser')
    BY <2>1, <2>2, <2>3, <1>1
  <2>5. Accepted'
    BY <2>1, <1>1, SameInputs
  <2>6. findings = <<>> /\ matches = 0 /\ bound = None
    BY <1>1 DEF SettledInv
  <2>7. summary = None => bound' = summaryBound(entries', summary')
    BY <2>6, <1>1 DEF summaryBound
  <2>8. PushedTo(Judgements, 0) = <<>>
    BY <2>1, <1>2, JudgementsAndReproaches, PushEquations DEF Accepted
  <2>9. (findings = PushedTo(Judgements, i - 1) /\ matches + Len(findings) = i - 1)'
    <3>1. Judgements' = Judgements
      BY <1>1, SameInputs
    <3> QED
      BY <3>1, <2>6, <2>8, <1>1
  <2> QED
    BY <2>4, <2>5, <2>7, <2>9, <1>1, <1>3 DEF PortInv
<1>5. CASE ~Alike
  <2>1. ~Alike'
    BY <1>1, <1>5, SameInputs
  <2> QED
    BY <2>1, <1>1, <1>3 DEF PortInv
<1> QED
  BY <1>4, <1>5

LEMMA BindAlike ==
  ASSUME PortInv, BindEntry, UNCHANGED given
  PROVE  PortInv'
<1>1. pc = "bind" /\ pc' = "bind"
      /\ UNCHANGED <<given, entries, claims, parser, summary, steps>>
  BY DEF BindEntry, arguments
<1>2. /\ Alike' <=> Alike
      /\ Accepted' <=> Accepted
  BY <1>1, SameInputs
<1>3. /\ \A n \in DOMAIN entries' : entries'[n] \in Entry
      /\ Alike => steps' = parseSteps(entries', parser')
  BY <1>1 DEF PortInv
<1> QED
  BY <1>1, <1>2, <1>3 DEF PortInv

(* Both take the digest of the last closing entry.                          *)
LEMMA SameDigest ==
  ASSUME IsSequence(entries), \A n \in DOMAIN entries : entries[n] # None,
         FoundAt(Len(entries)), summary # None, summary = given[3], ~HashesDifferently
  PROVE  summaryBound(entries, summary)
           = IF found = None THEN None
             ELSE IF summary \notin DOMAIN DigestOf THEN Raise
             ELSE Commits(found, summary)
<1> DEFINE closing == {n \in DOMAIN entries : entries[n].form = "completed"}
           sha == IF closing = {} THEN None ELSE entries[Max(closing)].summary_sha256
<1>1. /\ Len(entries) \in Nat /\ DOMAIN entries = 1 .. Len(entries)
  BY DEF IsSequence
<1>2. Upto(Len(entries)) = closing
  BY <1>1 DEF Upto, Completed
<1>3. sha = found
  <2>1. CASE closing = {}
    BY <2>1, <1>2 DEF FoundAt
  <2>2. CASE closing # {}
    <3>1. PICK last \in closing : /\ \A m \in closing : m =< last
                                  /\ found = entries[last].summary_sha256
      <4> HIDE DEF closing
      <4> QED
        BY <2>2, <1>2 DEF FoundAt, IsLast
    <3>2. \A m \in closing : m \in Int
      BY <1>1
    <3> DEFINE most == Max(closing)
    <3>3. most \in closing /\ \A m \in closing : most >= m
      <4> HIDE DEF closing
      <4>1. \E l \in closing : \A m \in closing : l >= m
        BY <3>1, <3>2
      <4> QED
        BY <4>1 DEF Max
    <3> HIDE DEF closing, most
    <3>4. most = last
      BY <3>1, <3>2, <3>3
    <3> QED
      BY <3>1, <3>4, <2>2 DEF most
  <2> QED
    BY <2>1, <2>2
<1> HIDE DEF closing
<1>4. Commits(found, summary)
        = (found \in {bind_summary(summary, "base64"), bind_summary(summary, "hex")})
  <2>1. Commits(found, summary)
          <=> found \in {bind_summary(summary, "base64"), bind_summary(summary, "hex")}
    BY DEF Commits
  <2>2. Commits(found, summary) \in BOOLEAN
        /\ (found \in {bind_summary(summary, "base64"), bind_summary(summary, "hex")})
             \in BOOLEAN
    BY DEF Commits
  <2> QED
    BY <2>1, <2>2
<1>5. found # None =>
        /\ summary \in DOMAIN JSDigestOf <=> summary \in DOMAIN DigestOf
        /\ summary \in DOMAIN DigestOf =>
             \A enc : bindSummary(summary, enc) = bind_summary(summary, enc)
  BY DEF HashesDifferently, bindSummary, bind_summary
<1>6. summaryBound(entries, summary)
        = IF summary = None \/ sha = None THEN None
          ELSE IF summary \notin DOMAIN JSDigestOf THEN Raise
          ELSE sha \in {bindSummary(summary, "base64"), bindSummary(summary, "hex")}
  BY DEF summaryBound, closing
<1> QED
  BY <1>3, <1>4, <1>5, <1>6

LEMMA EndBindAlike ==
  ASSUME ValuesAreApart, DiffInv, BindInv, SettledInv, PortInv, EndBind, UNCHANGED given
  PROVE  PortInv'
<1>1. /\ pc = "bind" /\ i > Len(entries)
      /\ UNCHANGED <<given, entries, claims, parser, summary, steps, found>>
  BY DEF EndBind, arguments
<1>2. /\ i \in Nat \ {0} /\ Len(entries) \in Nat /\ i =< Len(entries) + 1
      /\ IsSequence(entries) /\ IsSequence(steps) /\ FoundAt(i - 1)
      /\ \A n \in DOMAIN entries : entries[n] # None
  BY <1>1 DEF DiffInv, BindInv, IsSequence
<1>3. \A n \in DOMAIN entries' : entries'[n] \in Entry
  BY <1>1 DEF PortInv
<1>4. findings = <<>> /\ matches = 0 /\ bound = None
  BY <1>1 DEF SettledInv
<1>5. CASE Alike
  <2>1. Accepted /\ steps = parseSteps(entries, parser)
    BY <1>1, <1>5 DEF PortInv
  <2>2. i - 1 = Len(entries) /\ FoundAt(Len(entries))
    <3>1. i - 1 = Len(entries)
      BY <1>1, <1>2
    <3> QED
      BY <3>1, <1>2
  <2>3. ~HashesDifferently =>
          summaryBound(entries, summary)
            = IF found = None THEN None
              ELSE IF summary \notin DOMAIN DigestOf THEN Raise
              ELSE Commits(found, summary)
    BY <2>1, <2>2, <1>1, <1>2, SameDigest DEF PortInv, Accepted
  <2>4. Alike' /\ (HashesDifferently' <=> HashesDifferently)
    BY <1>1, <1>5, SameInputs
  <2>5. CASE found # None /\ summary \notin DOMAIN DigestOf
    <3>1. Malformed
      BY <2>5 DEF EndBind
    <3>2. ~HashesDifferently => TypeScriptResult = errorResult
      BY <2>1, <2>3, <2>5 DEF TypeScriptResult, reconcile, Accepted
    <3>3. ~HashesDifferently => TypeScriptResult' = errorResult
      BY <3>2, <1>1, SameInputs
    <3>4. PythonResult' = errorResult /\ pc' = "done"
      BY <3>1 DEF PythonResult, errorResult, Malformed
    <3> QED
      BY <3>3, <3>4, <2>4, <1>3 DEF PortInv
  <2>6. CASE ~(found # None /\ summary \notin DOMAIN DigestOf)
    <3>1. /\ bound' = IF found = None THEN None ELSE Commits(found, summary)
          /\ pc' = "diff" /\ i' = 1 /\ UNCHANGED <<findings, matches>>
      BY <2>6 DEF EndBind
    <3>2. ~HashesDifferently => bound' = summaryBound(entries', summary')
      BY <3>1, <2>3, <2>6, <1>1
    <3>3. Accepted'
      BY <2>1, <1>1, SameInputs
    <3>4. PushedTo(Judgements, 0) = <<>>
      BY <2>1, <1>2, JudgementsAndReproaches, PushEquations DEF Accepted
    <3>5. (findings = PushedTo(Judgements, i - 1) /\ matches + Len(findings) = i - 1)'
      <4>1. Judgements' = Judgements
        BY <1>1, SameInputs
      <4> QED
        BY <4>1, <3>1, <3>4, <1>4
    <3>6. steps' = parseSteps(entries', parser')
      BY <2>1, <1>1
    <3> QED
      BY <3>1, <3>2, <3>3, <3>5, <3>6, <2>4, <1>3 DEF PortInv
  <2> QED
    BY <2>5, <2>6
<1>6. CASE ~Alike
  <2>1. pc' \in {"diff", "done"}
    BY DEF EndBind, Malformed
  <2>2. ~Alike'
    BY <1>1, <1>6, SameInputs
  <2> QED
    BY <2>1, <2>2, <1>3 DEF PortInv
<1> QED
  BY <1>5, <1>6

LEMMA AcceptedClaims ==
  ASSUME Accepted
  PROVE  Len(claims) = Len(raw)
<1>1. claims = [k \in DOMAIN raw |-> claims[k]] /\ IsSequence(raw)
  BY DEF Accepted, Normalized
<1> QED
  BY <1>1, ListOfResults

LEMMA ClaimAlike ==
  ASSUME ValuesAreApart, DiffInv, SettledInv, PortInv, DiffClaim, UNCHANGED given,
         matches \in Nat
  PROVE  PortInv'
<1>1. /\ pc = "diff" /\ pc' = "diff" /\ i =< Len(claims) /\ i' = i + 1
      /\ UNCHANGED <<given, found, entries, claims, parser, summary, steps, bound>>
  BY DEF DiffClaim, arguments
<1>2. /\ i \in Nat \ {0} /\ IsSequence(steps) /\ IsSequence(claims) /\ IsSequence(findings)
      /\ Len(findings) \in Nat
  BY DEF DiffInv, IsSequence
<1>3. \A n \in DOMAIN entries' : entries'[n] \in Entry
  BY <1>1 DEF PortInv
<1>4. /\ Alike' <=> Alike
      /\ HashesDifferently' <=> HashesDifferently
  BY <1>1, SameInputs
<1>5. CASE Alike
  <2>1. /\ Accepted /\ steps = parseSteps(entries, parser)
        /\ ~HashesDifferently => bound = summaryBound(entries, summary)
        /\ findings = PushedTo(Judgements, i - 1) /\ matches + Len(findings) = i - 1
    BY <1>1, <1>5 DEF PortInv
  <2>2. /\ IsSequence(Judgements) /\ Len(Judgements) = Len(raw)
        /\ Len(raw) \in Nat /\ DOMAIN raw = 1 .. Len(raw)
    BY <2>1, <1>2, JudgementsAndReproaches DEF Accepted
  <2>3. Len(claims) = Len(raw)
    BY <2>1, AcceptedClaims
  <2> DEFINE c == claims[i]
             s == by_index(c.step)
             f == Judge(c, steps)
  <2>4. Judgements[i] = f
    BY <2>1, <2>2, <2>3, <1>1, <1>2 DEF Judgements, Accepted
  <2>5. findings' = Push(findings, f) /\ matches' + Len(findings') = i
    <3>1. \A x : Len(Append(findings, x)) = Len(findings) + 1
      BY <1>2, LongerSequence
    <3>2. CASE Missing(c, s)
      <4>1. f = _finding("no_entry", c.step, c.counterparty, c.claimed, None)
        BY <3>2, <1>2, SameJudgement
      <4>2. f # None
        BY <4>1 DEF ValuesAreApart
      <4>3. findings' = Append(findings, f) /\ matches' = matches
        BY <3>2, <4>1 DEF DiffClaim
      <4> HIDE DEF f
      <4>4. Len(findings') = Len(findings) + 1
        BY <3>1, <4>3
      <4> QED
        BY <4>2, <4>3, <4>4, <2>1, <1>2 DEF Push
    <3>3. CASE ~Missing(c, s) /\ Contradicted(c, s)
      <4>1. f = _finding("contradicted", s.step, s.counterparty, c.claimed, s.status)
        BY <3>3, <1>2, SameJudgement
      <4>2. f # None
        BY <4>1 DEF ValuesAreApart
      <4>3. findings' = Append(findings, f) /\ matches' = matches
        BY <3>3, <4>1 DEF DiffClaim
      <4> HIDE DEF f
      <4>4. Len(findings') = Len(findings) + 1
        BY <3>1, <4>3
      <4> QED
        BY <4>2, <4>3, <4>4, <2>1, <1>2 DEF Push
    <3>4. CASE ~Missing(c, s) /\ ~Contradicted(c, s)
      <4>1. f = None
        BY <3>4, <1>2, SameJudgement
      <4>2. findings' = findings /\ matches' = matches + 1
        BY <3>4 DEF DiffClaim
      <4> HIDE DEF f
      <4> QED
        BY <4>1, <4>2, <2>1, <1>2 DEF Push
    <3> QED
      BY <3>2, <3>3, <3>4
  <2> HIDE DEF c, s, f
  <2>6. i - 1 \in 0 .. Len(Judgements) - 1 /\ (i - 1) + 1 = i /\ i' - 1 = i
    BY <1>1, <1>2, <2>2, <2>3
  <2>7. PushedTo(Judgements, (i - 1) + 1)
          = Push(PushedTo(Judgements, i - 1), Judgements[(i - 1) + 1])
    BY <2>2, <2>6, PushEquations
  <2>8. PushedTo(Judgements, i) = Push(PushedTo(Judgements, i - 1), Judgements[i])
    BY <2>6, <2>7
  <2>9. Judgements' = Judgements /\ Accepted'
    BY <1>1, <2>1, SameInputs
  <2>10. (findings = PushedTo(Judgements, i - 1) /\ matches + Len(findings) = i - 1)'
    BY <2>1, <2>4, <2>5, <2>6, <2>8, <2>9
  <2>11. (/\ steps = parseSteps(entries, parser)
          /\ ~HashesDifferently => bound = summaryBound(entries, summary))'
    BY <1>1, <1>4, <2>1
  <2> QED
    BY <2>9, <2>10, <2>11, <1>1, <1>3 DEF PortInv
<1>6. CASE ~Alike
  BY <1>1, <1>3, <1>4, <1>6 DEF PortInv
<1> QED
  BY <1>5, <1>6

LEMMA EndClaimsAlike ==
  ASSUME DiffInv, PortInv, EndClaims, UNCHANGED given
  PROVE  PortInv'
<1>1. /\ pc = "diff" /\ pc' = "undisclosed" /\ i > Len(claims) /\ i' = 1
      /\ UNCHANGED <<given, found, entries, claims, parser, summary, steps, findings, matches, bound>>
  BY DEF EndClaims, arguments, results
<1>2. /\ i \in Nat \ {0} /\ i =< Len(claims) + 1 /\ IsSequence(steps)
      /\ IsSequence(claims) /\ IsSequence(findings)
  BY <1>1 DEF DiffInv
<1>3. \A n \in DOMAIN entries' : entries'[n] \in Entry
  BY <1>1 DEF PortInv
<1>4. /\ Alike' <=> Alike
      /\ HashesDifferently' <=> HashesDifferently
  BY <1>1, SameInputs
<1>5. CASE Alike
  <2>1. /\ Accepted /\ steps = parseSteps(entries, parser)
        /\ ~HashesDifferently => bound = summaryBound(entries, summary)
        /\ findings = PushedTo(Judgements, i - 1) /\ matches + Len(findings) = i - 1
    BY <1>1, <1>5 DEF PortInv
  <2>2. /\ IsSequence(Judgements) /\ Len(Judgements) = Len(raw)
        /\ IsSequence(Reproaches)
        /\ Len(raw) \in Nat /\ DOMAIN raw = 1 .. Len(raw)
    BY <2>1, <1>2, JudgementsAndReproaches DEF Accepted
  <2>3. i - 1 = Len(raw)
    BY <2>1, <2>2, <1>1, <1>2, AcceptedClaims
  <2>4. findings = Pushed(Judgements) /\ matches + Len(Pushed(Judgements)) = Len(raw)
    <3>1. Pushed(Judgements) = PushedTo(Judgements, Len(Judgements))
      BY <2>2, PushEquations
    <3> QED
      BY <3>1, <2>1, <2>2, <2>3
  <2>5. PushedTo(Reproaches, 0) = <<>>
    BY <2>2, PushEquations
  <2>6. findings = Pushed(Judgements) \o PushedTo(Reproaches, 0)
    <3>1. findings \in Seq({findings[k] : k \in DOMAIN findings})
      BY <1>2 DEF IsSequence
    <3>2. findings \o <<>> = findings
      BY <3>1
    <3> QED
      BY <3>2, <2>4, <2>5
  <2>7. Judgements' = Judgements /\ Reproaches' = Reproaches
         /\ Accepted' /\ raw' = raw
    BY <1>1, <2>1, SameInputs
  <2>8. (/\ IsSequence(Pushed(Judgements)) /\ IsSequence(PushedTo(Reproaches, i - 1))
         /\ findings = Pushed(Judgements) \o PushedTo(Reproaches, i - 1)
         /\ matches + Len(Pushed(Judgements)) = Len(raw))'
    <3>1. IsSequence(Pushed(Judgements))
      BY <2>4, <1>2
    <3>2. IsSequence(PushedTo(Reproaches, 0))
      BY <2>5, EmptySequence
    <3>3. i' - 1 = 0
      BY <1>1
    <3> QED
      BY <3>1, <3>2, <3>3, <2>4, <2>6, <2>7, <1>1
  <2>9. (/\ steps = parseSteps(entries, parser)
          /\ ~HashesDifferently => bound = summaryBound(entries, summary))'
    BY <1>1, <1>4, <2>1
  <2> QED
    BY <2>7, <2>8, <2>9, <1>1, <1>3, <1>4 DEF PortInv
<1>6. CASE ~Alike
  BY <1>1, <1>3, <1>4, <1>6 DEF PortInv
<1> QED
  BY <1>5, <1>6

(* A step is reproached exactly if it is undisclosed.                       *)
LEMMA SameReproach ==
  ASSUME ValuesAreApart, NEW s, NEW indices
  PROVE  /\ Undisclosed(s, indices) =>
              /\ Reproach(s, indices)
                   = _finding("undisclosed", s.step, s.counterparty, None, s.status)
              /\ Reproach(s, indices) # None
         /\ ~Undisclosed(s, indices) => Reproach(s, indices) = None
<1>1. \A f : f = _finding("undisclosed", s.step, s.counterparty, None, s.status) => f # None
  BY DEF ValuesAreApart
<1> QED
  BY <1>1 DEF Undisclosed, REFUSALS, Reproach

LEMMA SameMentioned ==
  ASSUME Accepted
  PROVE  Mentioned(Len(claims) + 1) = {Normalized[k].step : k \in DOMAIN raw}
<1>1. Len(claims) = Len(raw) /\ Len(raw) \in Nat /\ DOMAIN raw = 1 .. Len(raw)
  BY AcceptedClaims DEF Accepted, IsSequence
<1>2. 1 .. (Len(claims) + 1) - 1 = DOMAIN raw
  BY <1>1
<1>3. claims = Normalized
  BY DEF Accepted
<1> QED
  BY <1>2, <1>3 DEF Mentioned

LEMMA StepAlike ==
  ASSUME ValuesAreApart, DiffInv, PortInv, DiffStep, UNCHANGED given
  PROVE  PortInv'
<1>1. /\ pc = "undisclosed" /\ pc' = "undisclosed" /\ i =< Len(steps) /\ i' = i + 1
      /\ UNCHANGED <<given, found, entries, claims, parser, summary, steps, matches, bound>>
  BY DEF DiffStep, arguments
<1>2. /\ i \in Nat \ {0} /\ IsSequence(steps) /\ mentioned = Mentioned(Len(claims) + 1)
  BY <1>1 DEF DiffInv
<1>3. \A n \in DOMAIN entries' : entries'[n] \in Entry
  BY <1>1 DEF PortInv
<1>4. /\ Alike' <=> Alike
      /\ HashesDifferently' <=> HashesDifferently
  BY <1>1, SameInputs
<1>5. CASE Alike
  <2> DEFINE before == Pushed(Judgements)
             so_far == PushedTo(Reproaches, i - 1)
             f == Reproach(steps[i], mentioned)
  <2>1. /\ Accepted /\ steps = parseSteps(entries, parser)
        /\ ~HashesDifferently => bound = summaryBound(entries, summary)
        /\ IsSequence(before) /\ IsSequence(so_far)
        /\ findings = before \o so_far
        /\ matches + Len(before) = Len(raw)
    BY <1>1, <1>5 DEF PortInv
  <2>2. /\ IsSequence(Reproaches) /\ Len(Reproaches) = Len(steps)
        /\ Len(steps) \in Nat /\ DOMAIN steps = 1 .. Len(steps)
    BY <2>1, <1>2, JudgementsAndReproaches DEF Accepted
  <2>3. Reproaches[i] = f
    <3>1. mentioned = {Normalized[k].step : k \in DOMAIN raw}
      BY <2>1, <1>2, SameMentioned
    <3>2. i \in DOMAIN steps
      BY <2>2, <1>1, <1>2
    <3> QED
      BY <3>1, <3>2 DEF Reproaches
  <2>4. findings' = IF f = None THEN findings ELSE Append(findings, f)
    BY SameReproach DEF DiffStep
  <2>5. i - 1 \in 0 .. Len(Reproaches) - 1 /\ (i - 1) + 1 = i /\ i' - 1 = i
    BY <1>1, <1>2, <2>2
  <2>6. PushedTo(Reproaches, (i - 1) + 1)
          = Push(PushedTo(Reproaches, i - 1), Reproaches[(i - 1) + 1])
    BY <2>2, <2>5, PushEquations
  <2>7. PushedTo(Reproaches, i) = Push(so_far, f)
    BY <2>3, <2>5, <2>6
  <2>8. before \o Append(so_far, f) = Append(before \o so_far, f)
    <3> HIDE DEF before, so_far, f
    <3> DEFINE S == {before[k] : k \in DOMAIN before} \cup {so_far[k] : k \in DOMAIN so_far}
                    \cup {f}
    <3>1. before \in Seq(S) /\ so_far \in Seq(S) /\ f \in S
      BY <2>1 DEF IsSequence
    <3> HIDE DEF S
    <3> QED
      BY <3>1
  <2>9. IsSequence(Push(so_far, f)) /\ findings' = before \o Push(so_far, f)
    <3> HIDE DEF before, so_far, f
    <3> QED
      BY <2>1, <2>4, <2>8, LongerSequence DEF Push
  <2>10. Judgements' = Judgements /\ Reproaches' = Reproaches
         /\ Accepted' /\ raw' = raw
    BY <1>1, <2>1, SameInputs
  <2>11. (/\ IsSequence(Pushed(Judgements)) /\ IsSequence(PushedTo(Reproaches, i - 1))
          /\ findings = Pushed(Judgements) \o PushedTo(Reproaches, i - 1)
          /\ matches + Len(Pushed(Judgements)) = Len(raw))'
    <3>1. PushedTo(Reproaches', i' - 1) = Push(so_far, f)
      BY <2>5, <2>7, <2>10
    <3> HIDE DEF so_far, f
    <3> QED
      BY <3>1, <2>1, <2>9, <2>10, <1>1
  <2>12. (/\ steps = parseSteps(entries, parser)
          /\ ~HashesDifferently => bound = summaryBound(entries, summary))'
    BY <1>1, <1>4, <2>1
  <2> QED
    BY <2>10, <2>11, <2>12, <1>1, <1>3 DEF PortInv
<1>6. CASE ~Alike
  BY <1>1, <1>3, <1>4, <1>6 DEF PortInv
<1> QED
  BY <1>5, <1>6

LEMMA ReturnAlike ==
  ASSUME ValuesAreApart, DiffInv, SettledInv, PortInv, Return, UNCHANGED given,
         matches \in Nat, bound # Raise
  PROVE  PortInv'
<1>1. /\ pc = "undisclosed" /\ pc' = "done" /\ i > Len(steps)
      /\ UNCHANGED <<given, found, entries, claims, parser, summary, steps, findings, matches,
                     bound, error>>
  BY DEF Return, arguments, results
<1>2. /\ i \in Nat \ {0} /\ i =< Len(steps) + 1 /\ IsSequence(steps) /\ error = FALSE
  <2>1. error = FALSE
    BY <1>1 DEF SettledInv
  <2> QED
    BY <2>1, <1>1 DEF DiffInv
<1>3. \A n \in DOMAIN entries' : entries'[n] \in Entry
  BY <1>1 DEF PortInv
<1>4. /\ Alike' <=> Alike
      /\ HashesDifferently' <=> HashesDifferently
  BY <1>1, SameInputs
<1>5. CASE Alike
  <2> DEFINE refuted == Pushed(Judgements)
  <2>1. /\ Accepted /\ steps = parseSteps(entries, parser)
        /\ ~HashesDifferently => bound = summaryBound(entries, summary)
        /\ IsSequence(refuted)
        /\ findings = refuted \o PushedTo(Reproaches, i - 1)
        /\ matches + Len(refuted) = Len(raw)
    BY <1>1, <1>5 DEF PortInv
  <2>2. /\ IsSequence(Reproaches) /\ Len(Reproaches) = Len(steps)
        /\ Len(steps) \in Nat /\ Len(raw) \in Nat
    BY <2>1, <1>2, JudgementsAndReproaches DEF Accepted
  <2>3. findings = refuted \o Pushed(Reproaches)
    <3>1. Pushed(Reproaches) = PushedTo(Reproaches, Len(Reproaches))
      BY <2>2, PushEquations
    <3>2. i - 1 = Len(Reproaches)
      BY <1>1, <1>2, <2>2
    <3> QED
      BY <2>1, <3>1, <3>2
  <2>4. matches = Len(raw) - Len(refuted)
    <3>1. Len(refuted) \in Nat
      BY <2>1 DEF IsSequence
    <3> HIDE DEF refuted
    <3> QED
      BY <3>1, <2>1, <2>2
  <2>5. /\ given[1] # NoList /\ given[4] /\ parser = given[2] /\ summary = given[3]
        /\ \A k \in DOMAIN raw : Normalizes(raw[k])
        /\ \A n \in DOMAIN entries : entries[n] # None
        /\ Resolves(parser)
    BY <2>1 DEF Accepted, ReadsAlike, Resolves
  <2> SUFFICES ASSUME ~HashesDifferently PROVE PythonResult' = TypeScriptResult'
    BY <1>1, <1>3, <1>4 DEF PortInv
  <2>6. parseSteps(entries, parser) # Raise /\ summaryBound(entries, summary) # Raise
    BY <2>1, <1>2 DEF ValuesAreApart
  <2>7. TypeScriptResult
          = [error |-> FALSE, findings |-> refuted \o Pushed(Reproaches),
             matches |-> Len(raw) - Len(refuted), bound |-> bound]
    BY <2>1, <2>5, <2>6 DEF TypeScriptResult, reconcile, Judgements, Reproaches, Normalized, raw
  <2>8. PythonResult = TypeScriptResult
    BY <2>3, <2>4, <2>7, <1>2 DEF PythonResult
  <2>9. PythonResult' = PythonResult /\ TypeScriptResult' = TypeScriptResult
    BY <1>1, SameInputs DEF PythonResult
  <2> QED
    BY <2>8, <2>9
<1>6. CASE ~Alike
  BY <1>1, <1>3, <1>4, <1>6 DEF PortInv
<1> QED
  BY <1>5, <1>6

LEMMA PortInvHolds ==
  ASSUME ValuesAreApart, BuiltInParsers
  PROVE  PortSpec => []PortInv
<1>1. PortSpec => Spec
  <2>1. PortInit => Init
    BY DEF PortInit
  <2>2. [PortNext]_portVars => [Next]_vars
    BY DEF PortNext, portVars, LogFirst, CallBoth, Run, Next, Calls
  <2> QED
    BY <2>1, <2>2, PTL DEF PortSpec, Spec
<1>2. PortInit => PortInv
  <2> SUFFICES ASSUME PortInit PROVE PortInv
    OBVIOUS
  <2>1. entries = <<>> /\ steps = <<>> /\ i = 1 /\ pc = "idle"
    BY DEF PortInit, Init
  <2> QED
    BY <2>1 DEF PortInv
<1>3. /\ PortInv /\ DiffInv /\ BindInv /\ SettledInv /\ TypeOK
      /\ [PortNext]_portVars
      => PortInv'
  <2> SUFFICES ASSUME PortInv, DiffInv, BindInv, SettledInv, TypeOK,
                      [PortNext]_portVars
               PROVE  PortInv'
    OBVIOUS
  <2>0. matches \in Nat /\ bound # Raise
    <3>1. matches \in 0 .. Len(claims) /\ bound \in BOOLEAN \cup {None}
      BY DEF TypeOK
    <3> QED
      BY <3>1 DEF ValuesAreApart
  <2>1. CASE UNCHANGED portVars
    <3>1. UNCHANGED <<given, found, entries, claims, parser, summary, steps, pc, i, findings, matches,
                     bound, error>>
      BY <2>1 DEF portVars, vars, arguments, results
    <3>2. PythonResult' = PythonResult /\ TypeScriptResult' = TypeScriptResult
          /\ Judgements' = Judgements /\ Reproaches' = Reproaches
          /\ (Alike' <=> Alike) /\ (Accepted' <=> Accepted) /\ raw' = raw
          /\ (HashesDifferently' <=> HashesDifferently)
      BY <3>1, SameInputs DEF PythonResult
    <3> QED
      BY <3>1, <3>2 DEF PortInv
  <2>2. CASE LogFirst
    <3>1. PICK e \in Entry : Log(e)
      BY <2>2 DEF LogFirst
    <3>2. pc = "idle" /\ pc' = "idle" /\ entries' = Append(entries, e) /\ UNCHANGED <<i, steps>>
      BY <2>2, <3>1 DEF LogFirst, Log
    <3>3. \A n \in DOMAIN entries' : entries'[n] \in Entry
      <4>1. IsSequence(entries)
        BY DEF BindInv
      <4>2. /\ DOMAIN entries' = DOMAIN entries \cup {Len(entries) + 1}
            /\ entries'[Len(entries) + 1] = e
            /\ \A m \in DOMAIN entries : entries'[m] = entries[m]
        BY <3>2, <4>1, LoggingKeepsThePast
      <4> QED
        BY <4>2 DEF PortInv
    <3> QED
      BY <3>2, <3>3 DEF PortInv
  <2>3. CASE CallBoth
    <3>1. PICK args \in Arguments : /\ Call(args[1], args[2], args[3], args[4])
                                  /\ given' = args
      BY <2>3 DEF CallBoth
    <3> QED
      BY <3>1, CallAlike
  <2>4. CASE Run
    <3>1. CASE ParseEntry
      BY <3>1, <2>4, EntryAlike DEF Run
    <3>2. CASE EndParse
      BY <3>2, <2>4, EndParseAlike DEF Run
    <3>3. CASE BindEntry
      BY <3>3, <2>4, BindAlike DEF Run
    <3>4. CASE EndBind
      BY <3>4, <2>4, EndBindAlike DEF Run
    <3>5. CASE DiffClaim
      BY <3>5, <2>0, <2>4, ClaimAlike DEF Run
    <3>6. CASE EndClaims
      BY <3>6, <2>4, EndClaimsAlike DEF Run
    <3>7. CASE DiffStep
      BY <3>7, <2>4, StepAlike DEF Run
    <3>8. CASE Return
      BY <3>8, <2>0, <2>4, ReturnAlike DEF Run
    <3> QED
      BY <2>4, <3>1, <3>2, <3>3, <3>4, <3>5, <3>6, <3>7, <3>8 DEF Run
  <2> QED
    BY <2>1, <2>2, <2>3, <2>4 DEF PortNext
<1> QED
  BY <1>1, <1>2, <1>3, DiffInvHolds, BindInvHolds, SettledInvHolds, ReconcileTypes, PTL
     DEF PortSpec

(* "One fixture for both suites" (reconcile.ts, reconcile.py): whatever the *)
(* chain, the claims, the summary and the parser, both ports return the     *)
(* same findings in the same order, the same matches, binding and error,    *)
(* but for the inputs SameResult excludes.                                  *)
THEOREM PortsReturnTheSame ==
  ASSUME ValuesAreApart, BuiltInParsers
  PROVE  PortSpec => []SameResult
<1>1. PortInv => SameResult
  BY DEF PortInv, SameResult, Alike
<1> QED
  BY <1>1, PortInvHolds, PTL
=============================================================================
