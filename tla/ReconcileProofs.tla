--------------------------- MODULE ReconcileProofs ---------------------------
(***************************************************************************)
(* What module Reconcile establishes for chains and summaries of any       *)
(* length, any parser, and entries that are logged at any moment of the    *)
(* call: what a clean result and a binding mean, that every claim is       *)
(* settled and every refusal listed, and which ordinals the steps get.     *)
(***************************************************************************)
EXTENDS Reconcile, TLAPS, WellFoundedInduction, FiniteSetTheorems

IsSequence(s) == s \in Seq({s[k] : k \in DOMAIN s})

LEMMA EmptySequence == IsSequence(<<>>)
  BY DEF IsSequence

LEMMA LongerSequence ==
  ASSUME NEW s, IsSequence(s), NEW x
  PROVE  /\ IsSequence(Append(s, x)) /\ Append(s, x) # <<>>
         /\ Len(Append(s, x)) = Len(s) + 1
         /\ \A k \in 1 .. Len(s) : Append(s, x)[k] = s[k]
         /\ Append(s, x)[Len(s) + 1] = x
<1> DEFINE S == {s[k] : k \in DOMAIN s} \cup {x}
<1>1. s \in Seq(S)
  BY DEF IsSequence
<1>2. Append(s, x) \in Seq(S) /\ Len(Append(s, x)) = Len(s) + 1
  BY <1>1
<1>3. Append(s, x) \in Seq({Append(s, x)[k] : k \in DOMAIN Append(s, x)})
  BY <1>2
<1> QED
  BY <1>1, <1>2, <1>3 DEF IsSequence

-----------------------------------------------------------------------------
(* The invariant                                                            *)

(* The claims before position n agree with the chain.                       *)
AgreeBefore(n) == \A k \in 1 .. n - 1 : Agree(claims[k])

Mentioned(n) == {claims[k].step : k \in 1 .. n - 1}

(* What the loops over the claims and over the steps have established.      *)
DiffInv ==
  /\ IsSequence(claims) /\ IsSequence(steps) /\ IsSequence(findings)
  /\ i \in Nat \ {0}
  /\ pc \in {"idle", "parse", "bind", "diff", "undisclosed", "done"}
  /\ pc \in {"idle", "parse", "bind"} => findings = <<>> /\ mentioned = {}
  /\ pc = "diff" =>
       /\ i =< Len(claims) + 1 /\ mentioned = Mentioned(i)
       /\ findings = <<>> <=> AgreeBefore(i)
  /\ pc = "undisclosed" =>
       /\ i =< Len(steps) + 1 /\ mentioned = Mentioned(Len(claims) + 1)
       /\ findings = <<>> <=> /\ AgreeBefore(Len(claims) + 1)
                              /\ \A n \in 1 .. i - 1 : Disclosed(steps[n])
  /\ pc = "done" => CleanMeansAgreement

(* A claim is settled without a finding exactly if the record agrees.       *)
LEMMA RulesAreAgreement ==
  ASSUME NEW c
  PROVE  Agree(c) <=> ~Missing(c, by_index(c.step)) /\ ~Contradicted(c, by_index(c.step))
  BY DEF Agree, Missing, Contradicted

(* Agreement is between the claims and the steps, whatever else changes.    *)
LEMMA SameRecord ==
  ASSUME claims' = claims, steps' = steps
  PROVE  /\ \A c : Agree(c)' <=> Agree(c)
         /\ \A s : Disclosed(s)' <=> Disclosed(s)
         /\ \A n : Mentioned(n)' = Mentioned(n)
         /\ \A n : AgreeBefore(n)' <=> AgreeBefore(n)
<1>1. \A c : Agree(c)' <=> Agree(c)
  BY DEF Agree, by_index, At
<1> QED
  BY <1>1 DEF Disclosed, Mentioned, AgreeBefore

(* A claims argument that is a list, or none at all, is one of claims.      *)
LEMMA ListedClaims ==
  ASSUME NEW args \in Arguments, args[1] # NoList
  PROVE  /\ IsSequence(OrEmpty(args[1]))
         /\ \A k \in DOMAIN OrEmpty(args[1]) : IsRawClaim(OrEmpty(args[1])[k])
<1>1. CASE args[1] = None
  <2>1. OrEmpty(args[1]) = <<>> /\ DOMAIN OrEmpty(args[1]) = {}
    BY <1>1 DEF OrEmpty
  <2> QED
    BY <2>1, EmptySequence
<1>2. CASE args[1] # None
  BY <1>2, ArgumentsAssumption DEF OrEmpty, IsCall, IsSequence
<1> QED
  BY <1>1, <1>2

LEMMA CallDiffs ==
  ASSUME DiffInv, NEW args \in Arguments, Call(args[1], args[2], args[3], args[4])
  PROVE  DiffInv'
<1> DEFINE raw == OrEmpty(args[1])
<1>1. UNCHANGED <<i, steps, mentioned>> /\ pc = "idle" /\ findings = <<>>
  BY DEF Call, DiffInv
<1>2. CASE Malformed /\ UNCHANGED claims
  BY <1>1, <1>2, EmptySequence DEF Malformed, DiffInv, CleanMeansAgreement, Reconciled
<1>3. CASE /\ args[1] # NoList
           /\ claims' = [k \in DOMAIN raw |-> _normalized(raw[k])]
           /\ pc' = "parse" /\ UNCHANGED results
  <2>1. IsSequence(raw)
    BY <1>3, ListedClaims
  <2>2. DOMAIN claims' = 1 .. Len(raw) /\ Len(raw) \in Nat
    BY <1>3, <2>1 DEF IsSequence
  <2>3. claims' \in Seq({claims'[k] : k \in DOMAIN claims'})
    BY <1>3, <2>2
  <2> QED
    BY <1>1, <1>3, <2>3 DEF DiffInv, IsSequence, results
<1> QED
  BY <1>2, <1>3 DEF Call

LEMMA ClaimDiffs ==
  ASSUME DiffInv, DiffClaim
  PROVE  DiffInv'
<1> DEFINE c == claims[i]
<1>1. /\ pc = "diff" /\ pc' = "diff" /\ i' = i + 1 /\ i =< Len(claims)
      /\ UNCHANGED <<claims, steps>> /\ mentioned' = mentioned \cup {c.step}
  BY DEF DiffClaim, arguments
<1>2. /\ i \in Nat \ {0} /\ Len(claims) \in Nat /\ mentioned = Mentioned(i)
      /\ findings = <<>> <=> AgreeBefore(i)
      /\ IsSequence(findings)
  BY <1>1 DEF DiffInv, IsSequence
<1>3. 1 .. i' - 1 = (1 .. i - 1) \cup {i}
  BY <1>1, <1>2
<1>4. mentioned' = Mentioned(i)'
  BY <1>1, <1>2, <1>3 DEF Mentioned
<1>5. \A d : Agree(d)' <=> Agree(d)
  BY <1>1, SameRecord
<1>6. AgreeBefore(i)' <=> AgreeBefore(i) /\ Agree(c)
  BY <1>1, <1>3, <1>5 DEF AgreeBefore
<1>7. /\ IsSequence(findings')
      /\ findings' = <<>> <=> findings = <<>> /\ Agree(c)
  <2>1. CASE Agree(c)
    BY <2>1, <1>2, RulesAreAgreement DEF DiffClaim
  <2>2. CASE ~Agree(c)
    <3>1. \E f : findings' = Append(findings, f)
      BY <2>2, RulesAreAgreement DEF DiffClaim
    <3> QED
      BY <3>1, <2>2, <1>2, LongerSequence
  <2> QED
    BY <2>1, <2>2
<1> QED
  BY <1>1, <1>2, <1>4, <1>6, <1>7 DEF DiffInv

LEMMA StepDiffs ==
  ASSUME DiffInv, DiffStep
  PROVE  DiffInv'
<1> DEFINE s == steps[i]
<1>1. /\ pc = "undisclosed" /\ pc' = "undisclosed" /\ i' = i + 1 /\ i =< Len(steps)
      /\ UNCHANGED <<claims, steps, mentioned>>
  BY DEF DiffStep, arguments
<1>2. /\ i \in Nat \ {0} /\ Len(steps) \in Nat /\ Len(claims) \in Nat
      /\ DOMAIN claims = 1 .. Len(claims)
      /\ mentioned = Mentioned(Len(claims) + 1)
      /\ IsSequence(findings)
  BY <1>1 DEF DiffInv, IsSequence
<1>3. 1 .. i' - 1 = (1 .. i - 1) \cup {i}
  BY <1>1, <1>2
<1>4. Undisclosed(s, mentioned) <=> ~Disclosed(s)
  BY <1>2 DEF Undisclosed, Disclosed, Mentioned
<1>5. /\ AgreeBefore(Len(claims) + 1)' <=> AgreeBefore(Len(claims) + 1)
      /\ \A n : Disclosed(steps[n])' <=> Disclosed(steps[n])
      /\ Mentioned(Len(claims) + 1)' = Mentioned(Len(claims) + 1)
  BY <1>1 DEF AgreeBefore, Agree, by_index, At, Disclosed, Mentioned
<1>6. /\ IsSequence(findings')
      /\ findings' = <<>> <=> findings = <<>> /\ Disclosed(s)
  <2>1. CASE Disclosed(s)
    BY <2>1, <1>2, <1>4 DEF DiffStep
  <2>2. CASE ~Disclosed(s)
    <3>1. \E f : findings' = Append(findings, f)
      BY <2>2, <1>4 DEF DiffStep
    <3> QED
      BY <3>1, <2>2, <1>2, LongerSequence
  <2> QED
    BY <2>1, <2>2
<1>7. (\A n \in 1 .. i' - 1 : Disclosed(steps[n]))
        <=> (\A n \in 1 .. i - 1 : Disclosed(steps[n])) /\ Disclosed(s)
  BY <1>3
<1> QED
  BY <1>1, <1>2, <1>5, <1>6, <1>7 DEF DiffInv

LEMMA ReturnDiffs ==
  ASSUME DiffInv, Return
  PROVE  DiffInv'
<1>1. /\ pc = "undisclosed" /\ pc' = "done" /\ i > Len(steps)
      /\ UNCHANGED <<i, claims, steps, findings, mentioned, error>>
  BY DEF Return, arguments, results
<1>2. /\ DOMAIN claims = 1 .. Len(claims) /\ Len(claims) \in Nat
      /\ DOMAIN steps = 1 .. Len(steps) /\ Len(steps) \in Nat /\ i = Len(steps) + 1
  BY <1>1 DEF DiffInv, IsSequence
<1>3. /\ 1 .. i - 1 = DOMAIN steps
      /\ 1 .. (Len(claims) + 1) - 1 = DOMAIN claims
  BY <1>2
<1>4. findings = <<>> <=> /\ \A k \in DOMAIN claims : Agree(claims[k])
                         /\ \A n \in DOMAIN steps : Disclosed(steps[n])
  BY <1>1, <1>3 DEF DiffInv, AgreeBefore
<1>5. CleanMeansAgreement'
  BY <1>1, <1>4, SameRecord DEF CleanMeansAgreement
<1> QED
  BY <1>1, <1>5 DEF DiffInv

LEMMA DiffInvHolds == Spec => []DiffInv
<1>1. Init => DiffInv
  BY EmptySequence DEF Init, DiffInv
<1>2. DiffInv /\ [Next]_vars => DiffInv'
  <2> SUFFICES ASSUME DiffInv, [Next]_vars PROVE DiffInv'
    OBVIOUS
  <2>1. CASE UNCHANGED <<pc, claims, i, steps, mentioned, findings, error>>
    <3>1. CleanMeansAgreement' <=> CleanMeansAgreement
      BY <2>1, SameRecord DEF CleanMeansAgreement, Reconciled
    <3>2. /\ AgreeBefore(i)' <=> AgreeBefore(i)
          /\ Mentioned(i)' = Mentioned(i)
          /\ AgreeBefore(Len(claims) + 1)' <=> AgreeBefore(Len(claims) + 1)
          /\ Mentioned(Len(claims) + 1)' = Mentioned(Len(claims) + 1)
          /\ (\A n \in 1 .. i - 1 : Disclosed(steps[n]))'
               <=> \A n \in 1 .. i - 1 : Disclosed(steps[n])
      BY <2>1, SameRecord DEF AgreeBefore, Mentioned
    <3> QED
      BY <2>1, <3>1, <3>2 DEF DiffInv
  <2>2. CASE \E e \in Entry : Log(e)
    BY <2>1, <2>2 DEF Log, arguments, results
  <2>3. CASE Calls
    BY <2>3, CallDiffs DEF Calls
  <2>4. CASE ParseEntry
    <3>1. UNCHANGED <<claims, mentioned>> /\ pc = "parse"
      BY <2>4 DEF ParseEntry, arguments
    <3>2. CASE Malformed /\ UNCHANGED <<i, steps>>
      BY <3>1, <3>2, EmptySequence DEF DiffInv, Malformed, CleanMeansAgreement, Reconciled
    <3>3. CASE i' = i + 1 /\ UNCHANGED <<pc, results>> /\ IsSequence(steps')
      BY <3>1, <3>3 DEF DiffInv, results
    <3>4. IsSequence(steps) /\ \A s : IsSequence(Append(steps, s))
      BY LongerSequence DEF DiffInv
    <3> QED
      BY <2>4, <3>2, <3>3, <3>4 DEF ParseEntry
  <2>5. CASE EndParse
    <3>1. pc = "parse" /\ i' = 1 /\ pc' \in {"diff", "bind"}
          /\ UNCHANGED <<claims, steps, mentioned, findings>>
      BY <2>5 DEF EndParse, arguments, results
    <3>2. AgreeBefore(i)' /\ Mentioned(i)' = {} /\ Len(claims) \in Nat
      BY <3>1 DEF AgreeBefore, Mentioned, DiffInv, IsSequence
    <3>3. findings = <<>> /\ mentioned = {}
      BY <3>1 DEF DiffInv
    <3> QED
      BY <3>1, <3>2, <3>3 DEF DiffInv
  <2>6. CASE BindEntry
    BY <2>6 DEF BindEntry, arguments, results, DiffInv
  <2>7. CASE EndBind
    <3>1. pc = "bind" /\ UNCHANGED <<claims, steps, mentioned>>
      BY <2>7 DEF EndBind, arguments
    <3>2. CASE Malformed /\ UNCHANGED i
      BY <3>1, <3>2, EmptySequence DEF DiffInv, Malformed, CleanMeansAgreement, Reconciled
    <3>3. CASE pc' = "diff" /\ i' = 1 /\ UNCHANGED findings
      <4>1. AgreeBefore(i)' /\ Mentioned(i)' = {} /\ Len(claims) \in Nat
        BY <3>3 DEF AgreeBefore, Mentioned, DiffInv, IsSequence
      <4>2. findings = <<>> /\ mentioned = {}
        BY <3>1 DEF DiffInv
      <4> QED
        BY <3>1, <3>3, <4>1, <4>2 DEF DiffInv
    <3> QED
      BY <2>7, <3>2, <3>3 DEF EndBind
  <2>8. CASE DiffClaim
    BY <2>8, ClaimDiffs
  <2>9. CASE EndClaims
    <3>1. /\ pc = "diff" /\ pc' = "undisclosed" /\ i > Len(claims) /\ i' = 1
          /\ UNCHANGED <<claims, steps, mentioned, findings>>
      BY <2>9 DEF EndClaims, arguments, results
    <3>2. i = Len(claims) + 1 /\ Len(steps) \in Nat
      BY <3>1 DEF DiffInv, IsSequence
    <3>3. /\ AgreeBefore(Len(claims) + 1)' <=> AgreeBefore(Len(claims) + 1)
          /\ Mentioned(Len(claims) + 1)' = Mentioned(Len(claims) + 1)
      BY <3>1 DEF AgreeBefore, Agree, by_index, At, Mentioned
    <3> QED
      BY <3>1, <3>2, <3>3 DEF DiffInv
  <2>10. CASE DiffStep
    BY <2>10, StepDiffs
  <2>11. CASE Return
    BY <2>11, ReturnDiffs
  <2> QED
    BY <2>1, <2>2, <2>3, <2>4, <2>5, <2>6, <2>7, <2>8, <2>9, <2>10, <2>11
    DEF Next, vars, arguments, results
<1> QED
  BY <1>1, <1>2, PTL DEF Spec

(* "Summary matches the record" is said exactly if every claim agrees with  *)
(* the chain and every refusal in it is spoken about, for any number of     *)
(* claims and entries (reconcile).                                          *)
THEOREM CleanResultsAreTrue == Spec => []CleanMeansAgreement
<1>1. DiffInv => CleanMeansAgreement
  BY DEF DiffInv, CleanMeansAgreement, Reconciled
<1> QED
  BY <1>1, DiffInvHolds, PTL

-----------------------------------------------------------------------------
(* The summary binding                                                      *)

Upto(n) == {m \in Completed : m =< n}

IsLast(last, n) == last \in Upto(n) /\ \A m \in Upto(n) : m =< last

(* What is found and bound if the chain is read to position n.              *)
FoundAt(n) ==
  IF Upto(n) = {} THEN found = None
  ELSE \E last \in Upto(n) : IsLast(last, n) /\ found = entries[last].summary_sha256

BoundAt(n) ==
  IF Upto(n) = {} THEN bound = None
  ELSE \E last \in Upto(n) : IsLast(last, n) /\ bound = BoundOf(last)

Pinned == \E n \in known .. Len(entries) : BoundAt(n)

(* The loop has found the digest of the last closing entry it has passed,   *)
(* and once it has run off the end the result stays what it was then.       *)
BindInv ==
  /\ IsSequence(entries) /\ i \in Nat \ {0} /\ known \in 0 .. Len(entries)
  /\ pc \in {"parse", "bind", "diff", "undisclosed"} =>
       ~error /\ \A n \in DOMAIN entries : entries[n] # None
  /\ pc \in {"idle", "parse"} => found = None /\ ~error
  /\ pc = "bind" => i =< Len(entries) + 1 /\ FoundAt(i - 1)
  /\ pc \in {"diff", "undisclosed"} \/ Reconciled => summary = None \/ Pinned

LEMMA LoggingKeepsThePast ==
  ASSUME IsSequence(entries), NEW e, entries' = Append(entries, e)
  PROVE  /\ IsSequence(entries') /\ Len(entries) \in Nat /\ Len(entries') = Len(entries) + 1
         /\ DOMAIN entries' = DOMAIN entries \cup {Len(entries) + 1}
         /\ entries'[Len(entries) + 1] = e
         /\ \A m \in DOMAIN entries : entries'[m] = entries[m]
         /\ \A n \in 0 .. Len(entries) : Upto(n)' = Upto(n)
<1>1. /\ Len(entries) \in Nat /\ DOMAIN entries = 1 .. Len(entries)
      /\ IsSequence(entries') /\ Len(entries') = Len(entries) + 1
      /\ \A m \in 1 .. Len(entries) : entries'[m] = entries[m]
      /\ entries'[Len(entries) + 1] = e
  BY LongerSequence DEF IsSequence
<1>2. DOMAIN entries' = 1 .. Len(entries) + 1
  BY <1>1 DEF IsSequence
<1> QED
  BY <1>1, <1>2 DEF Upto, Completed

(* An entry logged during the call changes nothing that was read before.    *)
LEMMA LogBinds ==
  ASSUME BindInv, NEW e, Log(e)
  PROVE  BindInv'
<1>1. /\ entries' = Append(entries, e)
      /\ e = None => pc = "idle"
      /\ UNCHANGED <<pc, i, summary, found, bound, error, known>>
  BY DEF Log, arguments, results
<1>2. /\ IsSequence(entries') /\ Len(entries) \in Nat /\ Len(entries') = Len(entries) + 1
      /\ DOMAIN entries' = DOMAIN entries \cup {Len(entries) + 1}
      /\ entries'[Len(entries) + 1] = e
      /\ \A m \in DOMAIN entries : entries'[m] = entries[m]
      /\ \A n \in 0 .. Len(entries) : Upto(n)' = Upto(n)
  BY <1>1, LoggingKeepsThePast DEF BindInv
<1>3. \A n : \A last \in Upto(n) : last \in DOMAIN entries
  BY DEF Upto, Completed
<1>4. \A last \in DOMAIN entries : BoundOf(last)' = BoundOf(last)
  BY <1>1, <1>2 DEF BoundOf, Commits, bind_summary
<1>5. \A n \in 0 .. Len(entries) : FoundAt(n) => FoundAt(n)'
  BY <1>1, <1>2, <1>3 DEF FoundAt, IsLast
<1>6. \A n \in 0 .. Len(entries) : BoundAt(n) => BoundAt(n)'
  BY <1>1, <1>2, <1>3, <1>4 DEF BoundAt, IsLast
<1>7. Pinned => Pinned'
  BY <1>1, <1>2, <1>6 DEF Pinned, BindInv
<1>8. pc = "bind" => FoundAt(i - 1)'
  BY <1>1, <1>2, <1>5 DEF BindInv
<1> QED
  BY <1>1, <1>2, <1>7, <1>8 DEF BindInv, Reconciled

(* One more entry: what it records replaces what was found.                 *)
LEMMA EntryBinds ==
  ASSUME BindInv, BindEntry
  PROVE  BindInv'
<1>1. /\ pc = "bind" /\ i =< Len(entries) /\ i' = i + 1 /\ found' = Found(entries[i])
      /\ UNCHANGED <<pc, entries, summary, bound, error, known>>
  BY DEF BindEntry, arguments, results
<1>2. /\ Len(entries) \in Nat /\ DOMAIN entries = 1 .. Len(entries) /\ i \in DOMAIN entries
      /\ entries[i] # None /\ FoundAt(i - 1)
  BY <1>1 DEF BindInv, IsSequence
<1>3. /\ \A n : Upto(n)' = Upto(n)
      /\ \A n : \A m \in Upto(n) : m \in Nat
  BY <1>1, <1>2 DEF Upto, Completed
<1>4. PICK j \in Nat : j = i
  BY <1>2
<1>5. FoundAt(j)'
  <2>1. CASE entries[j].form = "completed"
    <3>1. IsLast(j, j)
      BY <2>1, <1>2, <1>3, <1>4 DEF IsLast, Upto, Completed
    <3> QED
      BY <3>1, <2>1, <1>1, <1>3, <1>4 DEF FoundAt, IsLast, Found
  <2>2. CASE entries[j].form # "completed"
    <3>1. Upto(j) = Upto(j - 1)
      BY <2>2, <1>2, <1>4 DEF Upto, Completed
    <3> QED
      BY <3>1, <2>2, <1>1, <1>2, <1>3, <1>4 DEF FoundAt, IsLast, Found
  <2> QED
    BY <2>1, <2>2
<1>6. i' - 1 = j /\ i' \in Nat \ {0} /\ i' =< Len(entries) + 1
  BY <1>1, <1>2, <1>4
<1>7. FoundAt(i - 1)'
  BY <1>5, <1>6
<1> QED
  BY <1>1, <1>2, <1>6, <1>7 DEF BindInv, Reconciled

(* Past the end: the digest found is compared with the summary's.           *)
LEMMA EndBinds ==
  ASSUME BindInv, EndBind
  PROVE  BindInv'
<1>1. /\ pc = "bind" /\ i > Len(entries)
      /\ UNCHANGED <<entries, summary, found, known>>
  BY DEF EndBind, arguments
<1>2. CASE Malformed /\ UNCHANGED i
  BY <1>1, <1>2 DEF BindInv, Malformed, Reconciled
<1>3. CASE /\ ~(found # None /\ summary \notin DOMAIN DigestOf)
           /\ bound' = IF found = None THEN None ELSE Commits(found, summary)
           /\ pc' = "diff" /\ i' = 1 /\ UNCHANGED error
  <2> DEFINE n == Len(entries)
  <2>1. n \in known .. n /\ i - 1 = n /\ known \in Nat /\ n \in Nat
    BY <1>1 DEF BindInv, IsSequence
  <2>2. FoundAt(n)
    BY <1>1, <2>1 DEF BindInv
  <2>3. Upto(n)' = Upto(n)
    BY <1>1 DEF Upto, Completed
  <2>4. ASSUME NEW last \in Upto(n), found = entries[last].summary_sha256
        PROVE  bound' = BoundOf(last)'
    <3>1. BoundOf(last)' = BoundOf(last)
      BY <1>1 DEF BoundOf, Commits
    <3>2. CASE found = None
      BY <3>1, <3>2, <2>4, <1>3 DEF BoundOf
    <3>3. CASE found # None
      <4>1. summary \in DOMAIN DigestOf /\ bound' = Commits(found, summary)
        BY <3>3, <1>3
      <4>2. BoundOf(last) = (summary \in DOMAIN DigestOf /\ Commits(found, summary))
        BY <3>3, <2>4 DEF BoundOf
      <4>3. (summary \in DOMAIN DigestOf /\ Commits(found, summary)) = Commits(found, summary)
        BY <4>1 DEF Commits
      <4> QED
        BY <4>1, <4>2, <4>3, <3>1
    <3> QED
      BY <3>2, <3>3
  <2>5. BoundAt(n)'
    <3>1. CASE Upto(n) = {}
      BY <3>1, <2>2, <2>3, <1>1, <1>3 DEF BoundAt, FoundAt
    <3>2. CASE Upto(n) # {}
      <4>1. PICK last \in Upto(n) : IsLast(last, n) /\ found = entries[last].summary_sha256
        BY <3>2, <2>2 DEF FoundAt
      <4>2. bound' = BoundOf(last)'
        BY <4>1, <2>4
      <4>3. IsLast(last, n)'
        BY <4>1, <2>3 DEF IsLast
      <4> QED
        BY <4>2, <4>3, <3>2, <2>3, <1>1 DEF BoundAt
    <3> QED
      BY <3>1, <3>2
  <2>6. Pinned'
    BY <2>1, <2>5, <1>1 DEF Pinned
  <2> QED
    BY <1>1, <1>3, <2>6 DEF BindInv, Reconciled
<1> QED
  BY <1>2, <1>3 DEF EndBind

(* A step that logs nothing and binds nothing.                              *)
LEMMA PinnedStays ==
  ASSUME UNCHANGED <<entries, summary, bound, known>>
  PROVE  Pinned' <=> Pinned
<1>1. \A n : Upto(n)' = Upto(n)
  BY DEF Upto, Completed
<1>2. \A n : BoundOf(n)' = BoundOf(n)
  BY DEF BoundOf, Commits
<1>3. \A n : BoundAt(n)' <=> BoundAt(n)
  BY <1>1, <1>2 DEF BoundAt, IsLast
<1> QED
  BY <1>3 DEF Pinned

LEMMA BindInvHolds == Spec => []BindInv
<1>1. Init => BindInv
  BY EmptySequence DEF Init, BindInv, Reconciled
<1>2. BindInv /\ [Next]_vars => BindInv'
  <2> SUFFICES ASSUME BindInv, [Next]_vars PROVE BindInv'
    OBVIOUS
  <2>1. CASE UNCHANGED vars
    <3>1. UNCHANGED <<entries, pc, i, summary, found, bound, error, known>>
      BY <2>1 DEF vars, arguments, results
    <3>2. pc = "bind" => FoundAt(i - 1)'
      BY <3>1 DEF BindInv, FoundAt, IsLast, Upto, Completed
    <3> QED
      BY <3>1, <3>2, PinnedStays DEF BindInv, Reconciled
  <2>2. CASE \E e \in Entry : Log(e)
    BY <2>2, LogBinds
  <2>3. CASE Calls
    <3>1. PICK args \in Arguments : Call(args[1], args[2], args[3], args[4])
      BY <2>3 DEF Calls
    <3>2. pc = "idle" /\ UNCHANGED <<entries, i, found, known>>
      BY <3>1 DEF Call
    <3>3. CASE Malformed
      BY <3>2, <3>3 DEF BindInv, Malformed, Reconciled
    <3>4. CASE /\ \A n \in DOMAIN entries : entries[n] # None
               /\ pc' = "parse" /\ UNCHANGED results
      BY <3>2, <3>4 DEF BindInv, Reconciled, results
    <3> QED
      BY <3>1, <3>3, <3>4 DEF Call
  <2>4. CASE ParseEntry
    <3>1. pc = "parse" /\ UNCHANGED <<entries, summary, found, known>>
      BY <2>4 DEF ParseEntry, arguments
    <3>2. CASE Malformed /\ UNCHANGED i
      BY <3>1, <3>2 DEF BindInv, Malformed, Reconciled
    <3>3. CASE i' = i + 1 /\ UNCHANGED <<pc, results>>
      BY <3>1, <3>3 DEF BindInv, Reconciled, results
    <3> QED
      BY <2>4, <3>2, <3>3 DEF ParseEntry
  <2>5. CASE EndParse
    <3>1. /\ pc = "parse" /\ i' = 1 /\ known' = Len(entries)
          /\ pc' = IF summary = None THEN "diff" ELSE "bind"
          /\ UNCHANGED <<entries, summary, found, bound, error>>
      BY <2>5 DEF EndParse, arguments, results
    <3>2. Len(entries) \in Nat /\ DOMAIN entries = 1 .. Len(entries) /\ found = None
      BY <3>1 DEF BindInv, IsSequence
    <3>3. Upto(0) = {} /\ Upto(0)' = Upto(0)
      BY <3>1, <3>2 DEF Upto, Completed
    <3>4. FoundAt(0)'
      BY <3>1, <3>2, <3>3 DEF FoundAt
    <3>5. i' - 1 = 0 /\ FoundAt(i - 1)'
      BY <3>1, <3>4
    <3> QED
      BY <3>1, <3>2, <3>4, <3>5 DEF BindInv, Reconciled
  <2>6. CASE BindEntry
    BY <2>6, EntryBinds
  <2>7. CASE EndBind
    BY <2>7, EndBinds
  <2>8. CASE DiffClaim \/ EndClaims \/ DiffStep \/ Return
    <3>1. /\ pc \in {"diff", "undisclosed"} /\ pc' \in {"diff", "undisclosed", "done"}
          /\ i' \in {1, i, i + 1}
          /\ UNCHANGED <<entries, summary, bound, error, known>>
      BY <2>8 DEF DiffClaim, EndClaims, DiffStep, Return, arguments, results
    <3> QED
      BY <3>1, PinnedStays DEF BindInv, Reconciled
  <2> QED
    BY <2>1, <2>2, <2>3, <2>4, <2>5, <2>6, <2>7, <2>8 DEF Next
<1> QED
  BY <1>1, <1>2, PTL DEF Spec

(* The binding is that of the last run.completed entry of the chain as it   *)
(* stood at some moment after its steps were read, however many entries are *)
(* logged during the call (_summary_bound).                                 *)
THEOREM BindingIsCurrent == Spec => []BindingIsTheLast
<1>1. BindInv => BindingIsTheLast
  <2> SUFFICES ASSUME BindInv, Reconciled, summary # None PROVE BindingIsTheLast
    BY DEF BindingIsTheLast
  <2>1. PICK n \in known .. Len(entries) : BoundAt(n)
    BY DEF BindInv, Pinned
  <2> QED
    BY <2>1 DEF BindingIsTheLast, BoundAt, IsLast, Upto
<1> QED
  BY <1>1, BindInvHolds, PTL

-----------------------------------------------------------------------------
(* Counting positions                                                       *)

(* A nonempty set of positions has a last one. *)
LEMMA LastPosition ==
  ASSUME NEW n \in Nat, NEW S \in SUBSET (1 .. n), S # {}
  PROVE  \E m \in S : \A k \in S : k =< m
<1> DEFINE T == {n - k : k \in S}
<1>1. T \in SUBSET Nat /\ T # {}
  <2>1. \A k \in S : n - k \in Nat
    BY SMT
  <2>2. \E k \in S : n - k \in T
    OBVIOUS
  <2> QED
    BY <2>1, <2>2
<1>2. PICK x \in T : \A y \in T : ~ (<<y, x>> \in OpToRel(<, Nat))
  <2> HIDE DEF T
  <2> QED
    BY <1>1, NatLessThanWellFounded, WFMin
<1>3. \A y \in T : ~(y < x)
  BY <1>1, <1>2 DEF OpToRel
<1>4. PICK m \in S : x = n - m
  OBVIOUS
<1>5. ASSUME NEW k \in S PROVE k =< m
  <2>1. ~(n - k < n - m)
    BY <1>3, <1>4
  <2> HIDE DEF T
  <2>2. k \in Int /\ m \in Int
    OBVIOUS
  <2> QED
    BY <2>1, <2>2
<1> QED
  BY <1>5

(* How many positions of a set come no later than n. *)
Count(S, n) == Cardinality({m \in S : m =< n})

LEMMA CountZero ==
  ASSUME NEW S \in SUBSET (Nat \ {0})
  PROVE  Count(S, 0) = 0
<1>0. \A m \in S : m \in Nat /\ m # 0
  OBVIOUS
<1>1. \A m \in S : ~(m =< 0)
  BY <1>0
<1>2. {m \in S : m =< 0} = {}
  BY <1>1
<1> QED
  BY <1>2, FS_EmptySet DEF Count

LEMMA CountType ==
  ASSUME NEW S \in SUBSET (Nat \ {0}), NEW n \in Nat
  PROVE  /\ IsFiniteSet({m \in S : m =< n})
         /\ Count(S, n) \in Nat /\ Count(S, n) =< n
<1>0. \A m \in S : m \in Nat /\ m # 0
  OBVIOUS
<1>1. \A m \in {m \in S : m =< n} : m \in 1 .. n
  BY <1>0
<1>2. IsFiniteSet(1 .. n) /\ Cardinality(1 .. n) = n
  BY FS_Interval
<1>3. IsFiniteSet({m \in S : m =< n}) /\ Cardinality({m \in S : m =< n}) =< n
  BY <1>1, <1>2, FS_Subset
<1> QED
  BY <1>3, FS_CardinalityType DEF Count

LEMMA CountNext ==
  ASSUME NEW S \in SUBSET (Nat \ {0}), NEW n \in Nat
  PROVE  Count(S, n + 1) = IF n + 1 \in S THEN Count(S, n) + 1 ELSE Count(S, n)
<1> DEFINE T == {m \in S : m =< n}
<1>0. \A m \in S : m \in Nat /\ m # 0
  OBVIOUS
<1>1. IsFiniteSet(T) /\ n + 1 \notin T
  BY <1>0, CountType
<1>2. CASE n + 1 \in S
  <2>0. \A m \in S : m =< n + 1 <=> m =< n \/ m = n + 1
    BY <1>0
  <2>1. {m \in S : m =< n + 1} = T \cup {n + 1}
    BY <1>2, <2>0
  <2> HIDE DEF T
  <2>2. Cardinality(T \cup {n + 1}) = Cardinality(T) + 1
    BY <1>1, FS_AddElement
  <2> QED
    BY <1>2, <2>1, <2>2 DEF Count, T
<1>3. CASE n + 1 \notin S
  <2>0. \A m \in S : m =< n + 1 <=> m =< n
    BY <1>0, <1>3
  <2>1. {m \in S : m =< n + 1} = T
    BY <2>0
  <2> QED
    BY <1>3, <2>1 DEF Count
<1> QED
  BY <1>2, <1>3

LEMMA CountGrows ==
  ASSUME NEW S \in SUBSET (Nat \ {0}), NEW n \in Nat, NEW k \in 0 .. n
  PROVE  Count(S, k) =< Count(S, n)
<1>0. \A m \in S : m \in Nat /\ m # 0
  OBVIOUS
<1>1. \A m \in S : m =< k => m =< n
  BY <1>0
<1>2. IsFiniteSet({m \in S : m =< n})
  BY CountType
<1> QED
  BY <1>1, <1>2, FS_Subset DEF Count

(* The position itself counts. *)
LEMMA CountOfMember ==
  ASSUME NEW S \in SUBSET (Nat \ {0}), NEW n \in Nat, NEW k \in S, k =< n
  PROVE  Count(S, k) \in 1 .. Count(S, n)
<1>1. PICK j \in Nat : j + 1 = k
  <2>1. k - 1 \in Nat /\ (k - 1) + 1 = k
    OBVIOUS
  <2> QED
    BY <2>1
<1>2. k \in Nat /\ k \in 0 .. n
  OBVIOUS
<1>3. Count(S, k) = Count(S, j) + 1
  BY <1>1, CountNext
<1>4. \A m \in Nat : Count(S, m) \in Nat
  BY CountType
<1>5. Count(S, k) =< Count(S, n)
  BY <1>2, CountGrows
<1> QED
  BY <1>2, <1>3, <1>4, <1>5

LEMMA CountAll ==
  ASSUME NEW n \in Nat, NEW S \in SUBSET (1 .. n)
  PROVE  Count(S, n) = Cardinality(S) /\ Cardinality(S) \in Nat
<1>0. \A m \in S : m \in Nat /\ m # 0 /\ m =< n
  OBVIOUS
<1>1. {m \in S : m =< n} = S
  BY <1>0
<1>2. S \in SUBSET (Nat \ {0})
  OBVIOUS
<1> QED
  BY <1>1, <1>2, CountType DEF Count

-----------------------------------------------------------------------------
(* The steps of an index                                                    *)

(* by_index answers None, or a step of the index asked for. *)
LEMMA StepOfIndex ==
  ASSUME IsSequence(steps), NEW index, by_index(index) # None
  PROVE  /\ by_index(index).step = index
         /\ \E n \in DOMAIN steps : by_index(index) = steps[n]
<1>1. Len(steps) \in Nat /\ DOMAIN steps = 1 .. Len(steps)
  BY DEF IsSequence
<1>2. At(index) # {} /\ At(index) \in SUBSET (1 .. Len(steps))
  BY <1>1 DEF by_index, At
<1>3. \E n \in At(index) : \A m \in At(index) : m =< n
  BY <1>1, <1>2, LastPosition
<1>4. PICK n : n = CHOOSE m \in At(index) : \A k \in At(index) : k =< m
  OBVIOUS
<1>5. n \in At(index)
  BY <1>3, <1>4
<1>6. by_index(index) = steps[n]
  BY <1>2, <1>4 DEF by_index
<1> QED
  BY <1>5, <1>6 DEF At

-----------------------------------------------------------------------------
(* Every claim is settled and every refusal is listed                       *)

Agreed == {k \in DOMAIN claims : Agree(claims[k])}

Refuted == DOMAIN claims \ Agreed

Hidden == {n \in DOMAIN steps : ~Disclosed(steps[n])}

IsAboutClaim(f, k) ==
  /\ f.kind \in {"no_entry", "contradicted"}
  /\ f.step = claims[k].step /\ f.claimed = claims[k].claimed

IsAboutStep(f, n) ==
  f.kind = "undisclosed" /\ f.step = steps[n].step /\ f.chain = steps[n].status

(* The claims up to position n are settled; the finding about a refuted one *)
(* stands where the refuted claims before it put it.                        *)
SettledTo(n) ==
  /\ matches = Count(Agreed, n) /\ matches + Count(Refuted, n) = n
  /\ \A k \in Refuted : k =< n => IsAboutClaim(findings[Count(Refuted, k)], k)

(* The steps up to position n are disclosed or listed, after the claims.    *)
ListedTo(n) ==
  LET before == Count(Refuted, Len(claims)) IN
    /\ Len(findings) = before + Count(Hidden, n)
    /\ \A k \in Hidden : k =< n => IsAboutStep(findings[before + Count(Hidden, k)], k)

SettledInv ==
  /\ pc \in {"idle", "parse", "bind"} =>
       findings = <<>> /\ matches = 0 /\ bound = None /\ ~error
  /\ pc = "diff" => SettledTo(i - 1) /\ Len(findings) = Count(Refuted, i - 1) /\ ~error
  /\ pc = "undisclosed" => SettledTo(Len(claims)) /\ ListedTo(i - 1) /\ ~error
  /\ Reconciled => SettledTo(Len(claims)) /\ ListedTo(Len(steps))
  /\ error => pc = "done" /\ matches = 0 /\ findings = <<>> /\ bound = None

LEMMA SameSettled ==
  ASSUME claims' = claims, steps' = steps
  PROVE  /\ Agreed' = Agreed /\ Refuted' = Refuted /\ Hidden' = Hidden
         /\ \A f, k : IsAboutClaim(f, k)' <=> IsAboutClaim(f, k)
         /\ \A f, n : IsAboutStep(f, n)' <=> IsAboutStep(f, n)
<1>1. /\ \A c : Agree(c)' <=> Agree(c)
      /\ \A s : Disclosed(s)' <=> Disclosed(s)
  BY SameRecord
<1>2. Agreed' = Agreed
  BY <1>1 DEF Agreed
<1>3. Hidden' = Hidden
  BY <1>1 DEF Hidden
<1> QED
  BY <1>2, <1>3 DEF Refuted, IsAboutClaim, IsAboutStep

(* If the findings do not change either, nothing that was settled does.     *)
LEMMA SameResults ==
  ASSUME claims' = claims, steps' = steps, findings' = findings, matches' = matches
  PROVE  /\ \A n : SettledTo(n)' <=> SettledTo(n)
         /\ \A n : ListedTo(n)' <=> ListedTo(n)
<1>1. \A S, n : Count(S, n)' = Count(S, n)
  BY DEF Count
<1>2. \A n : SettledTo(n)' <=> SettledTo(n)
  BY SameSettled, <1>1 DEF SettledTo
<1>3. \A n : ListedTo(n)' <=> ListedTo(n)
  BY SameSettled, <1>1 DEF ListedTo
<1> QED
  BY <1>2, <1>3

LEMMA Positions ==
  ASSUME IsSequence(claims), IsSequence(steps)
  PROVE  /\ Len(claims) \in Nat /\ Len(steps) \in Nat
         /\ DOMAIN claims = 1 .. Len(claims) /\ DOMAIN steps = 1 .. Len(steps)
         /\ Agreed \in SUBSET (Nat \ {0}) /\ Refuted \in SUBSET (Nat \ {0})
         /\ Hidden \in SUBSET (Nat \ {0})
         /\ Agreed \in SUBSET (1 .. Len(claims)) /\ Refuted \in SUBSET (1 .. Len(claims))
         /\ Hidden \in SUBSET (1 .. Len(steps))
<1>1. /\ Len(claims) \in Nat /\ DOMAIN claims = 1 .. Len(claims)
      /\ Len(steps) \in Nat /\ DOMAIN steps = 1 .. Len(steps)
  BY DEF IsSequence
<1>2. Agreed \subseteq 1 .. Len(claims) /\ Refuted \subseteq 1 .. Len(claims)
  BY <1>1 DEF Agreed, Refuted
<1>3. Hidden \subseteq 1 .. Len(steps)
  BY <1>1 DEF Hidden
<1> QED
  BY <1>1, <1>2, <1>3

(* One more claim: it agrees and is counted, or has the next finding.       *)
LEMMA ClaimSettles ==
  ASSUME DiffInv, SettledInv, DiffClaim
  PROVE  SettledInv'
<1>1. /\ pc = "diff" /\ pc' = "diff" /\ i' = i + 1 /\ i =< Len(claims)
      /\ UNCHANGED <<claims, steps, error>>
  BY DEF DiffClaim, arguments
<1>2. /\ IsSequence(claims) /\ IsSequence(steps) /\ IsSequence(findings) /\ i \in Nat \ {0}
      /\ SettledTo(i - 1) /\ Len(findings) = Count(Refuted, i - 1) /\ ~error
  BY <1>1 DEF DiffInv, SettledInv
<1>3. PICK j \in Nat : j + 1 = i /\ j = i - 1
  <2>1. i - 1 \in Nat /\ (i - 1) + 1 = i
    BY <1>2
  <2> QED
    BY <2>1
<1>4. i \in DOMAIN claims /\ (i \in Agreed <=> Agree(claims[i])) /\ (i \in Refuted <=> ~Agree(claims[i]))
  BY <1>1, <1>2, Positions DEF Agreed, Refuted
<1>5. /\ matches = Count(Agreed, j) /\ matches + Count(Refuted, j) = j
      /\ \A k \in Refuted : k =< j => IsAboutClaim(findings[Count(Refuted, k)], k)
      /\ Len(findings) = Count(Refuted, j)
  BY <1>2, <1>3 DEF SettledTo
<1>6. /\ Count(Agreed, j) \in Nat /\ Count(Refuted, j) \in Nat
      /\ Count(Agreed, i) = IF i \in Agreed THEN Count(Agreed, j) + 1 ELSE Count(Agreed, j)
      /\ Count(Refuted, i) = IF i \in Refuted THEN Count(Refuted, j) + 1 ELSE Count(Refuted, j)
  <2>1. Agreed \in SUBSET (Nat \ {0}) /\ Refuted \in SUBSET (Nat \ {0})
    BY <1>2, Positions
  <2>2. Count(Agreed, j) \in Nat /\ Count(Refuted, j) \in Nat
    BY <2>1, CountType
  <2>3. Count(Agreed, j + 1) = IF j + 1 \in Agreed THEN Count(Agreed, j) + 1 ELSE Count(Agreed, j)
    BY <2>1, CountNext
  <2>4. Count(Refuted, j + 1) = IF j + 1 \in Refuted THEN Count(Refuted, j) + 1 ELSE Count(Refuted, j)
    BY <2>1, CountNext
  <2> QED
    BY <2>2, <2>3, <2>4, <1>3
<1>7. \A k \in Refuted : k \in Nat /\ (k =< i <=> k =< j \/ k = i)
  BY <1>2, <1>3, Positions
<1>8. /\ matches' = Count(Agreed, i) /\ matches' + Count(Refuted, i) = i
      /\ \A k \in Refuted : k =< i => IsAboutClaim(findings'[Count(Refuted, k)], k)
      /\ Len(findings') = Count(Refuted, i)
  <2>1. CASE Agree(claims[i])
    <3>1. matches' = matches + 1 /\ findings' = findings
      BY <2>1, RulesAreAgreement DEF DiffClaim
    <3>2. i \in Agreed /\ i \notin Refuted
      BY <2>1, <1>4
    <3>3. Count(Agreed, i) = Count(Agreed, j) + 1 /\ Count(Refuted, i) = Count(Refuted, j)
      BY <3>2, <1>6
    <3>4. \A k \in Refuted : k =< i => k =< j
      BY <3>2, <1>7
    <3> QED
      BY <3>1, <3>3, <3>4, <1>3, <1>5, <1>6
  <2>2. CASE ~Agree(claims[i])
    <3>1. \E f : matches' = matches /\ findings' = Append(findings, f) /\ IsAboutClaim(f, i)
      <4> DEFINE c == claims[i]
      <4>1. PICK s : s = by_index(c.step)
        OBVIOUS
      <4>2. CASE Missing(c, s)
        BY <4>1, <4>2 DEF DiffClaim, IsAboutClaim, _finding
      <4>3. CASE ~Missing(c, s)
        <5>1. Contradicted(c, s) /\ s # None
          BY <4>1, <4>3, <2>2, RulesAreAgreement DEF Missing
        <5>2. s.step = c.step
          BY <5>1, <4>1, <1>2, StepOfIndex
        <5>3. matches' = matches /\ findings' = Append(findings,
                _finding("contradicted", s.step, s.counterparty, c.claimed, s.status))
          BY <4>1, <4>3, <5>1 DEF DiffClaim
        <5> QED
          BY <5>2, <5>3 DEF IsAboutClaim, _finding
      <4> QED
        BY <4>2, <4>3
    <3>2. PICK f : matches' = matches /\ findings' = Append(findings, f) /\ IsAboutClaim(f, i)
      BY <3>1
    <3>3. i \notin Agreed /\ i \in Refuted
      BY <2>2, <1>4
    <3>4. Count(Agreed, i) = Count(Agreed, j) /\ Count(Refuted, i) = Count(Refuted, j) + 1
      BY <3>3, <1>6
    <3>5. /\ Len(findings') = Len(findings) + 1 /\ findings'[Len(findings) + 1] = f
          /\ \A k \in 1 .. Len(findings) : findings'[k] = findings[k]
      BY <3>2, <1>2, LongerSequence
    <3>6. ASSUME NEW k \in Refuted, k =< j
          PROVE  findings'[Count(Refuted, k)] = findings[Count(Refuted, k)]
      <4>1. Count(Refuted, k) \in 1 .. Count(Refuted, j)
        BY <3>6, <1>2, Positions, CountOfMember
      <4> QED
        BY <4>1, <3>5, <1>5
    <3>7. IsAboutClaim(findings'[Count(Refuted, i)], i)
      BY <3>2, <3>4, <3>5, <1>5
    <3>8. \A k \in Refuted : k =< i => IsAboutClaim(findings'[Count(Refuted, k)], k)
      BY <3>6, <3>7, <1>5, <1>7
    <3>9. matches' = Count(Agreed, i) /\ Len(findings') = Count(Refuted, i)
      BY <3>2, <3>4, <3>5, <1>5
    <3>10. Count(Agreed, j) + (Count(Refuted, j) + 1) = j + 1
      BY <1>5, <1>6
    <3>11. matches' + Count(Refuted, i) = i
      BY <3>4, <3>9, <3>10, <1>3
    <3> QED
      BY <3>8, <3>9, <3>11
  <2> QED
    BY <2>1, <2>2
<1>9. PICK n : n = i
  OBVIOUS
<1>10. i' - 1 = n
  BY <1>1, <1>2, <1>9
<1>11. SettledTo(n)' /\ (Len(findings) = Count(Refuted, n))'
  <2>1. \A S, m : Count(S, m)' = Count(S, m)
    BY DEF Count
  <2>2. Agreed' = Agreed /\ Refuted' = Refuted /\ \A f, k : IsAboutClaim(f, k)' <=> IsAboutClaim(f, k)
    BY <1>1, SameSettled
  <2>3. SettledTo(n)'
    BY <2>1, <2>2, <1>8, <1>9 DEF SettledTo
  <2> QED
    BY <2>1, <2>2, <2>3, <1>8, <1>9
<1>12. (SettledTo(i - 1) /\ Len(findings) = Count(Refuted, i - 1))'
  BY <1>10, <1>11
<1> QED
  BY <1>1, <1>2, <1>12 DEF SettledInv, Reconciled

(* One more step: it is disclosed, or has the next finding.                 *)
LEMMA StepSettles ==
  ASSUME DiffInv, SettledInv, DiffStep
  PROVE  SettledInv'
<1> DEFINE b == Count(Refuted, Len(claims))
<1>1. /\ pc = "undisclosed" /\ pc' = "undisclosed" /\ i' = i + 1 /\ i =< Len(steps)
      /\ UNCHANGED <<claims, steps, matches, error>>
  BY DEF DiffStep, arguments
<1>2. /\ IsSequence(claims) /\ IsSequence(steps) /\ IsSequence(findings) /\ i \in Nat \ {0}
      /\ SettledTo(Len(claims)) /\ ListedTo(i - 1) /\ ~error
      /\ mentioned = Mentioned(Len(claims) + 1)
  BY <1>1 DEF DiffInv, SettledInv
<1>3. PICK j \in Nat : j + 1 = i /\ j = i - 1
  <2>1. i - 1 \in Nat /\ (i - 1) + 1 = i
    BY <1>2
  <2> QED
    BY <2>1
<1>4. i \in DOMAIN steps /\ (i \in Hidden <=> ~Disclosed(steps[i]))
  BY <1>1, <1>2, Positions DEF Hidden
<1>5. Undisclosed(steps[i], mentioned) <=> i \in Hidden
  <2>1. DOMAIN claims = 1 .. Len(claims) /\ (Len(claims) + 1) - 1 = Len(claims)
    BY <1>2, Positions
  <2> QED
    BY <2>1, <1>2, <1>4 DEF Undisclosed, Disclosed, Mentioned
<1>6. /\ b \in Nat /\ Count(Hidden, j) \in Nat
      /\ Count(Hidden, i) = IF i \in Hidden THEN Count(Hidden, j) + 1 ELSE Count(Hidden, j)
  <2>1. Hidden \in SUBSET (Nat \ {0}) /\ Refuted \in SUBSET (Nat \ {0}) /\ Len(claims) \in Nat
    BY <1>2, Positions
  <2>2. Count(Hidden, j) \in Nat /\ b \in Nat
    BY <2>1, CountType
  <2>3. Count(Hidden, j + 1) = IF j + 1 \in Hidden THEN Count(Hidden, j) + 1 ELSE Count(Hidden, j)
    BY <2>1, CountNext
  <2> QED
    BY <2>2, <2>3, <1>3
<1>7. \A k \in Hidden : k \in Nat /\ (k =< i <=> k =< j \/ k = i)
  BY <1>2, <1>3, Positions
<1>8. /\ Len(findings) = b + Count(Hidden, j)
      /\ \A k \in Hidden : k =< j => IsAboutStep(findings[b + Count(Hidden, k)], k)
      /\ matches = Count(Agreed, Len(claims)) /\ matches + b = Len(claims)
      /\ \A k \in Refuted : k =< Len(claims) => IsAboutClaim(findings[Count(Refuted, k)], k)
  BY <1>2, <1>3 DEF ListedTo, SettledTo
<1> HIDE DEF b
<1>9. /\ Len(findings') = b + Count(Hidden, i)
      /\ \A k \in Hidden : k =< i => IsAboutStep(findings'[b + Count(Hidden, k)], k)
      /\ \A k \in 1 .. Len(findings) : findings'[k] = findings[k]
  <2>1. CASE i \notin Hidden
    <3>1. findings' = findings /\ Count(Hidden, i) = Count(Hidden, j)
      BY <2>1, <1>5, <1>6 DEF DiffStep
    <3>2. \A k \in Hidden : k =< i => k =< j
      BY <2>1, <1>7
    <3> QED
      BY <3>1, <3>2, <1>8
  <2>2. CASE i \in Hidden
    <3>1. \E f : findings' = Append(findings, f) /\ IsAboutStep(f, i)
      BY <2>2, <1>5 DEF DiffStep, IsAboutStep, _finding
    <3>2. PICK f : findings' = Append(findings, f) /\ IsAboutStep(f, i)
      BY <3>1
    <3>3. Count(Hidden, i) = Count(Hidden, j) + 1
      BY <2>2, <1>6
    <3>4. /\ Len(findings') = Len(findings) + 1 /\ findings'[Len(findings) + 1] = f
          /\ \A k \in 1 .. Len(findings) : findings'[k] = findings[k]
      BY <3>2, <1>2, LongerSequence
    <3>5. ASSUME NEW k \in Hidden, k =< j
          PROVE  findings'[b + Count(Hidden, k)] = findings[b + Count(Hidden, k)]
      <4>1. Count(Hidden, k) \in 1 .. Count(Hidden, j)
        BY <3>5, <1>2, Positions, CountOfMember
      <4>2. b + Count(Hidden, k) \in 1 .. Len(findings)
        BY <4>1, <1>6, <1>8
      <4> QED
        BY <4>2, <3>4
    <3>6. (b + Count(Hidden, j)) + 1 = b + Count(Hidden, i)
      BY <3>3, <1>6
    <3>7. IsAboutStep(findings'[b + Count(Hidden, i)], i)
      BY <3>2, <3>4, <3>6, <1>8
    <3>8. \A k \in Hidden : k =< i => IsAboutStep(findings'[b + Count(Hidden, k)], k)
      BY <3>5, <3>7, <1>7, <1>8
    <3> QED
      BY <3>4, <3>6, <3>8, <1>8
  <2> QED
    BY <2>1, <2>2
<1>10. \A k \in Refuted : k =< Len(claims) => IsAboutClaim(findings'[Count(Refuted, k)], k)
  <2> SUFFICES ASSUME NEW k \in Refuted, k =< Len(claims)
               PROVE  findings'[Count(Refuted, k)] = findings[Count(Refuted, k)]
    BY <1>8
  <2>1. Count(Refuted, k) \in 1 .. b
    BY <1>2, Positions, CountOfMember DEF b
  <2>2. Count(Refuted, k) \in 1 .. Len(findings)
    BY <2>1, <1>6, <1>8
  <2> QED
    BY <2>2, <1>9
<1>11. PICK n : n = i
  OBVIOUS
<1>12. i' - 1 = n
  BY <1>1, <1>2, <1>11
<1>13. SettledTo(Len(claims))' /\ ListedTo(n)'
  <2>1. \A S, m : Count(S, m)' = Count(S, m)
    BY DEF Count
  <2>2. /\ Agreed' = Agreed /\ Refuted' = Refuted /\ Hidden' = Hidden
        /\ \A f, k : IsAboutClaim(f, k)' <=> IsAboutClaim(f, k)
        /\ \A f, k : IsAboutStep(f, k)' <=> IsAboutStep(f, k)
    BY <1>1, SameSettled
  <2>3. SettledTo(Len(claims))'
    BY <2>1, <2>2, <1>1, <1>8, <1>10 DEF SettledTo, b
  <2>4. ListedTo(n)'
    BY <2>1, <2>2, <1>1, <1>9, <1>11 DEF ListedTo, b
  <2> QED
    BY <2>3, <2>4
<1>14. ListedTo(i - 1)'
  BY <1>12, <1>13
<1> QED
  BY <1>1, <1>2, <1>13, <1>14 DEF SettledInv, Reconciled

LEMMA SettledInvHolds == Spec => []SettledInv
<1>1. Init => SettledInv
  BY DEF Init, SettledInv, Reconciled
<1>2. DiffInv /\ SettledInv /\ [Next]_vars => SettledInv'
  <2> SUFFICES ASSUME DiffInv, SettledInv, [Next]_vars PROVE SettledInv'
    OBVIOUS
  <2> USE DEF arguments, results
  <2>1. CASE UNCHANGED <<pc, claims, steps, i, findings, matches, bound, error>>
    <3>1. /\ SettledTo(i - 1)' <=> SettledTo(i - 1)
          /\ SettledTo(Len(claims))' <=> SettledTo(Len(claims))
          /\ ListedTo(i - 1)' <=> ListedTo(i - 1)
          /\ ListedTo(Len(steps))' <=> ListedTo(Len(steps))
          /\ Count(Refuted, i - 1)' = Count(Refuted, i - 1)
      BY <2>1, SameResults, SameSettled DEF Count
    <3> QED
      BY <2>1, <3>1 DEF SettledInv, Reconciled
  <2>2. CASE \E e \in Entry : Log(e)
    BY <2>1, <2>2 DEF Log
  <2>3. CASE Malformed
    BY <2>3 DEF Malformed, SettledInv, Reconciled
  <2>4. CASE /\ pc \in {"idle", "parse", "bind"} /\ pc' \in {"parse", "bind"}
             /\ UNCHANGED <<findings, matches, bound, error>>
    BY <2>4 DEF SettledInv, Reconciled
  <2>5. CASE /\ pc \in {"parse", "bind"} /\ pc' = "diff" /\ i' = 1
             /\ UNCHANGED <<claims, steps, findings, matches, error>>
    <3>1. findings = <<>> /\ matches = 0 /\ ~error /\ IsSequence(claims) /\ IsSequence(steps)
      BY <2>5 DEF SettledInv, DiffInv
    <3>2. Agreed \in SUBSET (Nat \ {0}) /\ Refuted \in SUBSET (Nat \ {0})
      BY <3>1, Positions
    <3>3. Count(Agreed, 0) = 0 /\ Count(Refuted, 0) = 0
      BY <3>2, CountZero
    <3>4. SettledTo(0)
      BY <3>1, <3>2, <3>3 DEF SettledTo
    <3>5. SettledTo(0)' /\ Count(Refuted, 0)' = 0
      BY <2>5, <3>3, <3>4, SameResults, SameSettled DEF Count
    <3>6. i' - 1 = 0 /\ Len(findings') = 0
      BY <2>5, <3>1
    <3>7. (SettledTo(i - 1) /\ Len(findings) = Count(Refuted, i - 1))'
      BY <3>5, <3>6
    <3> QED
      BY <2>5, <3>1, <3>7 DEF SettledInv, Reconciled
  <2>6. CASE Calls
    <3>1. PICK args \in Arguments : Call(args[1], args[2], args[3], args[4])
      BY <2>6 DEF Calls
    <3> QED
      BY <3>1, <2>3, <2>4 DEF Call
  <2>7. CASE ParseEntry
    <3>1. PICK s \in Parsed(entries[i], Ordinal) :
             IF s = Raise THEN Malformed /\ UNCHANGED <<i, steps>>
             ELSE /\ steps' = IF s = None THEN steps ELSE Append(steps, s)
                  /\ i' = i + 1
                  /\ UNCHANGED <<pc, results>>
      BY <2>7 DEF ParseEntry
    <3>2. pc = "parse"
      BY <2>7 DEF ParseEntry
    <3>3. Malformed \/ UNCHANGED <<pc, findings, matches, bound, error>>
      BY <3>1
    <3> QED
      BY <3>2, <3>3, <2>3, <2>4
  <2>8. CASE EndParse
    BY <2>8, <2>4, <2>5 DEF EndParse
  <2>9. CASE BindEntry
    BY <2>9, <2>4 DEF BindEntry
  <2>10. CASE EndBind
    BY <2>10, <2>3, <2>5 DEF EndBind
  <2>11. CASE DiffClaim
    BY <2>11, ClaimSettles
  <2>12. CASE EndClaims
    <3>1. /\ pc = "diff" /\ pc' = "undisclosed" /\ i > Len(claims) /\ i' = 1
          /\ UNCHANGED <<claims, steps, findings, matches, error>>
      BY <2>12 DEF EndClaims
    <3>2. i = Len(claims) + 1 /\ IsSequence(claims) /\ IsSequence(steps) /\ Len(claims) \in Nat
      BY <3>1 DEF DiffInv, IsSequence
    <3>3. Hidden \in SUBSET (Nat \ {0}) /\ Refuted \in SUBSET (Nat \ {0})
      BY <3>2, Positions
    <3>4. Count(Hidden, 0) = 0 /\ Count(Refuted, Len(claims)) \in Nat /\ i - 1 = Len(claims)
      <4>1. Count(Hidden, 0) = 0
        BY <3>3, CountZero
      <4>2. Count(Refuted, Len(claims)) \in Nat
        BY <3>2, <3>3, CountType
      <4> QED
        BY <4>1, <4>2, <3>2
    <3>5. SettledTo(Len(claims)) /\ Len(findings) = Count(Refuted, Len(claims)) /\ ~error
      BY <3>1, <3>4 DEF SettledInv
    <3>6. ListedTo(0)
      BY <3>3, <3>4, <3>5 DEF ListedTo
    <3>7. SettledTo(Len(claims))' /\ ListedTo(0)'
      BY <3>1, <3>5, <3>6, SameResults
    <3>8. i' - 1 = 0
      BY <3>1
    <3>9. ListedTo(i - 1)'
      BY <3>7, <3>8
    <3> QED
      BY <3>1, <3>5, <3>7, <3>9 DEF SettledInv, Reconciled
  <2>13. CASE DiffStep
    BY <2>13, StepSettles
  <2>14. CASE Return
    <3>1. /\ pc = "undisclosed" /\ pc' = "done" /\ i > Len(steps)
          /\ UNCHANGED <<claims, steps, findings, matches, error>>
      BY <2>14 DEF Return
    <3>2. i - 1 = Len(steps)
      BY <3>1 DEF DiffInv, IsSequence
    <3>3. SettledTo(Len(claims)) /\ ListedTo(Len(steps)) /\ ~error
      BY <3>1, <3>2 DEF SettledInv
    <3>4. SettledTo(Len(claims))' /\ ListedTo(Len(steps))'
      BY <3>1, <3>3, SameResults
    <3> QED
      BY <3>1, <3>3, <3>4 DEF SettledInv, Reconciled
  <2> QED
    BY <2>1, <2>2, <2>6, <2>7, <2>8, <2>9, <2>10, <2>11, <2>12, <2>13, <2>14
    DEF Next, vars
<1> QED
  BY <1>1, <1>2, DiffInvHolds, PTL DEF Spec

(* Every claim is counted as a match if the record agrees with it, and has  *)
(* a finding of its own, in the claims' order, if not; an error result has  *)
(* neither (reconcile), for any number of claims and entries.               *)
THEOREM ClaimsAreSettled == Spec => []EveryClaimIsSettled
<1>1. DiffInv /\ SettledInv => EveryClaimIsSettled
  <2> SUFFICES ASSUME DiffInv, SettledInv, Reconciled
               PROVE  /\ matches = Cardinality(Agreed)
                      /\ Len(findings) >= Cardinality(Refuted)
                      /\ \A k \in Refuted : IsAboutClaim(findings[Count(Refuted, k)], k)
    BY DEF EveryClaimIsSettled, SettledInv, Agreed, Refuted, IsAboutClaim, Count
  <2>1. /\ IsSequence(claims) /\ IsSequence(steps) /\ SettledTo(Len(claims))
        /\ ListedTo(Len(steps))
    BY DEF DiffInv, SettledInv
  <2>2. Count(Agreed, Len(claims)) = Cardinality(Agreed)
    BY <2>1, Positions, CountAll
  <2>3. Count(Refuted, Len(claims)) = Cardinality(Refuted) /\ Cardinality(Refuted) \in Nat
    BY <2>1, Positions, CountAll
  <2>4. Count(Hidden, Len(steps)) \in Nat
    BY <2>1, Positions, CountType
  <2>5. \A k \in Refuted : k =< Len(claims)
    BY <2>1, Positions
  <2> QED
    BY <2>1, <2>2, <2>3, <2>4, <2>5 DEF SettledTo, ListedTo
<1> QED
  BY <1>1, DiffInvHolds, SettledInvHolds, PTL

(* Each refusal in the chain that no claim mentions is reported once, in    *)
(* chain order, after all findings about claims (reconcile).                *)
THEOREM RefusalsAreReported == Spec => []RefusalsAreListed
<1>1. DiffInv /\ SettledInv => RefusalsAreListed
  <2> SUFFICES ASSUME DiffInv, SettledInv, Reconciled
               PROVE  /\ Len(findings) = (Len(claims) - matches) + Cardinality(Hidden)
                      /\ \A n \in Hidden :
                           IsAboutStep(findings[(Len(claims) - matches) + Count(Hidden, n)], n)
    BY DEF RefusalsAreListed, Hidden, IsAboutStep, Count
  <2>1. /\ IsSequence(claims) /\ IsSequence(steps) /\ SettledTo(Len(claims))
        /\ ListedTo(Len(steps))
    BY DEF DiffInv, SettledInv
  <2>2. Count(Hidden, Len(steps)) = Cardinality(Hidden)
    BY <2>1, Positions, CountAll
  <2>3. /\ Count(Agreed, Len(claims)) \in Nat /\ Count(Refuted, Len(claims)) \in Nat
        /\ Len(claims) \in Nat
    BY <2>1, Positions, CountType
  <2>4. Len(claims) - matches = Count(Refuted, Len(claims))
    BY <2>1, <2>3 DEF SettledTo
  <2>5. \A n \in Hidden : n =< Len(steps)
    BY <2>1, Positions
  <2> QED
    BY <2>1, <2>2, <2>4, <2>5 DEF ListedTo
<1> QED
  BY <1>1, DiffInvHolds, SettledInvHolds, PTL

-----------------------------------------------------------------------------
(* Types                                                                    *)

IsStep(s) == s.step \in Int /\ s.status # None

TypeInv ==
  /\ pc = "parse" => parser \in KnownParser
  /\ \A n \in DOMAIN entries : entries[n] = None \/ IsLogEntry(entries[n])
  /\ \A k \in DOMAIN claims : claims[k].step \in Int /\ claims[k].claimed \in CLAIMED
  /\ \A n \in DOMAIN steps : IsStep(steps[n])
  /\ \A k \in DOMAIN findings : findings[k].step \in Int
  /\ bound \in BOOLEAN \cup {None} /\ error \in BOOLEAN

(* No rule for a status makes it None. *)
LEMMA StatusIsText ==
  /\ \A status : OrUnknown(status) # None
  /\ \A verdict : FromVerdict(verdict) # None
  /\ \A status : FromStatus(status) # None
<1>1. \A status : OrUnknown(status) # None
  BY NoneIsNoStatus DEF OrUnknown
<1>2. ASSUME NEW verdict PROVE FromVerdict(verdict) # None
  <2>1. CASE verdict \in DOMAIN _HARNESS_VERDICTS
    <3>1. verdict \in {"allow", "deny", "ask", "handoff", "error"}
      BY <2>1 DEF _HARNESS_VERDICTS
    <3>2. _HARNESS_VERDICTS[verdict] \in {"done", "blocked", "declined", "handoff", "error"}
      BY <3>1 DEF _HARNESS_VERDICTS
    <3> QED
      BY <2>1, <3>2, NoneIsNoStatus DEF FromVerdict
  <2>2. CASE verdict \notin DOMAIN _HARNESS_VERDICTS
    BY <2>2, <1>1 DEF FromVerdict
  <2> QED
    BY <2>1, <2>2
<1>3. \A status : FromStatus(status) # None
  BY NoneIsNoStatus, <1>1 DEF FromStatus
<1> QED
  BY <1>1, <1>2, <1>3

(* Whatever the parser, a step it reads has an index and a status.          *)
LEMMA ParsedIsStep ==
  ASSUME parser \in KnownParser, NEW e, IsLogEntry(e), NEW ordinal \in Nat,
         NEW s \in Parsed(e, ordinal), s # None, s # Raise
  PROVE  IsStep(s)
<1>1. ASSUME NEW status, status # None, NEW party
      PROVE  IsStep(_step(e, ordinal, status, party))
  BY <1>1 DEF _step, IsStep, IsLogEntry
<1>2. \A r : r = parse_entry_sandbox(e, ordinal) => r = None \/ IsStep(r)
  BY <1>1, StatusIsText DEF parse_entry_sandbox
<1>3. \A r : r = parse_entry_harness(e, ordinal) => r = None \/ IsStep(r)
  BY <1>1, StatusIsText DEF parse_entry_harness
<1>4. \A r : r = parse_entry_auto(e, ordinal) => r = None \/ IsStep(r)
  BY <1>2, <1>3 DEF parse_entry_auto
<1>5. CASE parser = "custom"
  <2>1. PICK c \in Custom : s = _check_step(c)
    BY <1>5 DEF Parsed
  <2>2. IsAnswer(c)
    BY CustomAssumption
  <2>3. c \notin {None, Raise} /\ c.step # None /\ s = [c EXCEPT !.status = OrUnknown(@)]
    BY <2>1 DEF _check_step
  <2>4. c.step \in Int /\ c = [step |-> c.step, counterparty |-> c.counterparty,
                              status |-> c.status, reached |-> c.reached]
    BY <2>2, <2>3 DEF IsAnswer
  <2>5. s.step = c.step /\ s.status = OrUnknown(c.status)
    BY <2>3, <2>4
  <2> QED
    BY <2>4, <2>5, StatusIsText DEF IsStep
<1> QED
  BY <1>2, <1>3, <1>4, <1>5 DEF Parsed, KnownParser

LEMMA NormalizedClaim ==
  ASSUME NEW c, IsRawClaim(c), WellFormed(c)
  PROVE  _normalized(c).step \in Int /\ _normalized(c).claimed \in CLAIMED
<1>1. /\ c = [step |-> c.step, counterparty |-> c.counterparty, claimed |-> c.claimed]
      /\ c.step \in Int /\ normalize_claimed(c.claimed) # None
  BY DEF IsRawClaim, WellFormed
<1>2. /\ _normalized(c).step = c.step
      /\ _normalized(c).claimed = normalize_claimed(c.claimed)
  BY <1>1 DEF _normalized
<1>3. /\ c.claimed.text \in CLAIMED \cup {"declined by bank", "not attempted"}
      /\ normalize_claimed(c.claimed) = _CLAIMED_ALIASES[c.claimed.text]
  BY <1>1 DEF normalize_claimed, _CLAIMED_ALIASES
<1>4. _CLAIMED_ALIASES[c.claimed.text] \in CLAIMED
  BY <1>3 DEF _CLAIMED_ALIASES, CLAIMED
<1> QED
  BY <1>1, <1>2, <1>3, <1>4

LEMMA TypeInvHolds == Spec => []TypeInv
<1>1. Init => TypeInv
  <2>1. \A s : s = <<>> => DOMAIN s = {}
    OBVIOUS
  <2> QED
    BY <2>1 DEF Init, TypeInv
<1>2. DiffInv /\ BindInv /\ TypeInv /\ [Next]_vars => TypeInv'
  <2> SUFFICES ASSUME DiffInv, BindInv, TypeInv, [Next]_vars PROVE TypeInv'
    OBVIOUS
  <2> USE DEF arguments, results
  <2>1. CASE UNCHANGED <<entries, claims, steps, findings, bound, error>> /\ pc' # "parse"
    BY <2>1 DEF TypeInv, IsStep
  <2>2. CASE UNCHANGED <<entries, claims, steps>> /\ Malformed
    BY <2>2 DEF TypeInv, IsStep, Malformed
  <2>3. CASE \E e \in Entry : Log(e)
    <3>1. PICK e \in Entry : Log(e)
      BY <2>3
    <3>2. entries' = Append(entries, e)
          /\ UNCHANGED <<pc, parser, claims, steps, findings, bound, error>>
      BY <3>1 DEF Log
    <3>3. /\ DOMAIN entries' = DOMAIN entries \cup {Len(entries) + 1}
          /\ entries'[Len(entries) + 1] = e
          /\ \A m \in DOMAIN entries : entries'[m] = entries[m]
      BY <3>2, LoggingKeepsThePast DEF BindInv
    <3>4. e = None \/ IsLogEntry(e)
      BY EntryAssumption
    <3> QED
      BY <3>2, <3>3, <3>4 DEF TypeInv, IsStep
  <2>4. CASE Calls
    <3>1. PICK args \in Arguments : Call(args[1], args[2], args[3], args[4])
      BY <2>4 DEF Calls
    <3> DEFINE raw == OrEmpty(args[1])
    <3>2. CASE Malformed /\ UNCHANGED claims
      BY <3>1, <3>2, <2>2 DEF Call
    <3>3. CASE /\ args[1] # NoList
               /\ \A k \in DOMAIN raw : WellFormed(raw[k])
               /\ args[2] \in KnownParser
               /\ claims' = [k \in DOMAIN raw |-> _normalized(raw[k])]
               /\ UNCHANGED results
      <4>1. \A k \in DOMAIN raw : IsRawClaim(raw[k])
        BY <3>3, ListedClaims
      <4>2. \A k \in DOMAIN raw : /\ _normalized(raw[k]).step \in Int
                                  /\ _normalized(raw[k]).claimed \in CLAIMED
        BY <4>1, <3>3, NormalizedClaim
      <4>3. parser' = args[2] /\ UNCHANGED <<entries, steps>>
        BY <3>1 DEF Call
      <4> QED
        BY <3>3, <4>2, <4>3 DEF TypeInv, IsStep
    <3> QED
      BY <3>1, <3>2, <3>3 DEF Call
  <2>5. CASE ParseEntry
    <3>1. PICK s \in Parsed(entries[i], Ordinal) :
             IF s = Raise THEN Malformed /\ UNCHANGED <<i, steps>>
             ELSE /\ steps' = IF s = None THEN steps ELSE Append(steps, s)
                  /\ i' = i + 1
                  /\ UNCHANGED <<pc, results>>
      BY <2>5 DEF ParseEntry
    <3>2. pc = "parse" /\ i =< Len(entries) /\ UNCHANGED <<entries, claims, parser>>
      BY <2>5 DEF ParseEntry
    <3>3. i \in DOMAIN entries /\ IsSequence(steps) /\ Len(steps) \in Nat
      BY <3>2 DEF BindInv, DiffInv, IsSequence
    <3>4. IsLogEntry(entries[i]) /\ parser \in KnownParser
      BY <3>2, <3>3 DEF BindInv, TypeInv
    <3>5. CASE s = Raise
      BY <3>1, <3>2, <3>5, <2>2
    <3>6. CASE s # Raise /\ s = None
      BY <3>1, <3>2, <3>6 DEF TypeInv, IsStep
    <3>7. CASE s # Raise /\ s # None
      <4>1. IsStep(s)
        BY <3>3, <3>4, <3>7, ParsedIsStep DEF Ordinal
      <4>2. steps' = Append(steps, s) /\ UNCHANGED <<pc, findings, bound, error>>
        BY <3>1, <3>7
      <4>3. /\ IsSequence(steps') /\ Len(steps') = Len(steps) + 1
            /\ \A k \in 1 .. Len(steps) : steps'[k] = steps[k]
            /\ steps'[Len(steps) + 1] = s
        BY <4>2, <3>3, LongerSequence
      <4>4. /\ DOMAIN steps' = 1 .. Len(steps) + 1 /\ DOMAIN steps = 1 .. Len(steps)
        BY <4>3, <3>3 DEF IsSequence
      <4>5. \A n \in DOMAIN steps' : IsStep(steps'[n])
        BY <4>1, <4>3, <4>4, <3>3 DEF TypeInv
      <4> QED
        BY <4>2, <4>5, <3>2 DEF TypeInv, IsStep
    <3> QED
      BY <3>5, <3>6, <3>7
  <2>6. CASE EndParse
    BY <2>6, <2>1 DEF EndParse
  <2>7. CASE BindEntry
    BY <2>7, <2>1 DEF BindEntry
  <2>8. CASE EndBind
    <3>1. UNCHANGED <<entries, claims, steps>>
      BY <2>8 DEF EndBind
    <3>2. CASE Malformed
      BY <3>1, <3>2, <2>2
    <3>3. CASE /\ bound' = IF found = None THEN None ELSE Commits(found, summary)
               /\ pc' = "diff" /\ UNCHANGED <<findings, error>>
      <4>1. bound' \in BOOLEAN \cup {None}
        BY <3>3 DEF Commits
      <4> QED
        BY <3>1, <3>3, <4>1 DEF TypeInv, IsStep
    <3> QED
      BY <2>8, <3>2, <3>3 DEF EndBind
  <2>9. ASSUME NEW f, f.step \in Int, findings' = Append(findings, f),
               UNCHANGED <<entries, claims, steps, bound, error>>, pc' # "parse"
        PROVE  TypeInv'
    <3>1. /\ IsSequence(findings') /\ Len(findings') = Len(findings) + 1
          /\ \A k \in 1 .. Len(findings) : findings'[k] = findings[k]
          /\ findings'[Len(findings) + 1] = f
      BY <2>9, LongerSequence DEF DiffInv
    <3>2. DOMAIN findings' = 1 .. Len(findings) + 1 /\ DOMAIN findings = 1 .. Len(findings)
          /\ Len(findings) \in Nat
      BY <3>1 DEF DiffInv, IsSequence
    <3>3. \A k \in DOMAIN findings' : findings'[k].step \in Int
      BY <2>9, <3>1, <3>2 DEF TypeInv
    <3> QED
      BY <2>9, <3>3 DEF TypeInv, IsStep
  <2>10. CASE DiffClaim
    <3>1. /\ pc = "diff" /\ i =< Len(claims) /\ IsSequence(steps)
          /\ UNCHANGED <<pc, entries, claims, steps, bound, error>>
      BY <2>10 DEF DiffClaim, DiffInv
    <3>2. i \in DOMAIN claims
      BY <3>1 DEF DiffInv, IsSequence
    <3> DEFINE c == claims[i]
    <3>3. c.step \in Int
      BY <3>2 DEF TypeInv
    <3>4. PICK s : s = by_index(c.step)
      OBVIOUS
    <3>5. CASE Missing(c, s)
      <4>1. findings' = Append(findings, _finding("no_entry", c.step, c.counterparty, c.claimed, None))
        BY <3>4, <3>5, <2>10 DEF DiffClaim
      <4>2. _finding("no_entry", c.step, c.counterparty, c.claimed, None).step = c.step
        BY DEF _finding
      <4> QED
        BY <3>1, <3>3, <4>1, <4>2, <2>9
    <3>6. CASE ~Missing(c, s) /\ Contradicted(c, s)
      <4>1. s.step = c.step
        BY <3>1, <3>4, <3>6, StepOfIndex DEF Missing
      <4>2. findings' = Append(findings,
              _finding("contradicted", s.step, s.counterparty, c.claimed, s.status))
        BY <3>4, <3>6, <2>10 DEF DiffClaim
      <4>3. _finding("contradicted", s.step, s.counterparty, c.claimed, s.status).step = s.step
        BY DEF _finding
      <4> QED
        BY <3>1, <3>3, <4>1, <4>2, <4>3, <2>9
    <3>7. CASE ~Missing(c, s) /\ ~Contradicted(c, s)
      <4>1. findings' = findings
        BY <3>4, <3>7, <2>10 DEF DiffClaim
      <4> QED
        BY <4>1, <3>1, <2>1
    <3> QED
      BY <3>5, <3>6, <3>7
  <2>11. CASE EndClaims
    BY <2>11, <2>1 DEF EndClaims
  <2>12. CASE DiffStep
    <3>1. /\ pc = "undisclosed" /\ i =< Len(steps)
          /\ UNCHANGED <<pc, entries, claims, steps, bound, error>>
      BY <2>12 DEF DiffStep
    <3>2. i \in DOMAIN steps
      BY <3>1 DEF DiffInv, IsSequence
    <3>3. steps[i].step \in Int
      BY <3>2 DEF TypeInv, IsStep
    <3>4. \/ findings' = findings
          \/ \E f : f.step = steps[i].step /\ findings' = Append(findings, f)
      BY <2>12 DEF DiffStep, _finding
    <3> QED
      BY <3>1, <3>3, <3>4, <2>1, <2>9
  <2>13. CASE Return
    BY <2>13, <2>1 DEF Return
  <2>14. CASE UNCHANGED vars
    BY <2>14 DEF vars, TypeInv, IsStep
  <2> QED
    BY <2>3, <2>4, <2>5, <2>6, <2>7, <2>8, <2>10, <2>11, <2>12, <2>13, <2>14 DEF Next
<1> QED
  BY <1>1, <1>2, DiffInvHolds, BindInvHolds, PTL DEF Spec

(* The types of reconcile's state: no more matches than claims, accepted    *)
(* labels only, and an index and a status for every step, of any parser.    *)
THEOREM ReconcileTypes == Spec => []TypeOK
<1>1. DiffInv /\ SettledInv /\ TypeInv => TypeOK
  <2> SUFFICES ASSUME DiffInv, SettledInv, TypeInv PROVE TypeOK
    OBVIOUS
  <2>1. matches \in 0 .. Len(claims)
    <3>1. /\ IsSequence(claims) /\ IsSequence(steps) /\ i \in Nat \ {0}
          /\ Len(claims) \in Nat
      BY DEF DiffInv, IsSequence
    <3>2. ASSUME NEW n \in 0 .. Len(claims), SettledTo(n) PROVE matches \in 0 .. Len(claims)
      <4>1. Agreed \in SUBSET (Nat \ {0}) /\ n \in Nat
        BY <3>1, Positions
      <4>2. Count(Agreed, n) \in Nat /\ Count(Agreed, n) =< n
        BY <4>1, CountType
      <4> QED
        BY <4>2, <3>1, <3>2 DEF SettledTo
    <3>3. CASE pc = "diff"
      <4>1. i - 1 \in 0 .. Len(claims) /\ SettledTo(i - 1)
        BY <3>1, <3>3 DEF DiffInv, SettledInv
      <4> QED
        BY <4>1, <3>2
    <3>4. CASE pc = "undisclosed" \/ Reconciled
      BY <3>1, <3>2, <3>4 DEF SettledInv
    <3>5. CASE pc \in {"idle", "parse", "bind"} \/ error
      BY <3>1, <3>5 DEF SettledInv
    <3> QED
      BY <3>3, <3>4, <3>5 DEF DiffInv, Reconciled
  <2> QED
    BY <2>1 DEF TypeOK, DiffInv, TypeInv, IsStep
<1> QED
  BY <1>1, DiffInvHolds, SettledInvHolds, TypeInvHolds, PTL

-----------------------------------------------------------------------------
(* Ordinals                                                                 *)

(* A step is never None. *)
NoneIsNoStep ==
  \A step, party, status, reached :
    [step |-> step, counterparty |-> party, status |-> status, reached |-> reached] # None

BuiltIn == parser \in KnownParser \ {"custom"}

IsNumbered(k) ==
  \E n \in StepEntries : Count(StepEntries, n) = k /\ Parsed(entries[n], k - 1) = {steps[k]}

(* The steps read so far are numbered, and as many as the step entries      *)
(* that the loop has passed.                                                *)
OrdinalInv ==
  /\ pc = "idle" => steps = <<>> /\ i = 1
  /\ pc = "parse" /\ BuiltIn => i =< Len(entries) + 1 /\ Len(steps) = Count(StepEntries, i - 1)
  /\ BuiltIn => \A k \in DOMAIN steps : IsNumbered(k)

(* A built-in parser reads an entry in one way, and whether it is a step    *)
(* does not depend on the ordinal.                                          *)
LEMMA OneReading ==
  ASSUME NoneIsNoStep, BuiltIn, NEW e, NEW m, NEW n, NEW s \in Parsed(e, n)
  PROVE  Parsed(e, n) = {s} /\ (s # None <=> Parsed(e, m) # {None})
<1>1. \A ordinal, status, party : _step(e, ordinal, status, party) # None
  BY DEF NoneIsNoStep, _step
<1>2. parse_entry_sandbox(e, n) = None <=> parse_entry_sandbox(e, m) = None
  BY <1>1 DEF parse_entry_sandbox
<1>3. parse_entry_harness(e, n) = None <=> parse_entry_harness(e, m) = None
  BY <1>1 DEF parse_entry_harness
<1>4. parse_entry_auto(e, n) = None <=> parse_entry_auto(e, m) = None
  BY <1>2, <1>3 DEF parse_entry_auto
<1>5. CASE parser = "auto"
  BY <1>4, <1>5 DEF Parsed
<1>6. CASE parser = "sandbox"
  BY <1>2, <1>6 DEF Parsed
<1>7. CASE parser = "harness"
  BY <1>3, <1>7 DEF Parsed
<1> QED
  BY <1>5, <1>6, <1>7 DEF BuiltIn, KnownParser

LEMMA StepPositions ==
  ASSUME IsSequence(entries)
  PROVE  StepEntries \in SUBSET (Nat \ {0}) /\ Len(entries) \in Nat
<1>1. DOMAIN entries = 1 .. Len(entries) /\ Len(entries) \in Nat
  BY DEF IsSequence
<1> QED
  BY <1>1 DEF StepEntries

LEMMA SameNumbers ==
  ASSUME UNCHANGED <<entries, parser, steps>>
  PROVE  /\ StepEntries' = StepEntries /\ (BuiltIn' <=> BuiltIn)
         /\ \A n : Count(StepEntries, n)' = Count(StepEntries, n)
         /\ \A k : IsNumbered(k)' <=> IsNumbered(k)
<1>1. \A e, n : Parsed(e, n)' = Parsed(e, n)
  BY DEF Parsed
<1>2. StepEntries' = StepEntries
  BY <1>1 DEF StepEntries
<1> QED
  BY <1>1, <1>2 DEF BuiltIn, Count, IsNumbered

(* An entry that is logged comes after all that were counted.               *)
LEMMA LogNumbers ==
  ASSUME IsSequence(entries), NEW e, entries' = Append(entries, e), UNCHANGED <<parser, steps>>
  PROVE  /\ (BuiltIn' <=> BuiltIn)
         /\ \A n \in 0 .. Len(entries) : Count(StepEntries, n)' = Count(StepEntries, n)
         /\ \A k : IsNumbered(k) => IsNumbered(k)'
<1>1. /\ Len(entries) \in Nat /\ Len(entries') = Len(entries) + 1
      /\ DOMAIN entries' = DOMAIN entries \cup {Len(entries) + 1}
      /\ \A m \in DOMAIN entries : entries'[m] = entries[m]
  BY LoggingKeepsThePast
<1>2. \A d, n : Parsed(d, n)' = Parsed(d, n)
  BY DEF Parsed
<1>3. \A m \in DOMAIN entries : m \in StepEntries' <=> m \in StepEntries
  BY <1>1, <1>2 DEF StepEntries
<1>4. DOMAIN entries = 1 .. Len(entries)
  BY DEF IsSequence
<1>5. ASSUME NEW n \in 0 .. Len(entries)
      PROVE  {m \in StepEntries : m =< n}' = {m \in StepEntries : m =< n}
  <2>1. \A m \in StepEntries : m \in DOMAIN entries
    BY DEF StepEntries
  <2>2. \A m \in StepEntries' : m \in DOMAIN entries \/ m = Len(entries) + 1
    BY <1>1 DEF StepEntries
  <2>3. ~(Len(entries) + 1 =< n)
    BY <1>1
  <2> QED
    BY <1>3, <2>1, <2>2, <2>3
<1>6. \A n \in 0 .. Len(entries) : Count(StepEntries, n)' = Count(StepEntries, n)
  BY <1>5 DEF Count
<1>7. ASSUME NEW k, IsNumbered(k) PROVE IsNumbered(k)'
  <2>1. PICK n \in StepEntries : Count(StepEntries, n) = k /\ Parsed(entries[n], k - 1) = {steps[k]}
    BY <1>7 DEF IsNumbered
  <2>2. n \in DOMAIN entries /\ n \in StepEntries'
    BY <1>3 DEF StepEntries
  <2>3. Count(StepEntries, n)' = k
    BY <2>1, <2>2, <1>4, <1>6
  <2>4. (Parsed(entries[n], k - 1) = {steps[k]})'
    BY <2>1, <2>2, <1>1, <1>2
  <2> QED
    BY <2>2, <2>3, <2>4 DEF IsNumbered
<1> QED
  BY <1>6, <1>7 DEF BuiltIn

(* One more entry: no step, or one that follows those counted so far.       *)
LEMMA EntryNumbers ==
  ASSUME NoneIsNoStep, DiffInv, BindInv, OrdinalInv, ParseEntry
  PROVE  OrdinalInv'
<1>1. PICK s \in Parsed(entries[i], Len(steps)) :
         IF s = Raise THEN Malformed /\ UNCHANGED <<i, steps>>
         ELSE /\ steps' = IF s = None THEN steps ELSE Append(steps, s)
              /\ i' = i + 1
              /\ UNCHANGED <<pc, results>>
  BY DEF ParseEntry, Ordinal
<1>2. pc = "parse" /\ i =< Len(entries) /\ UNCHANGED <<entries, parser>>
  BY DEF ParseEntry, arguments
<1>3. /\ IsSequence(entries) /\ IsSequence(steps) /\ i \in Nat \ {0} /\ i \in DOMAIN entries
      /\ entries[i] # None /\ Len(entries) \in Nat /\ Len(steps) \in Nat
      /\ DOMAIN steps = 1 .. Len(steps)
  BY <1>2 DEF DiffInv, BindInv, IsSequence
<1>4. CASE s = Raise
  <2>1. pc' = "done" /\ UNCHANGED steps
    BY <1>1, <1>4 DEF Malformed
  <2> QED
    BY <1>2, <2>1, SameNumbers DEF OrdinalInv
<1>5. CASE s # Raise /\ ~BuiltIn
  <2>1. pc' = "parse" /\ ~BuiltIn'
    BY <1>1, <1>2, <1>5 DEF BuiltIn
  <2> QED
    BY <2>1 DEF OrdinalInv
<1>6. CASE s # Raise /\ BuiltIn
  <2>1. PICK j \in Nat : j + 1 = i /\ j = i - 1
    <3>1. i - 1 \in Nat /\ (i - 1) + 1 = i
      BY <1>3
    <3> QED
      BY <3>1
  <2>2. Len(steps) = Count(StepEntries, j) /\ \A k \in DOMAIN steps : IsNumbered(k)
    BY <1>2, <1>6, <2>1 DEF OrdinalInv
  <2>3. Parsed(entries[i], Len(steps)) = {s} /\ (s # None <=> i \in StepEntries)
    BY <1>3, <1>6, OneReading DEF StepEntries
  <2>4. Count(StepEntries, i) = IF i \in StepEntries THEN Len(steps) + 1 ELSE Len(steps)
    <3>1. StepEntries \in SUBSET (Nat \ {0})
      BY <1>3, StepPositions
    <3>2. Count(StepEntries, j + 1) = IF j + 1 \in StepEntries THEN Count(StepEntries, j) + 1
                                                               ELSE Count(StepEntries, j)
      BY <3>1, CountNext
    <3> QED
      BY <3>2, <2>1, <2>2
  <2>5. PICK n : n = i
    OBVIOUS
  <2>6. i' - 1 = n /\ i' =< Len(entries') + 1 /\ pc' = "parse"
    BY <1>1, <1>2, <1>3, <1>6, <2>5
  <2>7. /\ \A m : Parsed(entries[m], m)' = Parsed(entries[m], m)
        /\ StepEntries' = StepEntries /\ \A m : Count(StepEntries, m)' = Count(StepEntries, m)
    <3>1. \A e, m : Parsed(e, m)' = Parsed(e, m)
      BY <1>2 DEF Parsed
    <3>2. StepEntries' = StepEntries
      BY <1>2, <3>1 DEF StepEntries
    <3> QED
      BY <1>2, <3>1, <3>2 DEF Count
  <2>8. (Len(steps) = Count(StepEntries, n))' /\ \A k \in DOMAIN steps' : IsNumbered(k)'
    <3>1. CASE s = None
      <4>1. steps' = steps /\ Count(StepEntries, n) = Len(steps)
        BY <1>1, <1>6, <3>1, <2>3, <2>4, <2>5
      <4>2. \A k : IsNumbered(k)' <=> IsNumbered(k)
        BY <4>1, <1>2, SameNumbers
      <4> QED
        BY <4>1, <4>2, <2>2, <2>7
    <3>2. CASE s # None
      <4>1. /\ IsSequence(steps') /\ Len(steps') = Len(steps) + 1
            /\ \A k \in 1 .. Len(steps) : steps'[k] = steps[k]
            /\ steps'[Len(steps) + 1] = s
        <5>1. steps' = Append(steps, s)
          BY <1>1, <1>6, <3>2
        <5> QED
          BY <5>1, <1>3, LongerSequence
      <4>2. DOMAIN steps' = 1 .. Len(steps) + 1
        BY <4>1 DEF IsSequence
      <4>3. \A e, m : Parsed(e, m)' = Parsed(e, m)
        BY <1>2 DEF Parsed
      <4>4. n \in StepEntries /\ Count(StepEntries, n) = Len(steps) + 1
        BY <3>2, <2>3, <2>4, <2>5
      <4>5. ASSUME NEW k \in 1 .. Len(steps) PROVE IsNumbered(k)'
        <5>1. PICK m \in StepEntries : /\ Count(StepEntries, m) = k
                                       /\ Parsed(entries[m], k - 1) = {steps[k]}
          BY <1>3, <2>2 DEF IsNumbered
        <5>2. (Parsed(entries[m], k - 1) = {steps[k]})'
          BY <5>1, <4>1, <4>3, <1>2
        <5>3. m \in StepEntries' /\ Count(StepEntries, m)' = k
          BY <5>1, <2>7
        <5> QED
          BY <5>2, <5>3 DEF IsNumbered
      <4>6. ASSUME NEW k, k = Len(steps) + 1 PROVE IsNumbered(k)'
        <5>1. k - 1 = Len(steps)
          BY <4>6, <1>3
        <5>2. Parsed(entries[n], k - 1) = {s}
          BY <5>1, <2>3, <2>5
        <5>3. steps'[k] = s
          BY <4>1, <4>6
        <5>4. (Parsed(entries[n], k - 1) = {steps[k]})'
          BY <5>2, <5>3, <4>3, <1>2
        <5>5. n \in StepEntries' /\ Count(StepEntries, n)' = k
          BY <4>4, <4>6, <2>7
        <5> QED
          BY <5>4, <5>5 DEF IsNumbered
      <4>7. \A k \in DOMAIN steps' : k \in 1 .. Len(steps) \/ k = Len(steps) + 1
        BY <4>2, <1>3
      <4>8. \A k \in DOMAIN steps' : IsNumbered(k)'
        BY <4>5, <4>6, <4>7
      <4> QED
        BY <4>1, <4>4, <4>8, <2>7
    <3> QED
      BY <3>1, <3>2
  <2>9. (Len(steps) = Count(StepEntries, i - 1))'
    BY <2>6, <2>8
  <2> QED
    BY <2>6, <2>8, <2>9 DEF OrdinalInv
<1> QED
  BY <1>4, <1>5, <1>6

(* An entry with no step index of its own gets its ordinal among the step   *)
(* entries, counted from 0, however many other entries lie between them and *)
(* though the chain grows under the loop (_parse_steps).                    *)
THEOREM OrdinalsAreRight ==
  ASSUME NoneIsNoStep
  PROVE  Spec => []OrdinalsCountSteps
<1>1. Init => OrdinalInv
  <2>1. \A s : s = <<>> => DOMAIN s = {}
    OBVIOUS
  <2> QED
    BY <2>1 DEF Init, OrdinalInv, BuiltIn, KnownParser
<1>2. DiffInv /\ BindInv /\ OrdinalInv /\ [Next]_vars => OrdinalInv'
  <2> SUFFICES ASSUME DiffInv, BindInv, OrdinalInv, [Next]_vars PROVE OrdinalInv'
    OBVIOUS
  <2> USE DEF arguments, results
  <2>1. CASE UNCHANGED <<entries, parser, steps>> /\ pc' \notin {"idle", "parse"}
    BY <2>1, SameNumbers DEF OrdinalInv
  <2>2. CASE \E e \in Entry : Log(e)
    <3>1. PICK e \in Entry : Log(e)
      BY <2>2
    <3>2. entries' = Append(entries, e) /\ UNCHANGED <<pc, parser, steps, i>>
      BY <3>1 DEF Log
    <3>3. /\ IsSequence(entries) /\ i \in Nat \ {0} /\ Len(entries) \in Nat
          /\ IsSequence(entries') /\ Len(entries') = Len(entries) + 1
      BY <3>2, LongerSequence DEF BindInv, IsSequence
    <3>4. /\ (BuiltIn' <=> BuiltIn)
          /\ \A n \in 0 .. Len(entries) : Count(StepEntries, n)' = Count(StepEntries, n)
          /\ \A k : IsNumbered(k) => IsNumbered(k)'
      BY <3>2, <3>3, LogNumbers
    <3>5. PICK n : n = i - 1
      OBVIOUS
    <3>6. CASE pc = "parse" /\ BuiltIn
      <4>1. i =< Len(entries) + 1 /\ Len(steps) = Count(StepEntries, n)
        BY <3>5, <3>6 DEF OrdinalInv
      <4>2. n \in 0 .. Len(entries)
        BY <4>1, <3>3, <3>5
      <4>3. (Len(steps) = Count(StepEntries, n))' /\ i' =< Len(entries') + 1
        BY <4>1, <4>2, <3>2, <3>3, <3>4
      <4>4. (Len(steps) = Count(StepEntries, i - 1))'
        BY <4>3, <3>2, <3>5
      <4> QED
        BY <3>2, <3>4, <3>6, <4>3, <4>4 DEF OrdinalInv
    <3>7. CASE ~(pc = "parse" /\ BuiltIn)
      BY <3>2, <3>4, <3>7 DEF OrdinalInv
    <3> QED
      BY <3>6, <3>7
  <2>3. CASE Calls
    <3>1. PICK args \in Arguments : Call(args[1], args[2], args[3], args[4])
      BY <2>3 DEF Calls
    <3>2. /\ pc = "idle" /\ pc' \in {"parse", "done"} /\ UNCHANGED <<entries, i, steps>>
      BY <3>1 DEF Call, Malformed
    <3>3. steps' = <<>> /\ i' = 1 /\ Len(entries') \in Nat /\ IsSequence(entries')
      BY <3>2 DEF OrdinalInv, BindInv, IsSequence
    <3>4. i' - 1 = 0 /\ Len(steps') = 0 /\ DOMAIN steps' = {}
      BY <3>3
    <3>5. StepEntries' \in SUBSET (Nat \ {0})
      <4>1. DOMAIN entries' = 1 .. Len(entries')
        BY <3>3 DEF IsSequence
      <4> QED
        BY <4>1 DEF StepEntries
    <3>6. Count(StepEntries', 0) = 0
      BY <3>5, CountZero
    <3>7. (Len(steps) = Count(StepEntries, i - 1))'
      BY <3>4, <3>6 DEF Count
    <3> QED
      BY <3>2, <3>3, <3>4, <3>7 DEF OrdinalInv
  <2>4. CASE ParseEntry
    BY <2>4, EntryNumbers
  <2>5. CASE EndParse
    BY <2>5, <2>1 DEF EndParse
  <2>6. CASE BindEntry
    BY <2>6, <2>1 DEF BindEntry
  <2>7. CASE EndBind
    BY <2>7, <2>1 DEF EndBind, Malformed
  <2>8. CASE DiffClaim \/ EndClaims \/ DiffStep \/ Return
    BY <2>8, <2>1 DEF DiffClaim, EndClaims, DiffStep, Return
  <2>9. CASE UNCHANGED vars
    <3>1. UNCHANGED <<entries, parser, steps, pc, i>>
      BY <2>9 DEF vars
    <3>2. Count(StepEntries, i - 1)' = Count(StepEntries, i - 1)
      BY <3>1, SameNumbers DEF Count
    <3> QED
      BY <3>1, <3>2, SameNumbers DEF OrdinalInv
  <2> QED
    BY <2>2, <2>3, <2>4, <2>5, <2>6, <2>7, <2>8, <2>9 DEF Next
<1>3. OrdinalInv => OrdinalsCountSteps
  BY DEF OrdinalInv, OrdinalsCountSteps, BuiltIn, IsNumbered, Count
<1> QED
  BY <1>1, <1>2, <1>3, DiffInvHolds, BindInvHolds, PTL DEF Spec
=============================================================================
