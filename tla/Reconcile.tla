----------------------------- MODULE Reconcile -----------------------------
(***************************************************************************)
(* python/witnesskit/reconcile.py: the diff of a summary's claims against  *)
(* the entries of a chain, one loop iteration at a time.                   *)
(*                                                                         *)
(* reconcile takes the list of a live Chain as it is (_entries_of copies   *)
(* nothing) and walks it twice, once for the steps and once for the        *)
(* summary binding, so the agent may log further entries in between.       *)
(* After that it works on values of its own.                               *)
(***************************************************************************)
EXTENDS Integers, Sequences, FiniteSets

CONSTANTS
  None,        \* None: absent, or of a type the code ignores
  NoList,      \* a claims argument that is no list
  Entry,       \* what the chain may hold (see IsLogEntry)
  Arguments,   \* the calls tried (see IsCall)
  DigestOf,    \* the digests of those _summary_digest accepts: text, and the
               \* objects the canonical form takes
  Custom,      \* what a custom parser may return: steps, None, Raise
  Raise,       \* a custom parser raises, or returns no object
  MaxEntries   \* bound: entries in the chain

ASSUME DigestAssumption == None \notin DOMAIN DigestOf
ASSUME BoundAssumption == MaxEntries \in Nat

VARIABLES
  entries,     \* the live list of chain entries
  pc,          \* where reconcile is
  claims,      \* the claims argument, then claims_n
  parser,
  summary,
  i,           \* position in the list of the loop in progress
  steps,       \* the steps parsed so far
  found,       \* the digest in the last run.completed entry seen
  mentioned,   \* the step indices the summary speaks about
  findings,
  matches,
  bound,       \* summary_bound
  error,       \* whether the result is an error result
  known        \* history: the length of the chain when its steps had been read

arguments == <<claims, parser, summary>>
results == <<findings, matches, bound, error>>
vars == <<entries, pc, arguments, i, steps, found, mentioned, results, known>>

-----------------------------------------------------------------------------
(* Entries and steps                                                        *)

(* The form of an entry's action: "step.<verb>", with a colon in the verb   *)
(* or without; a bare "step."; "<verb>:<status>", and the same with a line  *)
(* break after it; "memory.recall"; "run.completed"; anything else, not     *)
(* text included.                                                           *)
Form == {"step", "step:", "step.", "verb:status", "verb:status\n", "recall",
         "completed", "other"}

(* Text is true in Python, an empty list or object is not. *)
Reference == {"absent", "text", "empty"}

(* Characters that are white space for one of the two languages only: the   *)
(* separators \x1c to \x1f and \x85 in Python, \ufeff in JavaScript.        *)
WhiteSpace == {"python", "javascript"}

IsTrue(reference) == reference = "text"

IsLogEntry(e) ==
  /\ e.form \in Form
  /\ e.space \subseteq WhiteSpace          \* such characters in the action
  /\ e.reference \in Reference
  /\ e.step \in Int \cup {None}           \* payload.step, if it is an integer

ASSUME EntryAssumption == \A e \in Entry : e = None \/ IsLogEntry(e)

_HARNESS_VERDICTS ==
  [allow |-> "done", deny |-> "blocked", ask |-> "declined",
   handoff |-> "handoff", error |-> "error"]

(* The status without its default. *)
NoDefault(status) == status

(* A verdict or status that is no text, or empty, is read as unknown.       *)
OrUnknown(status) == IF status = None THEN "unknown" ELSE status

FromVerdict(verdict) ==
  IF verdict \in DOMAIN _HARNESS_VERDICTS THEN _HARNESS_VERDICTS[verdict]
                                          ELSE OrUnknown(verdict)

FromStatus(status) ==
  IF status = "declined-by-rail" THEN "rejected" ELSE OrUnknown(status)

(* None is none of the statuses the rules name. *)
ASSUME NoneIsNoStatus ==
  None \notin {"unknown", "rejected", "done", "blocked", "declined", "handoff", "error"}

_step(e, ordinal, status, counterparty) ==
  [step         |-> IF e.step = None THEN ordinal ELSE e.step,
   counterparty |-> counterparty,
   status       |-> status,
   reached      |-> IsTrue(e.reference)]

(* What _SANDBOX_ACTION matches: no white space but the line break at the   *)
(* end, which $ lets pass.                                                  *)
_SANDBOX_ACTION(e) ==
  e.form \in {"verb:status", "verb:status\n", "step:"} /\ "python" \notin e.space

parse_entry_sandbox(e, ordinal) ==
  IF e.form = "recall" \/ _SANDBOX_ACTION(e)
  THEN _step(e, ordinal, FromStatus(e.status), e.counterparty)
  ELSE None

parse_entry_harness(e, ordinal) ==
  IF e.form \in {"step", "step:"}
  THEN _step(e, ordinal, FromVerdict(e.verdict), e.to)
  ELSE None

parse_entry_auto(e, ordinal) ==
  IF e.form \in {"step", "step:", "step."} THEN parse_entry_harness(e, ordinal)
                                           ELSE parse_entry_sandbox(e, ordinal)

(* What a custom parser may return: nothing, a step with or without an      *)
(* index, an exception.                                                     *)
IsAnswer(s) ==
  \/ s \in {None, Raise}
  \/ /\ s = [step |-> s.step, counterparty |-> s.counterparty,
             status |-> s.status, reached |-> s.reached]
     /\ s.step \in Int \cup {None}

ASSUME CustomAssumption == \A s \in Custom : IsAnswer(s)

(* What is made of it: a step of its own needs an index.                    *)
_check_step(s) ==
  IF s \in {None, Raise} THEN s
  ELSE IF s.step = None THEN Raise ELSE [s EXCEPT !.status = OrUnknown(@)]

(* What the parser may make of an entry. *)
Parsed(e, ordinal) ==
  CASE parser = "auto"    -> {parse_entry_auto(e, ordinal)}
    [] parser = "sandbox" -> {parse_entry_sandbox(e, ordinal)}
    [] parser = "harness" -> {parse_entry_harness(e, ordinal)}
    [] parser = "custom"  -> {_check_step(s) : s \in Custom}

KnownParser == {"auto", "sandbox", "harness", "custom"}

REFUSALS == {"blocked", "declined", "rejected"}

_reached(s) == s.reached \/ s.status = "rejected"

-----------------------------------------------------------------------------
(* Claims                                                                   *)

CLAIMED == {"done", "failed", "declined", "not_attempted"}

(* The labels accepted, the Mandate Sandbox's own among them.               *)
_CLAIMED_ALIASES ==
  [label \in CLAIMED \cup {"declined by bank", "not attempted"} |->
     CASE label = "declined by bank" -> "declined"
       [] label = "not attempted"    -> "not_attempted"
       [] OTHER                      -> label]

(* A claim that is no object, or has a field of the wrong type, is None.    *)
(* Its label is text, in lower case and with one blank for all white space  *)
(* both languages know, and what only one of them takes for white space.    *)
IsRawClaim(c) ==
  \/ c = None
  \/ /\ c = [step |-> c.step, counterparty |-> c.counterparty, claimed |-> c.claimed]
     /\ c.step \in Int \cup {None}
     /\ c.claimed = [text |-> c.claimed.text, space |-> c.claimed.space]
     /\ c.claimed.space \subseteq WhiteSpace

(* <<claims, parser, summary, listed>>: the claims are a list or not, the   *)
(* parser is a built-in name, "custom", or neither, the summary None if     *)
(* there is none; listed says whether the chain has a list of entries.      *)
IsCall(args) ==
  /\ \/ args[1] \in {None, NoList}
     \/ /\ args[1] \in Seq({args[1][k] : k \in DOMAIN args[1]})
        /\ \A k \in DOMAIN args[1] : IsRawClaim(args[1][k])
  /\ args[4] \in BOOLEAN

ASSUME ArgumentsAssumption == \A args \in Arguments : IsCall(args)

(* No claims at all are none. *)
OrEmpty(raw) == IF raw = None THEN <<>> ELSE raw

(* strip and split leave what Python does not take for white space. *)
normalize_claimed(label) ==
  IF label.text \in DOMAIN _CLAIMED_ALIASES /\ "javascript" \notin label.space
  THEN _CLAIMED_ALIASES[label.text] ELSE None

WellFormed(c) == c # None /\ c.step # None /\ normalize_claimed(c.claimed) # None

_normalized(c) == [c EXCEPT !.claimed = normalize_claimed(c.claimed)]

-----------------------------------------------------------------------------
(* The summary and its digest                                               *)

(* What run.completed records of a summary, and what an auditor compares it *)
(* with: either encoding counts.                                            *)
bind_summary(s, encoding) == [digest |-> DigestOf[s], encoding |-> encoding]

Commits(sha, s) == \E encoding \in {"base64", "hex"} : sha = bind_summary(s, encoding)

-----------------------------------------------------------------------------
(* The diff                                                                 *)

(* by_index: the last step of an index hides the earlier ones. *)
At(index) == {n \in DOMAIN steps : steps[n].step = index}

by_index(index) ==
  IF At(index) = {} THEN None
  ELSE steps[CHOOSE n \in At(index) : \A m \in At(index) : m =< n]

_finding(kind, index, counterparty, claimed, chain) ==
  [kind |-> kind, step |-> index, counterparty |-> counterparty,
   claimed |-> claimed, chain |-> chain]

(* The counterparties left out of the comparison. *)
NoStep(c, s) == s = None

Missing(c, s) == s = None \/ c.counterparty # s.counterparty

(* The rules for a claim about a step with its counterparty, and what they  *)
(* would be without the last one.                                           *)
LaxContradicted(c, s) == (c.claimed = "done") # (s.status = "done")

Contradicted(c, s) ==
  \/ c.claimed = "done" /\ s.status # "done"
  \/ c.claimed # "done" /\ s.status = "done"
  \/ c.claimed = "declined" /\ ~_reached(s)

(* What the chain says that no claim mentions, and the same without the     *)
(* refusals of the other side.                                              *)
ForgetsRejected(s, indices) ==
  s.status \in {"blocked", "declined"} /\ s.step \notin indices

Undisclosed(s, indices) == s.status \in REFUSALS /\ s.step \notin indices

-----------------------------------------------------------------------------
(* The steps of reconcile                                                   *)

Init ==
  /\ entries = <<>> /\ pc = "idle" /\ claims = <<>> /\ parser = None
  /\ summary = None /\ i = 1 /\ steps = <<>> /\ found = None /\ mentioned = {}
  /\ findings = <<>> /\ matches = 0 /\ bound = None /\ error = FALSE
  /\ known = 0

(* The agent logs an entry, before or while reconcile reads the chain. A    *)
(* list that was not logged but loaded may hold things that are no entries. *)
Log(e) ==
  /\ Len(entries) < MaxEntries
  /\ e = None => pc = "idle"
  /\ entries' = Append(entries, e)
  /\ UNCHANGED <<pc, arguments, i, steps, found, mentioned, results, known>>

(* _error_result: nothing was reconciled. *)
Malformed ==
  /\ pc' = "done" /\ error' = TRUE
  /\ findings' = <<>> /\ matches' = 0 /\ bound' = None

(* _normalize_claims, _entries_of and _resolve_parser. *)
Call(raw, p, s, listed) ==
  /\ pc = "idle"
  /\ parser' = p /\ summary' = s
  /\ IF /\ raw # NoList
        /\ \A k \in DOMAIN OrEmpty(raw) : WellFormed(OrEmpty(raw)[k])
        /\ listed
        /\ \A n \in DOMAIN entries : entries[n] # None
        /\ p \in KnownParser
     THEN /\ claims' = [k \in DOMAIN OrEmpty(raw) |-> _normalized(OrEmpty(raw)[k])]
          /\ pc' = "parse"
          /\ UNCHANGED results
     ELSE Malformed /\ UNCHANGED claims
  /\ UNCHANGED <<entries, i, steps, found, mentioned, known>>

(* The position in the chain, and the ordinal among its steps.              *)
Position == i - 1
Ordinal == Len(steps)

(* One iteration of _parse_steps. *)
ParseEntry ==
  /\ pc = "parse" /\ i =< Len(entries)
  /\ \E s \in Parsed(entries[i], Ordinal) :
       IF s = Raise
       THEN Malformed /\ UNCHANGED <<i, steps>>
       ELSE /\ steps' = IF s = None THEN steps ELSE Append(steps, s)
            /\ i' = i + 1
            /\ UNCHANGED <<pc, results>>
  /\ UNCHANGED <<entries, arguments, found, mentioned, known>>

(* The loop runs off the end of the list as it is by then. *)
EndParse ==
  /\ pc = "parse" /\ i > Len(entries)
  /\ pc' = IF summary = None THEN "diff" ELSE "bind"
  /\ i' = 1 /\ known' = Len(entries)
  /\ UNCHANGED <<entries, arguments, steps, found, mentioned, results>>

(* The digest found so far after entry e, and the same if a closing entry   *)
(* without a digest were passed over: the last run.completed entry counts.  *)
LastDigest(e) ==
  IF e.form = "completed" /\ e.summary_sha256 # None THEN e.summary_sha256 ELSE found

Found(e) == IF e.form = "completed" THEN e.summary_sha256 ELSE found

(* One iteration of _summary_bound. *)
BindEntry ==
  /\ pc = "bind" /\ i =< Len(entries)
  /\ found' = Found(entries[i])
  /\ i' = i + 1
  /\ UNCHANGED <<entries, pc, arguments, steps, mentioned, results, known>>

(* A summary that is neither text nor an object has no digest. *)
EndBind ==
  /\ pc = "bind" /\ i > Len(entries)
  /\ IF found # None /\ summary \notin DOMAIN DigestOf
     THEN Malformed /\ UNCHANGED i
     ELSE /\ bound' = IF found = None THEN None ELSE Commits(found, summary)
          /\ pc' = "diff" /\ i' = 1
          /\ UNCHANGED <<findings, matches, error>>
  /\ UNCHANGED <<entries, arguments, steps, found, mentioned, known>>

(* One iteration of the loop over the claims. *)
DiffClaim ==
  /\ pc = "diff" /\ i =< Len(claims)
  /\ LET c == claims[i]
         s == by_index(c.step)
     IN  /\ mentioned' = mentioned \cup {c.step}
         /\ IF Missing(c, s)
            THEN /\ findings' = Append(findings,
                      _finding("no_entry", c.step, c.counterparty, c.claimed, None))
                 /\ UNCHANGED matches
            ELSE IF Contradicted(c, s)
            THEN /\ findings' = Append(findings,
                      _finding("contradicted", s.step, s.counterparty, c.claimed, s.status))
                 /\ UNCHANGED matches
            ELSE matches' = matches + 1 /\ UNCHANGED findings
  /\ i' = i + 1
  /\ UNCHANGED <<entries, pc, arguments, steps, found, bound, error, known>>

EndClaims ==
  /\ pc = "diff" /\ i > Len(claims)
  /\ pc' = "undisclosed" /\ i' = 1
  /\ UNCHANGED <<entries, arguments, steps, found, mentioned, results, known>>

DiffStep ==
  /\ pc = "undisclosed" /\ i =< Len(steps)
  /\ findings' = IF Undisclosed(steps[i], mentioned)
                 THEN Append(findings, _finding("undisclosed", steps[i].step,
                               steps[i].counterparty, None, steps[i].status))
                 ELSE findings
  /\ i' = i + 1
  /\ UNCHANGED <<entries, pc, arguments, steps, found, mentioned, matches, bound,
                 error, known>>

Return ==
  /\ pc = "undisclosed" /\ i > Len(steps)
  /\ pc' = "done"
  /\ UNCHANGED <<entries, arguments, i, steps, found, mentioned, results, known>>

Calls == \E args \in Arguments : Call(args[1], args[2], args[3], args[4])

Next ==
  \/ \E e \in Entry : Log(e)
  \/ Calls
  \/ ParseEntry \/ EndParse
  \/ BindEntry \/ EndBind
  \/ DiffClaim \/ EndClaims
  \/ DiffStep \/ Return

Spec == Init /\ [][Next]_vars

-----------------------------------------------------------------------------
(* Properties                                                               *)

Reconciled == pc = "done" /\ ~error

TypeOK ==
  /\ pc \in {"idle", "parse", "bind", "diff", "undisclosed", "done"}
  /\ i \in Nat \ {0} /\ matches \in 0 .. Len(claims)
  /\ \A k \in DOMAIN claims : claims[k].claimed \in CLAIMED
  /\ \A n \in DOMAIN steps : steps[n].step \in Int /\ steps[n].status # None
  /\ \A k \in DOMAIN findings : findings[k].step \in Int
  /\ bound \in BOOLEAN \cup {None} /\ error \in BOOLEAN

(* The entries a built-in parser reads as steps. *)
StepEntries == {n \in DOMAIN entries : entries[n] # None /\ Parsed(entries[n], 0) # {None}}

(* An entry with no step index of its own gets its ordinal among the step   *)
(* entries, counted from 0, however many other entries lie between them,    *)
(* and though the chain grows under the loop.                               *)
OrdinalsCountSteps ==
  parser \in KnownParser \ {"custom"} =>
    \A k \in DOMAIN steps :
      \E n \in StepEntries :
        /\ Cardinality({m \in StepEntries : m =< n}) = k
        /\ Parsed(entries[n], k - 1) = {steps[k]}

(* The agreement the README describes, between the claims and the last      *)
(* entry of each step index.                                                *)
Agree(c) ==
  LET s == by_index(c.step) IN
    /\ s # None /\ s.counterparty = c.counterparty
    /\ c.claimed = "done" <=> s.status = "done"
    /\ c.claimed = "declined" => _reached(s)

Disclosed(s) == s.status \in REFUSALS => \E k \in DOMAIN claims : claims[k].step = s.step

(* "matches counts the claims the record agrees with", and every other      *)
(* claim is the subject of one finding of its own, in the claims' order;    *)
(* an error result has neither.                                             *)
EveryClaimIsSettled ==
  /\ Reconciled =>
       LET agreed  == {k \in DOMAIN claims : Agree(claims[k])}
           refuted == DOMAIN claims \ agreed
       IN  /\ matches = Cardinality(agreed)
           /\ Len(findings) >= Cardinality(refuted)
           /\ \A k \in refuted :
                LET f == findings[Cardinality({m \in refuted : m =< k})]
                IN  /\ f.kind \in {"no_entry", "contradicted"}
                    /\ f.step = claims[k].step /\ f.claimed = claims[k].claimed
  /\ error => matches = 0 /\ findings = <<>> /\ bound = None

(* "Summary matches the record" is said exactly when every claim agrees     *)
(* with the chain and every refusal in the chain is spoken about.           *)
CleanMeansAgreement ==
  Reconciled =>
    (findings = <<>> <=> /\ \A k \in DOMAIN claims : Agree(claims[k])
                         /\ \A n \in DOMAIN steps : Disclosed(steps[n]))

(* Each refusal nobody speaks about is reported once, in chain order, after *)
(* all findings about claims.                                               *)
RefusalsAreListed ==
  Reconciled =>
    LET hidden == {n \in DOMAIN steps : ~Disclosed(steps[n])}
        before == Len(claims) - matches
    IN  /\ Len(findings) = before + Cardinality(hidden)
        /\ \A n \in hidden :
             LET f == findings[before + Cardinality({m \in hidden : m =< n})]
             IN  f.kind = "undisclosed" /\ f.step = steps[n].step /\ f.chain = steps[n].status

(* The binding is that of the last run.completed entry of the chain as it   *)
(* stood at some moment after its steps were read: a summary is never       *)
(* checked against a closing entry that was superseded by then.             *)
Completed == {n \in DOMAIN entries : entries[n] # None /\ entries[n].form = "completed"}

BoundOf(last) ==
  LET sha == entries[last].summary_sha256 IN
  IF sha = None THEN None ELSE summary \in DOMAIN DigestOf /\ Commits(sha, summary)

BindingIsTheLast ==
  Reconciled /\ summary # None =>
    \E n \in known .. Len(entries) :
      LET upto == {m \in Completed : m =< n} IN
      IF upto = {} THEN bound = None
      ELSE \E last \in upto : (\A m \in upto : m =< last) /\ bound = BoundOf(last)

(* "the summary names a step and counterparty the chain has no entry for":  *)
(* there is no such step.                                                   *)
NoEntryIsTrue ==
  \A k \in DOMAIN findings :
    findings[k].kind = "no_entry" =>
      ~\E n \in DOMAIN steps : /\ steps[n].step = findings[k].step
                               /\ steps[n].counterparty = findings[k].counterparty
=============================================================================
