--------------------------- MODULE ReconcilePorts ---------------------------
(***************************************************************************)
(* typescript/src/reconcile.ts beside python/witnesskit/reconcile.py.  The *)
(* TypeScript port runs on one thread and is synchronous, so it is one     *)
(* function of its arguments; the Python port is the machine of module     *)
(* Reconcile, here on a chain that is left alone during the call.  Names   *)
(* are those of the TypeScript source.                                     *)
(*                                                                         *)
(* The tables of the port are plain JavaScript objects: looking up a name  *)
(* that every object inherits (constructor, toString, ...) finds a         *)
(* function, not nothing.  White space is what JavaScript takes for it,    *)
(* numbers are doubles, and canonical JSON is that of canonical.ts.        *)
(***************************************************************************)
EXTENDS Reconcile, SequencesExt

CONSTANTS
  Inherited,    \* the names every JavaScript object inherits
  Function,     \* what is found under one of them
  JSDigestOf,   \* the digests of those summaryDigest accepts
  Limit         \* 2^53: the doubles are exact up to it, and even beyond

ASSUME LimitAssumption == Limit \in Nat

(* Bound: no index of a step or a claim is past 2^54, where doubles are     *)
(* further apart.                                                           *)
IsIndex(n) == n \in -(2 * Limit) .. 2 * Limit

ASSUME IndexAssumption ==
  /\ \A e \in Entry : e = None \/ e.step = None \/ IsIndex(e.step)
  /\ \A args \in Arguments :
       \/ args[1] \in {None, NoList}
       \/ \A k \in DOMAIN args[1] :
            args[1][k] = None \/ args[1][k].step = None \/ IsIndex(args[1][k].step)

VARIABLE given  \* the arguments of the call (see IsCall)

portVars == <<vars, given>>

-----------------------------------------------------------------------------
(* x ?? y *)
OrElse(x, y) == IF x = None THEN y ELSE x

LookUp(table, name) ==
  IF name \in DOMAIN table THEN table[name]
  ELSE IF name \in Inherited THEN Function ELSE None

CLAIMED_ALIASES ==
  [label \in {"done", "failed", "declined", "not_attempted",
             "declined by bank", "not attempted"} |->
     CASE label = "declined by bank" -> "declined"
       [] label = "not attempted"    -> "not_attempted"
       [] OTHER                      -> label]

HARNESS_VERDICTS ==
  [allow |-> "done", deny |-> "blocked", ask |-> "declined",
   handoff |-> "handoff", error |-> "error"]

SANDBOX_STATUSES == [status \in {"declined-by-rail"} |-> "rejected"]

(* trim and \s+ leave what JavaScript does not take for white space. *)
normalizeClaimed(label) ==
  IF "python" \in label.space THEN None ELSE LookUp(CLAIMED_ALIASES, label.text)

(* An integer as the double it is read as: past 2^53 to the nearest even    *)
(* number, and halfway between two to the one with an even significand.     *)
Double(n) ==
  IF n = None \/ n \in -Limit .. Limit \/ n % 2 = 0 THEN n
  ELSE IF n % 4 = 1 THEN n - 1 ELSE n + 1

step(e, ordinal, status, counterparty) ==
  [step         |-> OrElse(Double(e.step), ordinal),
   counterparty |-> counterparty,
   status       |-> IF status \in {None, Function} THEN "unknown" ELSE status,
   reached      |-> e.reference # "absent"]    \* an empty object is true here

SANDBOX_ACTION(e) == e.form \in {"verb:status", "step:"} /\ "javascript" \notin e.space

parseEntrySandbox(e, ordinal) ==
  IF e.form = "recall" \/ SANDBOX_ACTION(e)
  THEN step(e, ordinal, OrElse(LookUp(SANDBOX_STATUSES, e.status), e.status),
            e.counterparty)
  ELSE None

parseEntryHarness(e, ordinal) ==
  IF e.form \in {"step", "step:"}
  THEN step(e, ordinal, OrElse(LookUp(HARNESS_VERDICTS, e.verdict), e.verdict), e.to)
  ELSE None

parseEntryAuto(e, ordinal) ==
  IF e.form \in {"step", "step:", "step."} THEN parseEntryHarness(e, ordinal)
                                           ELSE parseEntrySandbox(e, ordinal)

(* parser in ENTRY_PARSERS, which sees inherited names too. *)
Resolves(p) == p \in {"auto", "sandbox", "harness"} \cup Inherited

(* An inherited function called as a parser throws, or returns no step. *)
Parse(p, e, ordinal) ==
  CASE p = "auto"    -> parseEntryAuto(e, ordinal)
    [] p = "sandbox" -> parseEntrySandbox(e, ordinal)
    [] p = "harness" -> parseEntryHarness(e, ordinal)
    [] OTHER         -> Raise

parseSteps(list, p) ==
  FoldLeft(LAMBDA read, e :
             IF read = Raise THEN Raise
             ELSE LET s == Parse(p, e, Len(read))
                  IN  IF s = Raise THEN Raise
                      ELSE IF s = None THEN read ELSE Append(read, s),
           <<>>, list)

bindSummary(s, encoding) == [digest |-> JSDigestOf[s], encoding |-> encoding]

summaryBound(list, s) ==
  LET closing == {n \in DOMAIN list : list[n].form = "completed"}
      sha     == IF closing = {} THEN None ELSE list[Max(closing)].summary_sha256
  IN  IF s = None \/ sha = None THEN None
      ELSE IF s \notin DOMAIN JSDigestOf THEN Raise
      ELSE sha \in {bindSummary(s, "base64"), bindSummary(s, "hex")}

reached(s) == s.reached \/ s.status = "rejected"

(* The first step of an index, and the one the port compares with: the last. *)
FirstOf(same) == Min(same)
ChosenOf(same) == Max(same)

(* The finding about a claim, None where the record agrees. *)
Judge(c, read) ==
  LET same == {n \in DOMAIN read : read[n].step = c.step}
      s    == IF same = {} THEN None ELSE read[ChosenOf(same)]
  IN  IF s = None \/ c.counterparty # s.counterparty
      THEN _finding("no_entry", c.step, c.counterparty, c.claimed, None)
      ELSE IF \/ (c.claimed = "done") # (s.status = "done")
              \/ c.claimed = "declined" /\ ~reached(s)
      THEN _finding("contradicted", s.step, s.counterparty, c.claimed, s.status)
      ELSE None

(* The finding about a step, None unless it is a refusal no claim is about. *)
Reproach(st, claimed) ==
  IF st.status \in {"blocked", "declined", "rejected"} /\ st.step \notin claimed
  THEN _finding("undisclosed", st.step, st.counterparty, None, st.status)
  ELSE None

(* The loops push what there is to push. *)
Pushed(list) ==
  FoldLeft(LAMBDA out, f : IF f = None THEN out ELSE Append(out, f), <<>>, list)

errorResult == [error |-> TRUE, findings |-> <<>>, matches |-> 0, bound |-> None]

Normalizes(c) ==
  c # None /\ c.step # None /\ normalizeClaimed(c.claimed) # None

(* One claim as normalizeClaims returns it. *)
Normal(c) == [c EXCEPT !.step = Double(@), !.claimed = normalizeClaimed(@)]

(* claims is a list or not, list whether the chain has one. *)
reconcile(claimed, list, p, s, isList) ==
  LET asked    == OrEmpty(claimed)
      read     == parseSteps(list, p)
      binding  == summaryBound(list, s)
      claimsN  == [k \in DOMAIN asked |-> Normal(asked[k])]
      refuted  == Pushed([k \in DOMAIN asked |-> Judge(claimsN[k], read)])
      about    == {claimsN[k].step : k \in DOMAIN asked}
  IN  IF \/ claimed = NoList
         \/ \E k \in DOMAIN asked : ~Normalizes(asked[k])
         \/ ~isList
         \/ \E n \in DOMAIN list : list[n] = None
         \/ ~Resolves(p)
      THEN errorResult
      ELSE IF read = Raise \/ binding = Raise THEN errorResult
      ELSE [error    |-> FALSE,
            findings |-> refuted \o Pushed([n \in DOMAIN read |-> Reproach(read[n], about)]),
            matches  |-> Len(asked) - Len(refuted),
            bound    |-> binding]

-----------------------------------------------------------------------------
(* Both ports on the same arguments                                         *)

PortInit == Init /\ given = <<<<>>, None, None, TRUE>>

LogFirst == pc = "idle" /\ (\E e \in Entry : Log(e)) /\ UNCHANGED given

CallBoth ==
  \E args \in Arguments :
    Call(args[1], args[2], args[3], args[4]) /\ given' = args

Run ==
  /\ ParseEntry \/ EndParse \/ BindEntry \/ EndBind
     \/ DiffClaim \/ EndClaims \/ DiffStep \/ Return
  /\ UNCHANGED given

PortNext == LogFirst \/ CallBoth \/ Run

PortSpec == PortInit /\ [][PortNext]_portVars

PythonResult == [error |-> error, findings |-> findings, matches |-> matches, bound |-> bound]

TypeScriptResult == reconcile(given[1], entries, given[2], given[3], given[4])

(* The claims and the entries that are objects. *)
Claimed ==
  IF given[1] = NoList THEN {}
  ELSE {OrEmpty(given[1])[k] : k \in DOMAIN OrEmpty(given[1])} \ {None}

Logged == {entries[n] : n \in DOMAIN entries} \ {None}

(* An inherited name where one of the tables is searched. *)
NamesAnInheritedOne ==
  \/ given[2] \in Inherited
  \/ \E c \in Claimed : c.claimed.text \in Inherited
  \/ \E e \in Logged : {e.status, e.verdict} \cap Inherited # {}

(* What the languages read differently: a line break after                  *)
(* "<verb>:<status>", an empty object or list as the reference, white space *)
(* of one of them only, an index that no double holds.                      *)
ReadsDifferently ==
  \/ \E c \in Claimed : c.claimed.space # {} \/ Double(c.step) # c.step
  \/ \E e \in Logged :
       \/ e.form = "verb:status\n" \/ e.reference = "empty"
       \/ e.space # {} \/ Double(e.step) # e.step

(* A summary that one port refuses to hash, or that the ports hash          *)
(* differently, where there is a digest to compare it with.                 *)
HashesDifferently ==
  /\ found # None
  /\ LET s == given[3] IN
       \/ ~(s \in DOMAIN DigestOf <=> s \in DOMAIN JSDigestOf)
       \/ s \in DOMAIN DigestOf \cap DOMAIN JSDigestOf /\ DigestOf[s] # JSDigestOf[s]

(* "One fixture for both suites": the ports return the same findings in the *)
(* same order, the same matches, binding and error, whatever the chain, the *)
(* claims, the summary and the parser, but for the inputs named above.      *)
SameResult ==
  pc = "done" /\ ~NamesAnInheritedOne /\ ~ReadsDifferently /\ ~HashesDifferently =>
    PythonResult = TypeScriptResult
=============================================================================
