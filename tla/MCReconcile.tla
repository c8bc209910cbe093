---------------------------- MODULE MCReconcile ----------------------------
(***************************************************************************)
(* Small chains and small summaries: steps with and without an index of    *)
(* their own, two counterparties, every kind of verdict the rules tell     *)
(* apart, entries that are no steps, closing entries that commit to the    *)
(* summary, to another one or to none, and claims that are no claims.      *)
(***************************************************************************)
EXTENDS Reconcile

CONSTANTS alice, bob, text, number, d1, d2

(* Entries by form; the fields a form does not use are absent. *)
LogEntry(form, step, status, verdict, party, reference, sha) ==
  [form |-> form, space |-> {}, step |-> step, status |-> status, verdict |-> verdict,
   counterparty |-> party, to |-> party, reference |-> reference,
   summary_sha256 |-> sha]

Finished(sha) == LogEntry("completed", None, None, None, None, "absent", sha)

MCEntries ==
  { LogEntry("step", None, None, "allow", alice, "text", None),
    LogEntry("step", None, None, "deny", alice, "absent", None),
    LogEntry("step:", 2, "done", None, bob, "absent", None),
    LogEntry("verb:status", 0, "declined-by-rail", None, bob, "absent", None),
    LogEntry("verb:status", 1, "declined", None, alice, "text", None),
    LogEntry("recall", None, None, None, alice, "absent", None),
    Finished(bind_summary(text, "hex")),
    Finished([digest |-> d2, encoding |-> "base64"]),
    Finished(None), None }

AClaim(step, party, claimed) ==
  [step |-> step, counterparty |-> party, claimed |-> [text |-> claimed, space |-> {}]]

MCClaims ==
  { AClaim(0, alice, "done"), AClaim(0, bob, "declined by bank"),
    AClaim(1, alice, "failed"), AClaim(1, alice, "declined"),
    AClaim(2, bob, "not attempted"), AClaim(0, bob, "maybe") }

(* Every pair of claims with the default parser and no summary, and a few   *)
(* claims with every parser and every summary, on a chain or on none.       *)
MCArguments ==
  LET pairs == UNION {[1 .. n -> MCClaims] : n \in 0 .. 2}
      few   == {<<>>, <<AClaim(0, alice, "declined")>>, <<None>>, None, NoList}
  IN  pairs \X {"auto"} \X {None} \X {TRUE}
      \cup few \X {"auto", "sandbox", "harness", "custom", "none of these"}
               \X {None, text, number} \X BOOLEAN

MCDigests == [s \in {text} |-> d1]

(* A step without a status, one without an index, nothing, and a failure.   *)
MCCustom ==
  LET AStep(index) == [step |-> index, counterparty |-> alice, status |-> None,
                       reached |-> FALSE]
  IN  {None, Raise, AStep(0), AStep(None)}
=============================================================================
