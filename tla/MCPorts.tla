------------------------------ MODULE MCPorts ------------------------------
(***************************************************************************)
(* Both ports of reconcile on the same small chains and summaries.         *)
(***************************************************************************)
EXTENDS ReconcilePorts

CONSTANTS alice, bob, text, plain, unsafe, reordered, number, d1, d2, d3, d4, d5

LogEntry(form, space, n, status, verdict, party, reference, sha) ==
  [form |-> form, space |-> space, step |-> n, status |-> status,
   verdict |-> verdict, counterparty |-> party, to |-> party,
   reference |-> reference, summary_sha256 |-> sha]

AnEntry(form, n, status, verdict, party, reference) ==
  LogEntry(form, {}, n, status, verdict, party, reference, None)

Finished(sha) == LogEntry("completed", {}, None, None, None, None, "absent", sha)

AClaim(n, party, label) ==
  [step |-> n, counterparty |-> party, claimed |-> [text |-> label, space |-> {}]]

Spaced(n, party, label, space) ==
  [step |-> n, counterparty |-> party, claimed |-> [text |-> label, space |-> {space}]]

(* 2^53 is 4 here: no double is 5. *)
MCEntries ==
  { AnEntry("step", None, None, "allow", alice, "text"),
    AnEntry("step", None, None, "deny", alice, "absent"),
    AnEntry("step:", 0, "done", None, bob, "absent"),
    AnEntry("verb:status", 0, "declined-by-rail", None, bob, "absent"),
    AnEntry("verb:status", 1, "declined", None, alice, "empty"),
    AnEntry("verb:status\n", None, "declined", None, alice, "text"),
    AnEntry("verb:status", 0, "constructor", None, alice, "absent"),
    AnEntry("verb:status", 5, "declined", None, alice, "absent"),
    LogEntry("verb:status", {"javascript"}, 1, "declined", None, alice, "text", None),
    AnEntry("recall", None, None, None, alice, "absent"),
    AnEntry("other", None, None, None, None, "absent"),
    Finished([digest |-> d1, encoding |-> "base64"]),
    Finished([digest |-> d2, encoding |-> "hex"]),
    Finished([digest |-> d3, encoding |-> "base64"]),
    Finished(None), None }

MCClaims ==
  { AClaim(0, alice, "done"), AClaim(0, bob, "declined by bank"),
    AClaim(1, alice, "declined"), AClaim(1, alice, "not attempted"),
    AClaim(4, alice, "declined"), AClaim(5, alice, "declined"),
    Spaced(0, alice, "done", "python"), Spaced(0, alice, "done", "javascript"),
    AClaim(0, alice, "constructor"), AClaim(0, bob, "maybe"), None }

(* Every pair of claims with the default parser, and a few claims with      *)
(* every parser and every summary, on a chain or on none.                   *)
MCArguments ==
  LET pairs == UNION {[1 .. n -> MCClaims] : n \in 0 .. 2}
      few   == {<<>>, <<AClaim(0, alice, "done")>>, <<None>>, None, NoList}
  IN  pairs \X {"auto"} \X {None} \X {TRUE}
      \cup few \X {"auto", "sandbox", "harness", "constructor", "none of these"}
               \X {None, text, plain, unsafe, reordered, number} \X BOOLEAN

MCInherited == {"constructor"}

(* Text and most objects have one digest.  An integer past 2^53 has a       *)
(* canonical form in TypeScript only, and names past the basic plane are    *)
(* put in another order by Python's fallback; a number is no summary.       *)
MCDigests ==
  [s \in {text, plain, reordered} |->
     CASE s = text -> d1 [] s = plain -> d2 [] s = reordered -> d3]

MCJSDigests ==
  [s \in {text, plain, unsafe, reordered} |->
     CASE s = text -> d1 [] s = plain -> d2 [] s = unsafe -> d4 [] s = reordered -> d5]

Nothing == {}
=============================================================================
