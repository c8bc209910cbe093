----------------------------- MODULE MCEvidence -----------------------------
(***************************************************************************)
(* A Chain opened again on any list it held before, so that its trail forks *)
(* under one key, and an outsider.                                         *)
(***************************************************************************)
EXTENDS Evidence, TLC

CONSTANTS h1, k, m, read, pay, nan

MCHandle == {h1}
MCKey == {k, m}
MCKeyOf == [h \in MCHandle |-> k]
MCBody == {read, pay, nan}
MCCanonical == {read, pay}
MCTime == {0}
MCWriting == {"spaced", "url-safe", "list"}

(* No check tells the two bodies with a canonical form apart. *)
Symmetry == Permutations({read, pay})
=============================================================================
