----------------------------- MODULE MCCanonical -----------------------------
(***************************************************************************)
(* Numbers on both sides of each limit, and keys below the surrogates,     *)
(* above them, and outside the Basic Multilingual Plane.                   *)
(***************************************************************************)
EXTENDS Canonical

(* 0, 1/2, 1, 3 (the largest safe number), 4, 5 (the last whole number that *)
(* is written out), 6 (the first with an exponent), -1 and -4.              *)
MCHalves == {0, 1, 2, 6, 8, 10, 12, -2, -8}

(* "a", a halfwidth katakana letter, two emoji. *)
MCCodePoint == {97, 65393, 128512, 128513}
=============================================================================
