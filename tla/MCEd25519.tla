----------------------------- MODULE MCEd25519 -----------------------------
(***************************************************************************)
(* The curve -x^2 + y^2 = 1 - 2 x^2 y^2 modulo 29: like that of Ed25519    *)
(* its modulus is 5 modulo 8 and a little below a power of two, it has     *)
(* 8 L points with L prime, and d has no square root.                      *)
(***************************************************************************)
EXTENDS Ed25519

CONSTANTS m1, m2

MCMessage == {m1, m2}
MCHash == {0, 3, 5, 64, 4095}
=============================================================================
