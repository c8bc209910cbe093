------------------------------- MODULE MCRace -------------------------------
(***************************************************************************)
(* Two threads append to the one Chain of the program, sometimes with a    *)
(* timestamp of their own.                                                 *)
(***************************************************************************)
EXTENDS ChainLog, TLC

CONSTANTS h1, t1, t2, k, read, deep

MCHandle == {h1}
MCKey == {k}
MCKeyOf == [h \in MCHandle |-> k]
MCThread == {t1, t2}
SharedChain == [t \in MCThread |-> {h1}]
MCBody == {read, deep}
MCLoggable == {read}
SetTime == {0}
Symmetry == Permutations({t1, t2})
=============================================================================
