----------------------------- MODULE MCChainLog -----------------------------
(***************************************************************************)
(* Two Chain objects that open the same exports, each with a key and a     *)
(* writer of its own: forks, roll-backs, crashes in the middle of an       *)
(* append and a log that passes from one key to another.                   *)
(***************************************************************************)
EXTENDS ChainLog, TLC

CONSTANTS h1, h2, t1, t2, k1, k2, read, deep

MCHandle == {h1, h2}
MCKey == {k1, k2}
MCKeyOf == (h1 :> k1) @@ (h2 :> k2)
MCThread == {t1, t2}
OwnChain == (t1 :> {h1}) @@ (t2 :> {h2})
MCBody == {read, deep}
MCLoggable == {read}
MCCallerTime == {}
=============================================================================
