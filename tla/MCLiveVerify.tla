---------------------------- MODULE MCLiveVerify ----------------------------
(***************************************************************************)
(* A Chain, another opened from it, a clock that may be set back, payloads *)
(* that may be changed, and auditors who pin a key, none, or say nothing.  *)
(***************************************************************************)
EXTENDS LiveVerify

CONSTANTS k, m, read, pay

MCKey == {k, m}
MCBody == {read, pay}
MCLoggable == {read}
MCOpenKey == {m, None}
MCOpenActor == {None, "agent"}
MCTime == {0, 1}
MCCaller ==
  {Options({k}, FALSE, TRUE, None), Options(None, TRUE, FALSE, None),
   Options(None, FALSE, TRUE, None)}
=============================================================================
