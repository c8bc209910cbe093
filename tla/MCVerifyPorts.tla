---------------------------- MODULE MCVerifyPorts ----------------------------
(***************************************************************************)
(* One Chain, an outsider, and a clock that may be set back.  The body     *)
(* "big" has an integer past 2^53, which JavaScript reads as the float     *)
(* that the body "large" has; nobody encodes "nan".                        *)
(***************************************************************************)
EXTENDS VerifyPorts

CONSTANTS h1, k, m, large, big, nan

MCHandle == {h1}
MCKey == {k, m}
MCKeyOf == [h \in MCHandle |-> k]
MCBody == {large, big, nan}
MCCanonical == {large}
MCJSCanonical == {large, big}
MCJSForm == [body \in MCJSCanonical |-> large]
MCTime == {0, 1}
MCWriting == {"spaced", "url-safe", "cut", "list"}
=============================================================================
