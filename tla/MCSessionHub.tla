---------------------------- MODULE MCSessionHub ---------------------------
(* Plain holds live one tick and delegated ones two, slots idle for one;   *)
(* configure moves the limit on live slots between one and two.  Three     *)
(* sessions: one with both kinds of call, one with a plain call, and one   *)
(* whose agents call no tool.                                              *)
EXTENDS SessionHub

CONSTANTS s1, s2, s3, plain, delegated

MCSession == {s1, s2, s3}
MCCall == {plain, delegated}
MCCallsOf == (s1 :> MCCall) @@ (s2 :> {plain}) @@ (s3 :> {})
MCLimits == {[hold |-> 1, delegate |-> 2, idle |-> 1, live |-> n] : n \in {1, 2}}
============================================================================
