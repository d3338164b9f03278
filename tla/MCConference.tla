----------------------------- MODULE MCConference -----------------------------
(* Callers for TLC: two servers, one host who ends the conference at most.  *)
EXTENDS Conference

Caller(s, waits, ends, prompt) ==
  [server |-> s, waits |-> waits, ends |-> ends, prompt |-> prompt]
Starter(s) == Caller(s, FALSE, FALSE, FALSE)
Prompted(s) == Caller(s, FALSE, FALSE, TRUE)
Waiter(s) == Caller(s, TRUE, FALSE, FALSE)
Host(s) == Caller(s, FALSE, TRUE, FALSE)

Guests == {<<Prompted("s1"), Starter("s2"), Waiter("s1"), Waiter("s2")>>,
           <<Host("s1"), Prompted("s1"), Starter("s2"), Waiter("s2")>>,
           <<Starter("s1"), Starter("s2"), Prompted("s2"), Host("s2")>>}
==============================================================================
