---------------------------- MODULE MC_RateLimiter ----------------------------
(* A small deployment: the budgets of one user for refreshes, of two accounts *)
(* for the provider, and of two e-mail addresses behind one network address.   *)
EXTENDS RateLimiter

CONSTANTS t1, t2

AllKeys == {"minute", "day", "cooldown", "global", "a", "b", "ip", "e1", "e2"}

Limits == [k \in AllKeys |->
  CASE k \in {"minute", "day", "cooldown", "e1", "b"} -> 1
    [] k \in {"ip", "a", "e2"} -> 2
    [] k = "global" -> 4]
Caps == [k \in AllKeys |-> Limits[k] + 1]

(* The cooldown of a portfolio is off by default.                             *)
Windows == [k \in AllKeys |-> 
  CASE k = "day" -> 3 [] k = "cooldown" -> 0 [] OTHER -> 2]

Admission == [keys |-> <<"minute", "day", "cooldown">>, cost |-> 1, many |-> FALSE,
              wait |-> FALSE, fresh |-> FALSE]
Slot(account, cost, wait) ==
  [keys |-> <<"global", account>>, cost |-> cost, many |-> TRUE, wait |-> wait,
   fresh |-> FALSE]
SignIn(email) == [keys |-> <<"ip", email>>, cost |-> 1, many |-> TRUE, wait |-> FALSE,
           fresh |-> TRUE]

(* The groups have no counter in common, so one at a time is enough: two API  *)
(* threads that admit refreshes, sign users in, or fetch option chains        *)
(* without waiting; the one worker that waits.                                *)
Groups == {
  [t \in Threads |-> {Admission}],
  [t \in Threads |-> {SignIn("e1"), SignIn("e2")}],
  [t \in Threads |-> IF t = t1 THEN {Slot("a", 1, FALSE)} ELSE {Slot("b", 1, FALSE)}],
  [t \in Threads |-> IF t = t1 
                   THEN {Slot("a", 1, TRUE), Slot("a", 2, TRUE), Slot("b", 1, TRUE)}
                   ELSE {}]}
=============================================================================
