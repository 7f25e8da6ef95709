---------------------------- MODULE JobLifecycle ----------------------------
(***************************************************************************)
(* What the README promises of a background job: a record that is pending, *)
(* running, completed or failed, that a client may poll until it ends. A   *)
(* job ends once. JobQueue implements this specification where one worker  *)
(* runs and Redis takes every message the API pushes.                      *)
(***************************************************************************)
CONSTANT Jobs

VARIABLES
  status,   (* Job -> where its record stands.                              *)
  inline    (* Jobs whose producer does the work itself.                    *)

vars == <<status, inline>>

Init ==
  /\ status = [j \in Jobs |-> "absent"]
  /\ inline = {}

Move(j, from, to) ==
  /\ status[j] \in from
  /\ status' = [status EXCEPT ![j] = to]

Submit(j) ==
  /\ Move(j, {"absent"}, "pending")
  /\ inline' \in {inline, inline \cup {j}}

Pick(j) == j \notin inline /\ Move(j, {"pending"}, "running") /\ UNCHANGED inline

(* Rate limited: back in the queue.                                          *)
Postpone(j) == Move(j, {"running"}, "pending") /\ UNCHANGED inline

(* A queued job completes only from running, an inline one from pending;     *)
(* either may fail before it ran.                                            *)
Succeed(j) ==
  /\ Move(j, IF j \in inline THEN {"pending"} ELSE {"running"}, "completed")
  /\ UNCHANGED inline

GiveUp(j) == Move(j, {"pending", "running"}, "failed") /\ UNCHANGED inline

Next == \E j \in Jobs : Submit(j) \/ Pick(j) \/ Postpone(j) \/ Succeed(j) \/ GiveUp(j)

Spec == Init /\ [][Next]_vars
=============================================================================
