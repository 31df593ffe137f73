-------------------------- MODULE MCScheduledTasks --------------------------
(***************************************************************************)
(* The liveness of the scheduled tasks, for TLC.  The behaviours are those *)
(* of ScheduledTasks in which either nobody edits a task and the process   *)
(* lives, or the last task is never created.  No fair step is lost, as the *)
(* user creates the tasks: an executor only makes the next occurrence of a *)
(* recurring one, and may always finish instead.                           *)
(***************************************************************************)
EXTENDS ScheduledTasks

Within == edits + crashes > 0 => status[NumTasks] = "none"

MCSpec == Init /\ [][Next /\ Within']_vars /\ Fairness
=============================================================================
