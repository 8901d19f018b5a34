----------------------------- MODULE ChangeSignal -----------------------------
(***************************************************************************)
(* The least a monitor can promise its user, less than ChangeFeed.  The    *)
(* callback is called no more often than there were changes, once more     *)
(* when the directory was deleted: a call may stand for several changes,   *)
(* but no change, and not the deletion, is worth two calls.  And while the *)
(* monitor is alive every change is followed by a call.                    *)
(***************************************************************************)
EXTENDS Naturals

VARIABLES
  changes,  \* changes so far
  deleted,  \* was the directory deleted?
  calls,    \* calls of the callback so far
  seen,     \* changes when it was last called
  alive     \* is the monitor still running?

signalVars == <<changes, deleted, calls, seen, alive>>

SignalInit == changes = 0 /\ deleted = FALSE /\ calls = 0 /\ seen = 0 /\ alive = TRUE

Change ==
  /\ alive /\ ~deleted
  /\ changes' = changes + 1
  /\ UNCHANGED <<deleted, calls, seen, alive>>

Delete ==
  /\ ~deleted /\ deleted' = TRUE
  /\ UNCHANGED <<changes, calls, seen, alive>>

Signal ==
  /\ alive
  /\ calls < IF deleted THEN changes + 1 ELSE changes
  /\ calls' = calls + 1
  /\ seen' = changes
  /\ UNCHANGED <<changes, deleted, alive>>

Stop == alive /\ alive' = FALSE /\ UNCHANGED <<changes, deleted, calls, seen>>

SignalNext == Change \/ Delete \/ Signal \/ Stop

SignalSpec == SignalInit /\ [][SignalNext]_signalVars

FairSignalSpec == SignalSpec /\ WF_signalVars(seen < changes /\ Signal)
===============================================================================
