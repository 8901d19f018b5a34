------------------------------ MODULE ChangeFeed ------------------------------
(***************************************************************************)
(* What the monitor promises its user about the events the kernel hands    *)
(* it: each is reported exactly once and in the order it occurred, until   *)
(* the feed stops; and while the feed is alive none waits for ever.        *)
(***************************************************************************)
EXTENDS SequencesExt

VARIABLES
  pending,  \* events that occurred and are not yet reported
  alive     \* is the feed still running?

feedVars == <<pending, alive>>

FeedInit == pending = <<>> /\ alive = TRUE

Occur == alive /\ IsPrefix(pending, pending') /\ UNCHANGED alive

Report == alive /\ pending # <<>> /\ pending' = Tail(pending) /\ UNCHANGED alive

Stop == alive /\ alive' = FALSE /\ UNCHANGED pending

FeedNext == Occur \/ Report \/ Stop

FeedSpec == FeedInit /\ [][FeedNext]_feedVars

FairFeedSpec == FeedSpec /\ WF_feedVars(Report)
=============================================================================
