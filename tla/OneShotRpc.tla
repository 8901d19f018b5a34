------------------------------ MODULE OneShotRpc ------------------------------
(***************************************************************************)
(* What http_client promises for its calls, made one after the other: a    *)
(* call always ends, in a failure or with an answer; it ends with a text   *)
(* only after the server processed that very call and answered with a      *)
(* text, and with neither a text nor an error only after the server        *)
(* processed that very call and its answer was empty; and the server       *)
(* processes a call at most once, though possibly after the call has ended *)
(* with a failure.                                                         *)
(***************************************************************************)
EXTENDS Integers, SequencesExt

VARIABLES
  calls,     \* calls made so far
  open,      \* is the last one still running?
  outcome,   \* how the last one ended
  processed, \* the calls the server processed, in that order
  texts      \* those of them it answered with a text

rpcVars == <<calls, open, outcome, processed, texts>>

RpcInit == calls = 0 /\ open = FALSE /\ outcome = "none" /\ processed = <<>> /\ texts = {}

Begin ==
  /\ ~open /\ open' = TRUE
  /\ calls' = calls + 1
  /\ outcome' = "none"
  /\ UNCHANGED <<processed, texts>>

Process ==
  /\ \E c \in 1 .. calls :
       /\ ~Contains(processed, c)
       /\ processed' = Append(processed, c)
       /\ texts' \in {texts, texts \cup {c}}
  /\ UNCHANGED <<calls, open, outcome>>

End(how) == open /\ open' = FALSE /\ outcome' = how /\ UNCHANGED <<calls, processed, texts>>

Answer == Contains(processed, calls) /\ End(IF calls \in texts THEN "text" ELSE "empty")
Fail == End("failure")

RpcNext == Begin \/ Process \/ Answer \/ Fail

RpcSpec == RpcInit /\ [][RpcNext]_rpcVars

FairRpcSpec == RpcSpec /\ WF_rpcVars(Answer \/ Fail)
=============================================================================
