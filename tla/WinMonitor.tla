------------------------------ MODULE WinMonitor ------------------------------
(***************************************************************************)
(* common::monitor::win_monitor, the directory monitor for Windows: one    *)
(* monitor, whose read_async is called once.  A read of the directory is   *)
(* asynchronous; when it completes, the completion routine runs in the     *)
(* thread that issued the read, in an alertable wait of that thread.       *)
(*                                                                         *)
(* The kernel collects changes from the first read on.  When they outgrow  *)
(* its buffer it throws them away, and the read completes with no bytes.   *)
(* Changes are numbered in the order they occur.                           *)
(***************************************************************************)
EXTENDS Integers, Sequences, SequencesExt

CONSTANTS
  KernelCap,   \* changes that fit in the buffers, of 64 KB
  MaxChanges   \* bound: changes of the directory

ASSUME CapAssumption == KernelCap \in Nat \ {0} /\ MaxChanges \in Nat

VARIABLES
  queue,     \* changes the kernel has collected for the handle
  overflow,  \* it has thrown some away since the last read completed
  armed,     \* a read is outstanding
  apc,       \* a read has completed and its routine has not yet run
  gone       \* the directory was deleted

kernelVars == <<queue, overflow, armed, apc, gone>>

VARIABLES
  pc,        \* new, caller, routine, callback, rearm, threw
  lpBuffer,  \* the records in lpBuffer; none when it is all zeros
  info       \* the record the routine is at

(* History variables. *)
VARIABLES
  changes,   \* changes so far, since the first read
  told,      \* the change that each call of the callback was for, or 0
  seen,      \* changes when the callback was last called
  lost       \* some were thrown away

history == <<changes, told, seen, lost>>
vars == <<kernelVars, pc, lpBuffer, info, history>>

Init ==
  /\ queue = <<>> /\ overflow = FALSE /\ armed = FALSE /\ apc = FALSE /\ gone = FALSE
  /\ pc = "new" /\ lpBuffer = <<>> /\ info = 0
  /\ changes = 0 /\ told = <<>> /\ seen = 0 /\ lost = FALSE

-----------------------------------------------------------------------------
(* The kernel and other processes.                                          *)

\* After a refused read changes are nobody's concern.
Change ==
  /\ changes < MaxChanges /\ pc \notin {"new", "threw"} /\ ~gone
  /\ changes' = changes + 1
  /\ IF Len(queue) < KernelCap /\ ~overflow
     THEN queue' = Append(queue, changes') /\ UNCHANGED <<overflow, lost>>
     ELSE queue' = <<>> /\ overflow' = TRUE /\ lost' = TRUE
  /\ UNCHANGED <<armed, apc, gone, pc, lpBuffer, info, told, seen>>

\* A read completes.  With no bytes the kernel leaves the buffer as it is.
Complete ==
  /\ armed /\ (queue # <<>> \/ overflow \/ gone)
  /\ lpBuffer' = IF queue = <<>> THEN lpBuffer ELSE queue
  /\ queue' = <<>> /\ overflow' = FALSE
  /\ armed' = FALSE /\ apc' = TRUE
  /\ UNCHANGED <<gone, pc, info, history>>

Delete ==
  /\ pc # "new" /\ ~gone
  /\ gone' = TRUE
  /\ UNCHANGED <<queue, overflow, armed, apc, pc, lpBuffer, info, history>>

-----------------------------------------------------------------------------
(* win_monitor.                                                             *)

\* A mistake: what the last read has left stays in the buffer.
ZeroMemory_Not == UNCHANGED lpBuffer

ZeroMemory == lpBuffer' = <<>>

\* win_monitor::ReadDirectoryChangesW; it throws when the system refuses.
ReadDirectoryChanges ==
  /\ ZeroMemory
  /\ armed' = TRUE
  /\ pc' = "caller"
  /\ UNCHANGED <<queue, overflow, apc, gone, info, history>>

ReadDirectoryChangesFails ==
  /\ ZeroMemory
  /\ pc' = "threw"
  /\ UNCHANGED <<kernelVars, info, history>>

ReadAsync == pc = "new" /\ ReadDirectoryChanges

\* CreateFileA fails, or the first read; the exception reaches the caller.
ReadAsyncFails ==
  /\ pc = "new"
  /\ \/ pc' = "threw" /\ UNCHANGED <<kernelVars, lpBuffer, info, history>>
     \/ ReadDirectoryChangesFails

\* Mistakes: a completion with no bytes is passed over; the next read is issued
\* before the records are done with.
EnterRoutine_PassesOver ==
  /\ apc /\ pc \in {"caller", "callback"}
  /\ apc' = FALSE
  /\ IF lpBuffer = <<>> THEN UNCHANGED <<pc, info>> ELSE pc' = "routine" /\ info' = 1
  /\ UNCHANGED <<queue, overflow, armed, gone, lpBuffer, history>>
EnterRoutine_RearmsFirst ==
  /\ apc /\ pc \in {"caller", "callback"}
  /\ apc' = FALSE /\ armed' = TRUE
  /\ pc' = "routine" /\ info' = 1
  /\ UNCHANGED <<queue, overflow, gone, lpBuffer, history>>

\* An alertable wait, of the caller or in the callback.  The routine looks neither
\* at the error code nor at the number of bytes.
EnterRoutine ==
  /\ apc /\ pc \in {"caller", "callback"}
  /\ apc' = FALSE
  /\ pc' = "routine" /\ info' = 1
  /\ UNCHANGED <<queue, overflow, armed, gone, lpBuffer, history>>

Record == IF lpBuffer = <<>> THEN 0 ELSE lpBuffer[info]

\* Every change is given to the callback as the same one, `added' at the path
\* watched: what the record says is not used.
Callback ==
  /\ pc = "routine"
  /\ pc' = "callback"
  /\ told' = Append(told, Record)
  /\ seen' = changes
  /\ UNCHANGED <<kernelVars, lpBuffer, info, changes, lost>>

\* A mistake: one record a read.
More_Not == FALSE
More == info < Len(lpBuffer)

NextRecord ==
  /\ pc = "callback" /\ More
  /\ info' = info + 1
  /\ pc' = "routine"
  /\ UNCHANGED <<kernelVars, lpBuffer, history>>

LastRecord ==
  /\ pc = "callback" /\ ~More
  /\ pc' = "rearm"
  /\ UNCHANGED <<kernelVars, lpBuffer, info, history>>

Rearm == pc = "rearm" /\ ~gone /\ ReadDirectoryChanges

\* The exception leaves the completion routine; nothing is read any more.
RearmFails == pc = "rearm" /\ ReadDirectoryChangesFails

-----------------------------------------------------------------------------

Routine == Callback \/ NextRecord \/ LastRecord \/ Rearm \/ RearmFails

Next ==
  \/ Change \/ Complete \/ Delete
  \/ ReadAsync \/ ReadAsyncFails \/ EnterRoutine \/ Routine

Spec == Init /\ [][Next]_vars

\* Reads complete, the thread keeps waiting alertably, and callbacks return.
FairSpec == Spec /\ WF_vars(Complete) /\ WF_vars(EnterRoutine) /\ WF_vars(Routine)

-----------------------------------------------------------------------------
(* Properties.                                                              *)

Changes == Seq(Nat)

TypeOK ==
  /\ queue \in Changes /\ lpBuffer \in Changes /\ told \in Changes
  /\ {overflow, armed, apc, gone, lost} \subseteq BOOLEAN
  /\ pc \in {"new", "caller", "routine", "callback", "rearm", "threw"}
  /\ info \in Nat /\ changes \in Nat /\ seen \in 0 .. changes

\* The kernel never writes the buffer while the routine reads it, nor does the
\* routine start anew in an alertable wait of the callback: no read is outstanding
\* until the last record is done with (monitor.cpp:20-59).
OneAtATime ==
  /\ armed => ~apc /\ pc = "caller" /\ lpBuffer = <<>>
  /\ apc => pc = "caller"

\* What is in the buffer and not yet told.
Rest ==
  IF apc THEN lpBuffer
  ELSE IF pc = "routine" THEN SubSeq(lpBuffer, info, Len(lpBuffer))
  ELSE IF pc = "callback" THEN SubSeq(lpBuffer, info + 1, Len(lpBuffer))
  ELSE <<>>

Numbers(n) == [i \in 1 .. n |-> i]

\* The callback is called for each change once, in the order they occurred; when
\* changes were thrown away, for the others, each at most once and in that order
\* still (monitor.cpp:20-58, 64).
ToldInOrder ==
  /\ ~lost /\ ~gone => told \o Rest \o queue = Numbers(changes)
  /\ \A i, j \in DOMAIN told : i < j /\ told[i] # 0 /\ told[j] # 0 => told[i] < told[j]

\* What the steps preserve besides: everything told and to be told is in order, and
\* the routine has a record to read unless changes were thrown away.
AllNumbers == told \o Rest \o queue

InOrder ==
  /\ \A i \in DOMAIN AllNumbers : AllNumbers[i] <= changes
  /\ \A i, j \in DOMAIN AllNumbers :
       i < j /\ AllNumbers[i] # 0 /\ AllNumbers[j] # 0 => AllNumbers[i] < AllNumbers[j]

BufferOK ==
  /\ pc \in {"new", "threw"} => ~armed /\ ~apc
  /\ pc = "new" => queue = <<>> /\ changes = 0 /\ ~gone
  /\ overflow => lost /\ queue = <<>>
  /\ (apc \/ pc = "routine") /\ lpBuffer = <<>> => lost \/ gone
  /\ pc = "routine" => info \in 1 .. Len(lpBuffer) \/ (lpBuffer = <<>> /\ info = 1)
  /\ pc = "callback" => info >= 1
  /\ pc = "caller" => armed \/ apc
  /\ pc \in {"routine", "callback", "rearm"} => ~apc

\* The calls made and to be made are paid for: each of them by a change, but for one
\* by the deletion, which completes the read outstanding, and after which no read
\* is.  A buffer of zeros will be told as one record.
One(b) == IF b THEN 1 ELSE 0

Extra ==
  One(overflow) + One((apc \/ pc = "routine") /\ lpBuffer = <<>>) - One(gone /\ ~armed)

CallsPaid == Len(AllNumbers) + Extra <= changes

Inv == TypeOK /\ OneAtATime /\ BufferOK /\ InOrder /\ ToldInOrder /\ CallsPaid

\* After every change the callback is called, even when the kernel threw the
\* change away, until a read is refused; and it is never called more often than
\* there were changes, but once for the deletion: the monitor implements
\* ChangeSignal (monitor.cpp:18-70).
Signals == INSTANCE ChangeSignal WITH
  deleted <- gone, calls <- Len(told), alive <- pc # "threw"
Signalled == Signals!FairSignalSpec
===============================================================================
