------------------------------- MODULE MakeDir -------------------------------
(***************************************************************************)
(* common::makedir called for one path by any number of processes or       *)
(* threads at once.  Each of its five file system calls is a step of its   *)
(* own: the function asks, and acts later on the answer.  Between calls a   *)
(* process puts something of its own into the directory it was given.      *)
(* Nobody else touches the path.                                           *)
(***************************************************************************)
EXTENDS FiniteSets

CONSTANT Callers

VARIABLES
  node,     \* what is at the path: absent, file, dir
  entries,  \* the callers with something in the directory
  pc        \* where each caller is

(* History variables. *)
VARIABLES
  node0,    \* what was at the path at the start
  made,     \* a call returned
  failed,   \* a call threw
  wiped     \* something a caller had put into the directory was removed

history == <<node0, made, failed, wiped>>
vars == <<node, entries, pc, history>>

Init ==
  /\ node \in {"absent", "file", "dir"}
  /\ entries = {}
  /\ pc = [c \in Callers |-> "out"]
  /\ node0 = node
  /\ made = FALSE /\ failed = FALSE /\ wiped = FALSE

At(c, from, to) == pc[c] = from /\ pc' = [pc EXCEPT ![c] = to]

-----------------------------------------------------------------------------
(* One call.                                                                *)

\* if (exists(path) && ...
Start(c) ==
  /\ At(c, "out", IF node = "absent" THEN "exists" ELSE "is_directory")
  /\ UNCHANGED <<node, entries, history>>

\* A mistake: what exists is taken for a file.
IsDirectory_Skipped(c) ==
  /\ At(c, "is_directory", "remove")
  /\ UNCHANGED <<node, entries, history>>

\* ... !is_directory(path)): true also of a path that has vanished meanwhile.
IsDirectory(c) ==
  /\ At(c, "is_directory", IF node = "dir" THEN "exists" ELSE "remove")
  /\ UNCHANGED <<node, entries, history>>

\* A mistake: the creation belongs to the other branch of the first test.
RemoveAll_Returns(c) ==
  /\ At(c, "remove", "out")
  /\ node' = "absent"
  /\ entries' = {}
  /\ wiped' = (wiped \/ entries # {})
  /\ made' = TRUE
  /\ UNCHANGED <<node0, failed>>

\* remove_all removes whatever is there now, a directory and its contents too.
RemoveAll(c) ==
  /\ At(c, "remove", "exists")
  /\ node' = "absent"
  /\ entries' = {}
  /\ wiped' = (wiped \/ entries # {})
  /\ UNCHANGED <<node0, made, failed>>

\* It fails, perhaps half way through the contents: the call throws.
RemoveAllFails(c) ==
  /\ At(c, "remove", "out")
  /\ entries' \in SUBSET entries
  /\ wiped' = (wiped \/ entries' # entries)
  /\ failed' = TRUE
  /\ UNCHANGED <<node, node0, made>>

\* if (!exists(path))
Exists(c) ==
  /\ IF node = "absent"
       THEN At(c, "exists", "create") /\ UNCHANGED made
       ELSE At(c, "exists", "out") /\ made' = TRUE
  /\ UNCHANGED <<node, entries, node0, failed, wiped>>

\* create_directories: a directory that is there meanwhile is no error.
Create(c) ==
  /\ At(c, "create", "out")
  /\ node # "file"
  /\ node' = "dir"
  /\ made' = TRUE
  /\ UNCHANGED <<entries, node0, failed, wiped>>

CreateFails(c) ==
  /\ At(c, "create", "out")
  /\ failed' = TRUE
  /\ UNCHANGED <<node, entries, node0, made, wiped>>

\* The status of the path cannot be read: exists or is_directory throws.
StatusFails(c) ==
  /\ \E from \in {"out", "is_directory", "exists"} : At(c, from, "out")
  /\ failed' = TRUE
  /\ UNCHANGED <<node, entries, node0, made, wiped>>

\* The caller works in the directory.
Use(c) ==
  /\ pc[c] = "out"
  /\ node = "dir"
  /\ entries' = entries \cup {c}
  /\ UNCHANGED <<node, pc, history>>

-----------------------------------------------------------------------------

Step(c) ==
  \/ Start(c) \/ IsDirectory(c) \/ StatusFails(c)
  \/ RemoveAll(c) \/ RemoveAllFails(c)
  \/ Exists(c) \/ Create(c) \/ CreateFails(c)
  \/ Use(c)

Next == \E c \in Callers : Step(c)

Spec == Init /\ [][Next]_vars

-----------------------------------------------------------------------------
(* Properties.                                                              *)

TypeOK ==
  /\ node \in {"absent", "file", "dir"} /\ node0 \in {"absent", "file", "dir"}
  /\ entries \subseteq Callers
  /\ pc \in [Callers -> {"out", "is_directory", "remove", "exists", "create"}]
  /\ made \in BOOLEAN /\ failed \in BOOLEAN /\ wiped \in BOOLEAN

\* What the steps preserve.  While the file is there no call has passed its
\* removal; when it is gone and no call failed, the directory was never made or
\* some call is still on its way to make it; and without a file at the start
\* nobody removes anything.
Inv ==
  /\ TypeOK
  /\ node = "file" => ~made /\ \A c \in Callers : pc[c] \notin {"exists", "create"}
  /\ node = "absent" /\ made /\ ~failed =>
       \E c \in Callers : pc[c] \in {"exists", "create"}
  /\ node0 # "file" =>
       /\ node # "file" /\ ~wiped
       /\ (node = "absent" => \A c \in Callers : pc[c] # "is_directory")
       /\ \A c \in Callers : pc[c] # "remove"

\* When all calls are over, at least one was made and none threw, the path is a
\* directory, whatever stood there and however the calls met: a directory one
\* call removes under another is made again (common.cpp:287-303).
QuietMeansDir ==
  (\A c \in Callers : pc[c] = "out") /\ made /\ ~failed => node = "dir"

\* Calls destroy nothing unless a file stood at the path: without one, nothing
\* put into the directory is ever lost (common.cpp:287-289).
ContentsSafe == node0 # "file" => ~wiped

\* Where a file stood, a call about to remove it may remove the directory that
\* another call has made there meanwhile.  Once the directory is there and no
\* call is at remove_all, that danger is over for good.
Settled == node = "dir" /\ \A c \in Callers : pc[c] # "remove"
SettledStays == [][Settled => Settled']_vars
=============================================================================
