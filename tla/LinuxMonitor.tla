----------------------------- MODULE LinuxMonitor -----------------------------
(***************************************************************************)
(* common::monitor::linux_monitor: the main thread constructs the monitor, *)
(* calls watch on one directory and then read_async, which starts the      *)
(* reader thread; the reader reads batches of inotify events, turns each   *)
(* into a change, watches every directory it meets, and calls the user's   *)
(* callback.  The order of calls is that of test/common_test.cpp:77-85, so *)
(* at most one thread is inside the monitor and one pc is enough; `caller' *)
(* says which thread that is.                                              *)
(***************************************************************************)
EXTENDS Inotify

CONSTANT BatchCap  \* events that fit the buffer of one read, 1000 in the code

ASSUME MonitorAssumption == BatchCap \in Nat \ {0}

NoPath == <<>>  \* the empty std::string

VARIABLES
  wd_map,     \* path by watch descriptor
  pc, caller, \* where the running thread is, and whether it is main or reader
  batch,      \* events of the last read not yet delivered; the head is current
  fullpath,   \* path of the current event
  todo,       \* directories find_files has still to list
  paths,      \* directories listed and not yet given to inotify_add_watch
  fault       \* why the process, or the call, ended by an exception

programVars == <<wd_map, pc, caller, batch, fullpath, todo, paths, fault>>

(* History variables: nothing in the code reads them. *)
VARIABLES
  hist,       \* every path each directory has had
  blind,      \* directories that no event tells of and no listing has found
  disturbed,  \* a path of the running watch call was moved or removed
  lost        \* the kernel dropped an event

history == <<hist, blind, disturbed, lost>>
vars == <<kernelVars, programVars, history>>

ChangeType(kind) ==
  CASE kind = "create" -> "added"
    [] kind = "delete" -> "removed"
    [] kind = "modify" -> "modified"
    [] kind = "moved_from" -> "INMOVEDFROM"
    [] kind = "moved_to" -> "INMOVEDTO"
    [] OTHER -> "unknown"

Ended == {"threw", "dead", "destroyed"}

Init ==
  /\ KernelInit
  /\ wd_map = <<>>
  /\ pc = "new"
  /\ caller = "main"
  /\ batch = <<>>
  /\ fullpath = NoPath
  /\ todo = <<>>
  /\ paths = <<>>
  /\ fault = "none"
  /\ hist = [d \in DOMAIN tree |-> {tree[d]}]
  /\ blind = {}
  /\ disturbed = FALSE
  /\ lost = FALSE

-----------------------------------------------------------------------------
(* Exceptions.  One thrown in the reader thread has no handler and ends the *)
(* process; one thrown in the main thread reaches the caller of watch.      *)

Throw(cause) ==
  /\ fault' = cause
  /\ pc' = IF caller = "main" THEN "threw" ELSE "dead"

-----------------------------------------------------------------------------
(* watch(path): find_files lists the subtree depth first, and only then     *)
(* every directory found is given to inotify_add_watch.                     *)

EnterWatch(p) ==
  /\ pc' = "scan"
  /\ todo' = <<p>>
  /\ paths' = <<>>
  /\ disturbed' = FALSE

Children(p) == {tree[d] : d \in {x \in DOMAIN tree : tree[x] # <<>> /\ Front(tree[x]) = p}}

\* opendir and readdir of one directory; its subdirectories come next.  An error of
\* readdir ends the loop as the end of the directory does: what it has not returned
\* is missing.
ListDir ==
  /\ pc = "scan"
  /\ IsDir(Head(todo))
  /\ \E found \in SUBSET Children(Head(todo)) :
       /\ \E entries \in SetToSeqs(found) : todo' = entries \o Tail(todo)
       /\ pc' = IF todo' = <<>> THEN "add" ELSE "scan"
       /\ blind' = blind \cup {d \in DOMAIN tree : tree[d] \in Children(Head(todo)) \ found}
  /\ paths' = Append(paths, Head(todo))
  /\ UNCHANGED <<kernelVars, wd_map, caller, batch, fullpath, fault, hist, disturbed, lost>>

\* There is no such directory; or there is, and the system refuses: permissions, a
\* limit on streams or watches, memory.
OpendirFails ==
  /\ pc = "scan"
  /\ \/ ~IsDir(Head(todo)) /\ Throw("opendir")
     \/ Throw("refused")
  /\ UNCHANGED <<kernelVars, wd_map, caller, batch, fullpath, todo, paths, history>>

\* Mistakes the properties must catch: an insertion that keeps an old entry, and
\* the path of the call where the path of the directory belongs.
WatchPathOf_Insert(d) ==
  AddWatch(d) /\ wd_map' = IF d \in DOMAIN wd_map THEN wd_map ELSE Put(wd_map, d, Head(paths))
WatchPathOf_CallPath(d) ==
  /\ AddWatch(d)
  /\ wd_map' = Put(wd_map, d, IF caller = "main" THEN WatchPath ELSE fullpath)

WatchPathOf(d) ==
  /\ AddWatch(d)
  /\ wd_map' = Put(wd_map, d, Head(paths))

AddNext ==
  /\ pc = "add"
  /\ \E d \in DirAt(Head(paths)) : WatchPathOf(d)
  /\ paths' = Tail(paths)
  /\ pc' = IF paths' # <<>> THEN "add" ELSE IF caller = "main" THEN "start" ELSE "callback"
  /\ UNCHANGED <<tree, born, ops, queue, caller, batch, fullpath, todo, fault, history>>

AddWatchFails ==
  /\ pc = "add"
  /\ \/ ~IsDir(Head(paths)) /\ Throw("add_watch")
     \/ Throw("refused")
  /\ UNCHANGED <<kernelVars, wd_map, caller, batch, fullpath, todo, paths, history>>

-----------------------------------------------------------------------------
(* The main thread.                                                         *)

Construct ==
  /\ pc = "new"
  /\ \/ pc' = "init" /\ UNCHANGED fault
     \/ Throw("inotify_init")
  /\ UNCHANGED <<kernelVars, wd_map, caller, batch, fullpath, todo, paths, history>>

CallWatch ==
  /\ pc = "init"
  /\ EnterWatch(WatchPath)
  /\ UNCHANGED <<kernelVars, wd_map, caller, batch, fullpath, fault, hist, blind, lost>>

ReadAsync ==
  /\ pc = "start"
  /\ caller' = "reader"
  /\ pc' = "read"
  /\ UNCHANGED <<kernelVars, wd_map, batch, fullpath, todo, paths, fault, history>>

\* The destructor deletes the std::thread: that terminates the process when
\* the thread was started, and does nothing otherwise.
Destroy ==
  /\ \/ caller = "main" /\ pc \in {"init", "start"} /\ pc' = "destroyed" /\ UNCHANGED fault
     \/ caller = "reader" /\ pc \notin Ended /\ pc' = "dead" /\ fault' = "join"
  /\ UNCHANGED <<kernelVars, wd_map, caller, batch, fullpath, todo, paths, history>>

-----------------------------------------------------------------------------
(* The reader thread.                                                       *)

\* A mistake: what does not fit the buffer is discarded.
Read_Truncates ==
  LET k == IF Len(queue) <= BatchCap THEN Len(queue) ELSE BatchCap IN
  /\ pc = "read"
  /\ queue # <<>>
  /\ batch' = SubSeq(queue, 1, k)
  /\ queue' = <<>>
  /\ pc' = "handle"
  /\ UNCHANGED <<tree, born, ops, watched, wd_map, caller, fullpath, todo, paths, fault, history>>

\* read(fd): blocks while the queue is empty, else takes all that fits.
Read ==
  LET k == IF Len(queue) <= BatchCap THEN Len(queue) ELSE BatchCap IN
  /\ pc = "read"
  /\ queue # <<>>
  /\ batch' = SubSeq(queue, 1, k)
  /\ queue' = SubSeq(queue, k + 1, Len(queue))
  /\ pc' = "handle"
  /\ UNCHANGED <<tree, born, ops, watched, wd_map, caller, fullpath, todo, paths, fault, history>>

ReadFails ==
  /\ pc = "read"
  /\ Throw("read")
  /\ UNCHANGED <<kernelVars, wd_map, caller, batch, fullpath, todo, paths, history>>

\* wd_map[wd] of an unknown descriptor inserts the empty string.
Lookup(wd) == IF wd \in DOMAIN wd_map THEN wd_map[wd] ELSE NoPath

\* event->name of an event with len = 0 lies beyond the event: the build
\* reads whatever the buffer holds there.
NamesRead(e) == IF e.name = <<>> THEN {<<>>} \cup {<<n>> : n \in Names} ELSE {e.name}

\* The name is appended to the path of the descriptor; to the empty path too,
\* which gives a path relative to the working directory, here Outer.
Decode(e) ==
  /\ \E name \in NamesRead(e) : fullpath' = Lookup(e.wd) \o name
  /\ wd_map' = Put(wd_map, e.wd, Lookup(e.wd))

\* Mistakes: a directory is watched only when it is created, and everything is
\* watched, file or directory.
IsWatchable_Created == Head(batch).kind = "create" /\ fullpath' # NoPath /\ IsDir(fullpath')
IsWatchable_Any == fullpath' # NoPath

IsWatchable == fullpath' # NoPath /\ IsDir(fullpath')

\* Decode the current event; a path that is a directory now is watched.
Handle ==
  /\ pc = "handle"
  /\ Decode(Head(batch))
  /\ IF IsWatchable THEN EnterWatch(fullpath')
     ELSE pc' = "callback" /\ UNCHANGED <<todo, paths, disturbed>>
  /\ UNCHANGED <<kernelVars, caller, batch, fault, hist, blind, lost>>

\* is_directory throws when the path cannot be looked up, other than because it leads
\* nowhere.
HandleFails ==
  /\ pc = "handle"
  /\ Decode(Head(batch))
  /\ fullpath' # NoPath
  /\ Throw("refused")
  /\ UNCHANGED <<kernelVars, caller, batch, todo, paths, history>>

\* A mistake: a removal erases the descriptor it was reported on.
Callback_Erases ==
  /\ pc = "callback"
  /\ batch' = Tail(batch)
  /\ fullpath' = NoPath
  /\ pc' = IF batch' = <<>> THEN "read" ELSE "handle"
  /\ wd_map' = IF Head(batch).kind # "delete" THEN wd_map
               ELSE [wd \in DOMAIN wd_map \ {Head(batch).wd} |-> wd_map[wd]]
  /\ UNCHANGED <<kernelVars, caller, todo, paths, fault, history>>

\* onchange(c, obj), then the next event of the buffer or the next read.  The callback
\* may throw on a change it does not know, as that of the test does.
Callback ==
  /\ pc = "callback"
  /\ \/ /\ batch' = Tail(batch)
        /\ fullpath' = NoPath
        /\ pc' = IF batch' = <<>> THEN "read" ELSE "handle"
        /\ UNCHANGED fault
     \/ /\ ChangeType(Head(batch).kind) = "unknown"
        /\ Throw("callback")
        /\ UNCHANGED <<batch, fullpath>>
  /\ UNCHANGED <<kernelVars, wd_map, caller, todo, paths, history>>

-----------------------------------------------------------------------------
(* Other processes, with what the history variables record of their steps.  *)

\* Directory d is in the tree the user asked to watch.
Inside(d) == Root \in DOMAIN tree /\ d \in Subtree(Root)

\* Directory d was listed by the running watch call but is not watched yet:
\* what appears in it now is neither listed nor reported.
InWindow(d) == pc \in {"scan", "add"} /\ Contains(paths, tree[d])

\* Directory c, with cs below it, arrives in directory d.  An event tells of it
\* when d is watched; a listing still to come finds it when d is a directory of
\* the tree that no listing has passed; otherwise nothing does.
NoteArrival(c, cs, d) ==
  blind' = IF d \in watched \/ (Inside(d) /\ ~InWindow(d)) THEN blind \ cs ELSE blind \cup {c}

NoteDeparture(c) ==
  disturbed' = \/ disturbed
               \/ \E p \in ToSet(todo) \cup ToSet(paths) : IsPrefix(tree[c], p)

NotePaths == hist' = [d \in DOMAIN hist \cup DOMAIN tree' |->
                        (IF d \in DOMAIN hist THEN hist[d] ELSE {})
                          \cup (IF d \in DOMAIN tree' THEN {tree'[d]} ELSE {})]

Others ==
  /\ pc \notin Ended
  /\ \/ \E d \in DOMAIN tree, n \in Names :
          /\ Mkdir(d, n)
          /\ NoteArrival(born, {born}, d)
          /\ UNCHANGED disturbed
     \/ \E c \in DOMAIN tree :
          /\ Rmdir(c)
          /\ NoteDeparture(c)
          /\ UNCHANGED blind
     \/ \E c, d \in DOMAIN tree, n \in Names :
          /\ Rename(c, d, n)
          /\ NoteDeparture(c)
          /\ NoteArrival(c, Subtree(c), d)
     \/ \E d \in DOMAIN tree, n \in Names, kind \in FileKinds :
          /\ FileEvent(d, n, kind)
          /\ UNCHANGED <<blind, disturbed>>
  /\ NotePaths
  /\ lost' = (lost \/ Contains(queue', Overflow))
  /\ UNCHANGED programVars

-----------------------------------------------------------------------------

Main == Construct \/ CallWatch \/ ReadAsync
Watch == ListDir \/ OpendirFails \/ AddNext \/ AddWatchFails
Reader == Read \/ Handle \/ Callback

Next == Main \/ Watch \/ Reader \/ ReadFails \/ HandleFails \/ Destroy \/ Others

Spec == Init /\ [][Next]_vars

\* Both threads keep running; other processes, a failing read and the
\* destruction of the monitor may never come.
FairSpec == Spec /\ WF_vars(Main \/ Watch \/ Reader)

-----------------------------------------------------------------------------
(* Properties.                                                              *)

MapTypeOK ==
  /\ DOMAIN wd_map \subseteq {OverflowWd} \cup (0 .. born - 1)
  /\ wd_map \in [DOMAIN wd_map -> Path]
  /\ OverflowWd \in DOMAIN wd_map => wd_map[OverflowWd] = NoPath

DataTypeOK ==
  /\ batch \in Seq(Event)
  /\ fullpath \in Path
  /\ todo \in Seq(Path)
  /\ paths \in Seq(Path)

ControlTypeOK ==
  /\ pc \in {"new", "init", "scan", "add", "start", "read", "handle", "callback"} \cup Ended
  /\ caller \in {"main", "reader"}
  /\ fault \in {"none", "inotify_init", "opendir", "add_watch", "refused", "read", "callback", "join"}

HistoryTypeOK ==
  /\ hist \in [0 .. born - 1 -> SUBSET Path]
  /\ blind \subseteq 0 .. born - 1
  /\ disturbed \in BOOLEAN
  /\ lost \in BOOLEAN

\* Type invariant of the monitor, the kernel and the history variables; the only
\* thing ever stored under descriptor -1 is the empty string.
TypeOK == KernelTypeOK /\ MapTypeOK /\ DataTypeOK /\ ControlTypeOK /\ HistoryTypeOK

\* The reader waits in read and there is nothing to read.
Quiet == pc = "read" /\ queue = <<>>

BehindBlind(d) == \E b \in blind \cap DOMAIN tree : d \in Subtree(b)

\* Once the reader has caught up and no event was dropped, every directory of
\* the tree is watched, however it was created, moved or removed meanwhile,
\* except below a directory that appeared between the listing of its parent
\* and the inotify_add_watch of it (linux_monitor.cpp:28-32) or that a failed
\* readdir kept out of a listing (common.cpp:141), or below a root that was
\* itself moved away.
Covered ==
  Quiet /\ ~lost => \A d \in DOMAIN tree : Inside(d) => d \in watched \/ BehindBlind(d)

\* Under the same conditions the map gives every watched directory its present
\* path: renames of it or of the directories above have all been followed
\* (linux_monitor.cpp:38, 60, 99-102).
PathsCurrent ==
  Quiet /\ ~lost => \A d \in watched : Inside(d) => wd_map[d] = tree[d] \/ BehindBlind(d)

\* Every event read finds the path of its descriptor in wd_map, so operator[]
\* invents no empty path for a directory (linux_monitor.cpp:38, 60).
EventsKnown ==
  \A e \in ToSet(batch) \cup ToSet(queue) :
    e.wd # OverflowWd => e.wd \in DOMAIN wd_map /\ wd_map[e.wd] # NoPath

\* The directory part of a path in the map, hence of a path given to the
\* callback, is one this very directory has had, now or before: never the path
\* of another directory (linux_monitor.cpp:32-38, 60).
PathWasReal ==
  \A d \in DOMAIN wd_map \ {OverflowWd} : wd_map[d] \in hist[d]

\* A path that is no directory ends the reader only when another process moved or
\* removed one of the very paths the watch call was working on.  A tree that only
\* grows does so only where the system refuses a call: too many watches or streams,
\* no permission, no memory (linux_monitor.cpp:28-35, 99, common.cpp:139-172).
DeathCause ==
  caller = "reader" /\ fault \in {"opendir", "add_watch"} => disturbed

\* What the steps preserve besides.  Every directory watched is in the map under
\* a path of its own (WatchesKnown), and so is that of every event; where there
\* is work to do there is something to do it on (PcOK); and the paths a watch
\* call works on are directories until another process disturbs one.
Pending == ToSet(todo) \cup ToSet(paths)

TreeOK ==
  \A d \in DOMAIN tree : tree[d] \in hist[d] /\ (d # Outer => tree[d] # NoPath)

WatchesKnown == \A d \in watched : d \in DOMAIN wd_map /\ wd_map[d] # NoPath

PcOK ==
  /\ pc \in {"new", "init", "start"} => caller = "main"
  /\ pc \in {"read", "handle", "callback"} => caller = "reader"
  /\ pc = "scan" => todo # <<>>
  /\ pc = "add" => paths # <<>>
  /\ caller = "main" \/ pc = "read" => batch = <<>>
  /\ pc \in {"handle", "callback"} \/ (caller = "reader" /\ pc \in {"scan", "add"})
       => batch # <<>>
  /\ fault # "none" => pc \in Ended
  /\ NoPath \notin Pending

CallUndisturbed ==
  pc \in {"scan", "add"} /\ caller = "reader" /\ ~disturbed => \A p \in Pending : IsDir(p)

BaseInv ==
  /\ TypeOK /\ TreeOK /\ WatchesKnown /\ EventsKnown /\ PathWasReal
  /\ PcOK /\ CallUndisturbed /\ DeathCause

\* Why the monitor catches up.  Promised are the directories it must come to watch.
\* The events it has not yet decoded form a line, and each directory promised has a
\* place in it: place 0 when it is watched under its present path (Right) or the
\* running watch call will still come to it (Claimed); else the place of an event
\* that tells where it, or a directory above it, has arrived, in a directory
\* whose own place is earlier, so that the event will be decoded rightly.
Promised == {d \in DOMAIN tree : Inside(d) /\ ~BehindBlind(d)}

Undecoded == (IF pc = "handle" \/ batch = <<>> THEN batch ELSE Tail(batch)) \o queue

Right(d) == d \in watched /\ wd_map[d] = tree[d]

ToList ==
  IF pc \in {"new", "init"} THEN {WatchPath} ELSE IF pc = "scan" THEN ToSet(todo) ELSE {}
ToAdd == IF pc \in {"scan", "add"} THEN ToSet(paths) ELSE {}
Claimed(d) == tree[d] \in ToAdd \/ \E p \in ToList : IsPrefix(p, tree[d])

Tells(e, c) == e.wd = Parent(c) /\ e.name = <<Last(tree[c])>>

InPlace(place, d) ==
  \/ place[d] = 0 /\ (Right(d) \/ Claimed(d))
  \/ \E c \in Promised :
       /\ d \in Subtree(c) /\ Parent(c) \in Promised
       /\ place[Parent(c)] < place[d] /\ Tells(Undecoded[place[d]], c)

Reached ==
  ~lost /\ pc \notin Ended =>
    \E place \in [Promised -> 0 .. Len(Undecoded)] : \A d \in Promised : InPlace(place, d)

\* Paths are told apart and complete, and what is outside the tree of the user is
\* behind a directory that is blind; the working directory is never watched.
TreeShape ==
  /\ Outer \in DOMAIN tree /\ tree[Outer] = NoPath /\ Outer \notin watched
  /\ \A c, d \in DOMAIN tree : tree[c] = tree[d] => c = d
  /\ \A d \in DOMAIN tree : \A k \in 0 .. Len(tree[d]) : IsDir(SubSeq(tree[d], 1, k))

OutsideBlind == \A d \in DOMAIN tree \ {Outer} : Inside(d) \/ BehindBlind(d)

CoverInv == TreeShape /\ OutsideBlind /\ Reached

Inv == BaseInv /\ CoverInv

\* Events reach the callback once each and in the order the kernel queued them,
\* across reads, batches and queue overflows, and none waits for ever while the
\* process lives: the monitor implements ChangeFeed (linux_monitor.cpp:44-106).
Feed == INSTANCE ChangeFeed WITH pending <- batch \o queue, alive <- pc \notin Ended
FeedFair == Feed!FairFeedSpec

\* test/common_test.cpp:66-67 takes the six types before `unknown' for all there
\* are and throws on any other; the reader delivers `unknown'.
KnownChangeTypes ==
  pc = "callback" => ChangeType(Head(batch).kind) # "unknown"
=============================================================================
