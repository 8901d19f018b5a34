------------------------------- MODULE Inotify -------------------------------
(***************************************************************************)
(* The world the Linux monitor runs in: a directory tree that other        *)
(* processes change at any moment, and one inotify instance of the kernel. *)
(* None of this is code of the repository; it is modelled from the way     *)
(* linux_monitor.cpp uses it (the mask it passes, the fields of            *)
(* inotify_event it reads, the error returns it tests).                    *)
(*                                                                         *)
(* A directory is a number that is never used again; its watch descriptor  *)
(* is the same number, because the kernel keeps one watch per inode and    *)
(* does not reuse descriptors.  Directory Outer is never watched and holds *)
(* the watched directory Root, so that a directory moved out of the        *)
(* watched tree, or into it, is an ordinary rename.  Files are not kept:   *)
(* only the events they cause are.                                         *)
(***************************************************************************)
EXTENDS Integers, Sequences, SequencesExt, FiniteSets

CONSTANTS
  Names,      \* the names a directory entry may have
  WatchName,  \* the name of the watched directory, ".cache" in the test
  MaxDirs,    \* bound: directories that may ever be created
  MaxDepth,   \* bound: length of a path
  MaxOps,     \* bound: operations of other processes on the tree
  FileKinds,  \* what may happen to files, a subset of NamedKinds
  QueueCap    \* fs.inotify.max_queued_events

ASSUME NamesAssumption == WatchName \in Names
ASSUME BoundsAssumption ==
  /\ MaxDirs \in Nat /\ MaxDepth \in Nat /\ MaxOps \in Nat
  /\ QueueCap \in Nat \ {0}

VARIABLES
  tree,     \* the path of each directory that exists
  born,     \* directories created so far
  ops,      \* operations done so far
  watched,  \* the directories the inotify instance watches
  queue     \* the events the instance has queued

kernelVars == <<tree, born, ops, watched, queue>>

Outer == 0
Root == 1

\* Paths are relative to the working directory, which is Outer.
Path == Seq(Names)
WatchPath == <<WatchName>>

DirAt(p) == {d \in DOMAIN tree : tree[d] = p}
IsDir(p) == DirAt(p) # {}

\* The function f with value v at k.
Put(f, k, v) == [x \in DOMAIN f \cup {k} |-> IF x = k THEN v ELSE f[x]]

\* Directory d and everything below it.
Subtree(d) == {x \in DOMAIN tree : IsPrefix(tree[d], tree[x])}
Parent(d) == CHOOSE x \in DOMAIN tree : tree[x] = Front(tree[d])

-----------------------------------------------------------------------------
(* Events.  A name is a sequence of at most one element: IN_IGNORED and     *)
(* IN_Q_OVERFLOW carry none (len = 0).                                      *)

NamedKinds == {"create", "delete", "modify", "moved_from", "moved_to"}
OverflowWd == -1

ASSUME FileKindsAssumption == FileKinds \subseteq NamedKinds

Event == [wd : Nat, kind : NamedKinds, name : {<<n>> : n \in Names}]
           \cup [wd : Nat, kind : {"ignored"}, name : {<<>>}]
           \cup [wd : {OverflowWd}, kind : {"overflow"}, name : {<<>>}]

Ignored(d) == [wd |-> d, kind |-> "ignored", name |-> <<>>]
Overflow == [wd |-> OverflowWd, kind |-> "overflow", name |-> <<>>]

\* A full queue drops the event and says so once; an event equal to the last
\* one queued is merged with it.
Push(q, e) ==
  IF Len(q) >= QueueCap THEN IF Contains(q, Overflow) THEN q ELSE Append(q, Overflow)
  ELSE IF q # <<>> /\ Last(q) = e THEN q ELSE Append(q, e)

\* Entry n of directory d changed: an event when d is watched.
Notify(q, d, kind, n) ==
  IF d \in watched THEN Push(q, [wd |-> d, kind |-> kind, name |-> <<n>>]) ELSE q

-----------------------------------------------------------------------------
(* Operations of other processes on the tree.                               *)

KernelInit ==
  /\ tree = [d \in {Outer, Root} |-> IF d = Root THEN WatchPath ELSE <<>>]
  /\ born = 2
  /\ ops = 0
  /\ watched = {}
  /\ queue = <<>>

CountOp == ops < MaxOps /\ ops' = ops + 1

Mkdir(d, n) ==
  LET p == Append(tree[d], n) IN
  /\ CountOp
  /\ ~IsDir(p) /\ Len(p) <= MaxDepth
  /\ born < MaxDirs
  /\ tree' = Put(tree, born, p)
  /\ born' = born + 1
  /\ queue' = Notify(queue, d, "create", n)
  /\ UNCHANGED watched

\* The kernel drops the watch of a directory that is removed and queues
\* IN_IGNORED for it, after the event of its parent.
Rmdir(c) ==
  LET q == Notify(queue, Parent(c), "delete", Last(tree[c])) IN
  /\ CountOp
  /\ c # Outer /\ Subtree(c) = {c}
  /\ tree' = [d \in DOMAIN tree \ {c} |-> tree[d]]
  /\ watched' = watched \ {c}
  /\ queue' = IF c \in watched THEN Push(q, Ignored(c)) ELSE q
  /\ UNCHANGED born

\* Directory c becomes entry n of directory d; watches follow the inode.
Rename(c, d, n) ==
  LET p == Append(tree[d], n)
      Moved(x) == p \o SubSeq(tree[x], Len(tree[c]) + 1, Len(tree[x]))
  IN
  /\ CountOp
  /\ c # Outer /\ d \notin Subtree(c) /\ ~IsDir(p)
  /\ \A x \in Subtree(c) : Len(Moved(x)) <= MaxDepth
  /\ tree' = [x \in DOMAIN tree |-> IF x \in Subtree(c) THEN Moved(x) ELSE tree[x]]
  /\ queue' = Notify(Notify(queue, Parent(c), "moved_from", Last(tree[c])),
                     d, "moved_to", n)
  /\ UNCHANGED <<born, watched>>

\* A file of a watched directory is created, written, removed or renamed.
FileEvent(d, n, kind) ==
  /\ CountOp
  /\ kind \in FileKinds
  /\ d \in watched /\ ~IsDir(Append(tree[d], n))
  /\ queue' = Notify(queue, d, kind, n)
  /\ UNCHANGED <<tree, born, watched>>

-----------------------------------------------------------------------------
(* System calls of the monitor.                                             *)

\* inotify_add_watch(fd, p, ...) for a path that resolves to directory d.
AddWatch(d) == watched' = watched \cup {d}

KernelTypeOK ==
  /\ DOMAIN tree \subseteq 0 .. born - 1
  /\ tree \in [DOMAIN tree -> Path]
  /\ born \in Nat
  /\ ops \in Nat
  /\ watched \subseteq 0 .. born - 1
  /\ queue \in Seq(Event)
=============================================================================
