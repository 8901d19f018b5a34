------------------------------ MODULE FindFiles ------------------------------
(***************************************************************************)
(* common::find_files, which lists a directory, and the directories below  *)
(* it when recursive, while other processes change the tree.  A level of   *)
(* the recursion holds an open directory stream; a path is opened by name, *)
(* some time after its parent's stream has returned it.                    *)
(*                                                                         *)
(* A path is the sequence of names below the directory listed, which stays *)
(* where it is.  What is not a directory, a symbolic link included, is a   *)
(* file to find_files; d_type is taken to be known.                        *)
(***************************************************************************)
EXTENDS Integers, FiniteSets, SequencesExt

CONSTANTS
  Root,        \* the directory listed
  Dirs, Files, \* what there may be below it
  Names,
  Nowhere,     \* the place of what does not exist
  Trees,       \* the trees to begin with
  MaxHandles,  \* directory streams the process may have open
  MaxOps,      \* bound: changes by other processes
  MaxCalls     \* bound: calls of find_files

ASSUME NodesAssumption ==
  /\ IsFiniteSet(Dirs) /\ Root \notin Dirs \cup Files
  /\ Dirs \cap Files = {}
  /\ Nowhere \notin [dir : Dirs \cup Files \cup {Root}, name : Names]
ASSUME TreesAssumption ==
  \A tree \in Trees :
    /\ tree \in [Dirs \cup Files -> [dir : Dirs \cup {Root}, name : Names] \cup {Nowhere}]
    /\ \A i, j \in Dirs \cup Files : tree[i] = tree[j] /\ tree[i] # Nowhere => i = j
ASSUME BoundsAssumption == MaxHandles \in Nat /\ MaxOps \in Nat /\ MaxCalls \in Nat

Nodes == Dirs \cup Files

VARIABLES
  at,        \* the directory and the name of each node
  ops        \* changes so far

VARIABLES
  pc,        \* idle, open, read, returned, threw
  recursive, \* the arguments
  filter,
  opening,   \* the path that opendir is called with
  stack,     \* the levels of the recursion, the innermost last
  files,     \* the vector of the caller
  handles,   \* directory streams open in the process
  calls      \* calls so far

\* History, of the current call.
VARIABLES
  base,      \* streams open when it began
  moved,     \* nodes created, removed or renamed since
  renamed,   \* a directory was renamed
  ever,      \* trees there have been
  broken,    \* readdir has failed
  refused    \* the system refused to open a directory: no permission, no memory

treeVars == <<at, ops>>
callVars == <<pc, recursive, filter, opening, stack, files, handles, calls>>
history == <<base, moved, renamed, ever, broken, refused>>
vars == <<treeVars, callVars, history>>

-----------------------------------------------------------------------------
(* The tree.                                                                *)

Place(d, n) == [dir |-> d, name |-> n]
Places == [dir : Dirs \cup {Root}, name : Names] \cup {Nowhere}

\* A path leads to a node, by a way that begins at the root, in the tree `where'.
Leads(where, path, i) ==
  \E way \in [0 .. Len(path) -> Nodes \cup {Root}] :
    /\ way[0] = Root /\ way[Len(path)] = i
    /\ \A k \in 1 .. Len(path) : way[k] \in Nodes /\ where[way[k]] = Place(way[k - 1], path[k])

\* The nodes from a node that exists up to the root.
Above(where) ==
  LET up[i \in Nodes \cup {Root}] ==
        IF i = Root THEN {Root} ELSE {i} \cup up[where[i].dir]
  IN  up
Present(where) == {i \in Nodes : where[i] # Nowhere}

Entry(i, place) == [name |-> place.name, node |-> i]
EntriesOf(d) == {Entry(i, at[i]) : i \in {j \in Present(at) : at[j].dir = d}}

-----------------------------------------------------------------------------
(* Other processes.  A stream may or may not return an entry that was made  *)
(* or removed after it was opened.                                          *)

Streams(i, old, new) ==
  stack' = [k \in DOMAIN stack |->
    [stack[k] EXCEPT
       !.owed = IF old # Nowhere THEN @ \ {Entry(i, old)} ELSE @,
       !.may = IF new # Nowhere /\ new.dir = stack[k].dir THEN @ \cup {Entry(i, new)} ELSE @]]

Change(i, new) ==
  /\ ops < MaxOps
  /\ ops' = ops + 1
  /\ at' = [at EXCEPT ![i] = new]
  /\ Streams(i, at[i], new)
  /\ moved' = moved \cup {i}
  /\ ever' = ever \cup {at'}
  /\ UNCHANGED <<pc, recursive, filter, opening, files, handles, calls, base, broken, refused>>

Free(place) == place.dir \in Present(at) \cup {Root} /\ \A j \in Nodes : at[j] # place

\* What is made is not a directory that a stream still has open.
Make(i, place) ==
  /\ at[i] = Nowhere /\ Free(place)
  /\ \A k \in DOMAIN stack : stack[k].dir # i
  /\ Change(i, place)
  /\ UNCHANGED renamed

Unlink(i) ==
  /\ at[i] # Nowhere
  /\ \A j \in Present(at) : at[j].dir # i
  /\ Change(i, Nowhere)
  /\ UNCHANGED renamed

Rename(i, place) ==
  /\ at[i] # Nowhere /\ Free(place)
  /\ i \notin Above(at)[place.dir]
  /\ Change(i, place)
  /\ renamed' = (renamed \/ i \in Dirs)

-----------------------------------------------------------------------------
(* find_files.                                                              *)

Init ==
  /\ at \in Trees
  /\ ops = 0
  /\ pc = "idle" /\ recursive = FALSE /\ filter = 0
  /\ opening = <<>> /\ stack = <<>> /\ files = <<>> /\ handles = 0 /\ calls = 0
  /\ base = 0 /\ moved = {} /\ renamed = FALSE /\ ever = {}
  /\ broken = FALSE /\ refused = FALSE

\* With an empty vector.
Call(r, f) ==
  /\ pc \in {"idle", "returned", "threw"} /\ calls < MaxCalls
  /\ calls' = calls + 1
  /\ recursive' = r /\ filter' = f
  /\ pc' = "open" /\ opening' = <<>> /\ stack' = <<>> /\ files' = <<>>
  /\ base' = handles /\ moved' = {} /\ renamed' = FALSE /\ ever' = {at}
  /\ broken' = FALSE /\ refused' = FALSE
  /\ UNCHANGED <<treeVars, handles>>

Level(path, d) ==
  [path |-> path, dir |-> d, owed |-> EntriesOf(d), may |-> EntriesOf(d)]

Opendir ==
  /\ pc = "open"
  /\ handles < MaxHandles
  /\ \E d \in Dirs \cup {Root} :
       Leads(at, opening, d) /\ stack' = Append(stack, Level(opening, d))
  /\ handles' = handles + 1
  /\ pc' = "read"
  /\ UNCHANGED <<treeVars, recursive, filter, opening, files, calls, history>>

\* The exception passes the levels above, which close nothing.
Unwind == UNCHANGED handles

OpendirFails ==
  /\ pc = "open"
  /\ \/ handles = MaxHandles /\ UNCHANGED refused
     \/ (\A d \in Dirs \cup {Root} : ~Leads(at, opening, d)) /\ UNCHANGED refused
     \/ refused' = TRUE
  /\ pc' = "threw"
  /\ stack' = <<>>
  /\ Unwind
  /\ UNCHANGED <<treeVars, recursive, filter, opening, files, calls>>
  /\ UNCHANGED <<base, moved, renamed, ever, broken>>

Top == Last(stack)

\* Mistake: paths are made from the directory listed.
FullPath_OfRoot(e) == <<e.name>>
FullPath(e) == Append(Top.path, e.name)

\* Mistake: the stream is not advanced.
Take_Stays(e) == UNCHANGED stack

Take(e) ==
  stack' = [stack EXCEPT ![Len(stack)].owed = @ \ {e}, ![Len(stack)].may = @ \ {e}]

List(e) == files' = Append(files, FullPath(e))

\* Mistake: what is not listed is not entered.
Descends_OnlyListed == recursive /\ filter # 1
Descends == recursive

ReadDirectory(e) ==
  /\ pc = "read" /\ e \in Top.may /\ e.node \in Dirs
  /\ Take(e)
  /\ IF filter # 1 THEN List(e) ELSE UNCHANGED files
  /\ IF Descends THEN pc' = "open" /\ opening' = FullPath(e)
     ELSE UNCHANGED <<pc, opening>>
  /\ UNCHANGED <<treeVars, recursive, filter, handles, calls, history>>

ReadFile(e) ==
  /\ pc = "read" /\ e \in Top.may /\ e.node \in Files
  /\ Take(e)
  /\ IF filter # 2 THEN List(e) ELSE UNCHANGED files
  /\ UNCHANGED <<treeVars, pc, recursive, filter, opening, handles, calls, history>>

\* Mistake: the stream is closed with the last level only.
Closedir_Last ==
  /\ handles' = IF Len(stack) = 1 THEN handles - 1 ELSE handles
  /\ stack' = Front(stack)
  /\ pc' = IF Len(stack) = 1 THEN "returned" ELSE "read"
  /\ UNCHANGED <<treeVars, recursive, filter, opening, files, calls>>

Closedir ==
  /\ handles' = handles - 1
  /\ stack' = Front(stack)
  /\ pc' = IF Len(stack) = 1 THEN "returned" ELSE "read"
  /\ UNCHANGED <<treeVars, recursive, filter, opening, files, calls>>

EndOfDirectory ==
  /\ pc = "read" /\ Top.owed = {}
  /\ Closedir
  /\ UNCHANGED history

\* readdir returns NULL for an error too, and the loop ends the same way.
ReaddirFails ==
  /\ pc = "read"
  /\ Closedir
  /\ broken' = TRUE
  /\ UNCHANGED <<base, moved, renamed, ever, refused>>

-----------------------------------------------------------------------------

Others ==
  \E i \in Nodes :
    \/ \E d \in Dirs \cup {Root}, n \in Names : Make(i, Place(d, n)) \/ Rename(i, Place(d, n))
    \/ Unlink(i)

Readdir == pc = "read" /\ \E e \in Top.may : ReadDirectory(e) \/ ReadFile(e)

FindFiles == Opendir \/ OpendirFails \/ Readdir \/ EndOfDirectory \/ ReaddirFails

Next == Others \/ FindFiles \/ \E r \in BOOLEAN, f \in 0 .. 2 : Call(r, f)

Spec == Init /\ [][Next]_vars

\* The thread in find_files runs.
FairSpec == Spec /\ WF_vars(FindFiles)

-----------------------------------------------------------------------------
(* Properties.                                                              *)

Paths == Seq(Names)
Entries == [name : Names, node : Nodes]
Levels ==
  [path : Paths, dir : Dirs \cup {Root}, owed : SUBSET Entries, may : SUBSET Entries]

TypeOK ==
  /\ at \in [Nodes -> Places] /\ ops \in Nat
  /\ pc \in {"idle", "open", "read", "returned", "threw"}
  /\ recursive \in BOOLEAN /\ filter \in 0 .. 2
  /\ opening \in Paths /\ stack \in Seq(Levels) /\ files \in Seq(Paths)
  /\ handles \in Nat /\ calls \in Nat
  /\ base \in Nat /\ moved \subseteq Nodes /\ renamed \in BOOLEAN
  /\ broken \in BOOLEAN /\ refused \in BOOLEAN

\* Every level has a stream of its own, at the depth of its path.
LevelsOK ==
  /\ \A k \in DOMAIN stack : Len(stack[k].path) = k - 1
  /\ pc = "open" => Len(opening) = Len(stack)
  /\ pc = "read" <=> pc # "open" /\ stack # <<>>

\* A call that returns has closed every stream it opened; one that throws leaves
\* open exactly those of the directories above the one it could not open, which
\* nothing will ever close (common.cpp:156, 167 and 171).
HandleBalance ==
  /\ pc \in {"open", "read"} => handles = base + Len(stack)
  /\ pc = "returned" => handles = base
  /\ pc = "threw" => handles = base + Len(opening)

\* What stayed in place during the call, and the directories above it too: there is a
\* way to it, of n steps, that nobody has touched.
StillWays(n) ==
  {way \in [0 .. n -> Nodes \cup {Root}] :
    /\ way[0] = Root
    /\ \A k \in 1 .. n : way[k] \in Present(at) \ moved /\ at[way[k]].dir = way[k - 1]}
Depths == 1 .. Cardinality(Dirs) + 1
Still == UNION {{way[n] : way \in StillWays(n)} : n \in Depths}
Wanted(i) ==
  /\ IF i \in Dirs THEN filter # 1 ELSE filter # 2
  /\ recursive \/ at[i].dir = Root
Times(i) == Cardinality({k \in DOMAIN files : Leads(at, files[k], i)})

\* A call that returns has listed exactly once whatever stayed in place during it
\* and is of the kind asked for, at any depth, however the rest of the tree
\* changed meanwhile, if no read of a directory failed (common.cpp:141-165).
Complete ==
  pc = "returned" /\ ~broken =>
    \A i \in Still : Times(i) = IF Wanted(i) THEN 1 ELSE 0

\* Each path in the vector was, at some moment of the call, the path of something
\* of the kind asked for, unless a directory was renamed: the paths of a level are
\* made from the path it was opened by (common.cpp:148).
Real ==
  ~renamed =>
    \A k \in DOMAIN files :
      \E where \in ever, i \in Nodes :
        /\ Leads(where, files[k], i)
        /\ IF i \in Dirs THEN filter # 1 ELSE filter # 2

\* Unless the system refuses it a directory that is there, a call throws only when
\* the process has no stream left or when a directory was moved or removed between the
\* read of its name and its opening (common.cpp:139 and 169).
ThrowsForCause ==
  pc = "threw" => refused \/ handles = MaxHandles \/ moved \cap Dirs # {}

\* What Real rests on.  A level's directory, unless it was removed, is where its path
\* leads, and so is, or was, every entry its stream may return.
LevelReal(l) ==
  /\ l.dir \in Present(at) \cup {Root} => Leads(at, l.path, l.dir)
  /\ \A e \in l.may : \E where \in ever : Leads(where, Append(l.path, e.name), e.node)
LevelsReal ==
  /\ pc # "idle" => at \in ever
  /\ ~renamed => \A k \in DOMAIN stack : LevelReal(stack[k])

\* What ThrowsForCause rests on.  While no directory is moved the levels and the
\* directories their streams may return are in their places, and there is what is
\* about to be opened.
LevelStands(l) ==
  /\ Leads(at, l.path, l.dir)
  /\ \A e \in l.may : e.node \in Dirs => at[e.node] = Place(l.dir, e.name)
LevelsStand ==
  moved \cap Dirs = {} =>
    /\ \A k \in DOMAIN stack : LevelStands(stack[k])
    /\ pc = "open" => \E d \in Dirs \cup {Root} : Leads(at, opening, d)

\* What Complete rests on.  No two nodes are in one place; a stream returns no other
\* entry of a name whose node stayed in place; the path of a level is the beginning of
\* those of the levels below it.
OnlyOne == \A i, j \in Nodes : at[i] = at[j] /\ at[i] # Nowhere => i = j
StreamsOK ==
  \A k \in DOMAIN stack :
    /\ stack[k].owed \subseteq stack[k].may
    /\ \A e \in stack[k].may, j \in Nodes \ moved : at[j] = Place(stack[k].dir, e.name) => e.node = j
Begins(p, q) == \A j \in 1 .. Len(p) : p[j] = q[j]
Nested ==
  /\ \A k \in DOMAIN stack : \A m \in k .. Len(stack) : Begins(stack[k].path, stack[m].path)
  /\ pc = "open" => \A k \in DOMAIN stack : Begins(stack[k].path, opening)
  /\ ~recursive => Len(stack) <= 1 /\ (pc = "open" => stack = <<>>)

\* A path is the beginning of the one along a way.
OnWay(where, path, way) == \A k \in 1 .. Len(path) : path[k] = where[way[k]].name
Listed(way, n) == {k \in DOMAIN files : Len(files[k]) = n /\ OnWay(at, files[k], way)}
Done(way, n) ==
  IF Wanted(way[n]) THEN \E k \in DOMAIN files : Listed(way, n) = {k} ELSE Listed(way, n) = {}
Entering(k, way) ==
  \/ k < Len(stack) /\ OnWay(at, stack[k + 1].path, way)
  \/ pc = "open" /\ k = Len(stack) /\ OnWay(at, opening, way)

\* A level on the way is that of the directory there.  Its stream has still to return
\* what comes next on the way, and the end of the way is not listed; or has returned it,
\* and then the end is done with unless the call is below.
ProgressAt(k, way, n) ==
  LET e == Entry(way[k], at[way[k]])
  IN  /\ stack[k].dir = way[k - 1]
      /\ \/ e \in stack[k].owed /\ Listed(way, n) = {} /\ ~Entering(k, way)
         \/ e \notin stack[k].may /\ (k = n \/ ~Entering(k, way) => Done(way, n))
Progress(way, n) ==
  /\ \A k \in 1 .. n : k <= Len(stack) /\ OnWay(at, stack[k].path, way) => ProgressAt(k, way, n)
  /\ pc = "open" /\ Len(opening) < n /\ OnWay(at, opening, way) => Listed(way, n) = {}
  /\ pc = "returned" => Done(way, n)
AllProgress == ~broken => \A n \in Depths : \A way \in StillWays(n) : Progress(way, n)

StreamInv == TypeOK /\ LevelsOK /\ HandleBalance
PathInv == LevelsReal /\ LevelsStand /\ Real /\ ThrowsForCause
ListInv == OnlyOne /\ StreamsOK /\ Nested /\ AllProgress
Inv == StreamInv /\ PathInv /\ ListInv

\* find_files ends once the others have stopped changing the tree: at most MaxOps
\* changes are made (common.cpp:141).
Ends == (pc = "open") ~> (pc \in {"returned", "threw"})
=============================================================================
