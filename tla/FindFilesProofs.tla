---------------------------- MODULE FindFilesProofs ----------------------------
(***************************************************************************)
(* Proofs about FindFiles for any tree and any number of changes, calls    *)
(* and streams: the streams that a call leaves open, what the paths it     *)
(* makes lead to, and that it lists once what nobody touches.              *)
(***************************************************************************)
EXTENDS FindFiles, SequenceTheorems, FiniteSetTheorems, WellFoundedInduction, TLAPS

-----------------------------------------------------------------------------
(* Entries.                                                                 *)

\* A place that is somewhere has a name, and the entry it makes is one.
LEMMA EntryTyped ==
  ASSUME NEW i \in Nodes, NEW p \in Places, p # Nowhere
  PROVE  Entry(i, p) \in Entries
  BY DEF Places, Entry, Entries

\* The entries of a directory.
LEMMA EntriesTyped ==
  ASSUME at \in [Nodes -> Places], NEW d
  PROVE  EntriesOf(d) \subseteq Entries
<1>1. \A i \in Present(at) : i \in Nodes /\ at[i] \in Places /\ at[i] # Nowhere
  BY DEF Present
<1>2. QED
  BY <1>1, EntryTyped DEF EntriesOf

\* Each level is one.
LEMMA LevelTyped ==
  ASSUME stack \in Seq(Levels), NEW k \in DOMAIN stack
  PROVE  stack[k] \in Levels
<1>1. DOMAIN stack = 1 .. Len(stack)
  BY LenProperties
<1>2. QED
  BY <1>1, ElementOfSeq

\* The level the call is at.
LEMMA TopTyped ==
  ASSUME StreamInv, pc = "read"
  PROVE  /\ Len(stack) \in Nat /\ Len(stack) >= 1 /\ DOMAIN stack = 1 .. Len(stack)
         /\ \A k \in 1 .. Len(stack) : stack[k] \in Levels
         /\ Top = stack[Len(stack)] /\ Top \in Levels /\ Len(Top.path) = Len(stack) - 1
         /\ \A e \in Top.may : e.name \in Names /\ FullPath(e) \in Paths /\ Len(FullPath(e)) = Len(stack)
<1>1. stack \in Seq(Levels) /\ stack # <<>>
  BY DEF StreamInv, TypeOK, LevelsOK
<1>2. /\ Len(stack) \in Nat /\ Len(stack) >= 1 /\ DOMAIN stack = 1 .. Len(stack)
      /\ \A k \in 1 .. Len(stack) : stack[k] \in Levels
  BY <1>1, EmptySeq, LenProperties, ElementOfSeq
<1>3. Top = stack[Len(stack)]
  BY DEF Top, Last
<1>4. Top \in Levels /\ Len(Top.path) = Len(stack) - 1
  <2>1. Len(stack) \in DOMAIN stack
    BY <1>2
  <2>2. Len(stack[Len(stack)].path) = Len(stack) - 1
    BY <2>1 DEF StreamInv, LevelsOK
  <2>3. QED
    BY <1>2, <1>3, <2>1, <2>2
<1>5. ASSUME NEW e \in Top.may
      PROVE  e.name \in Names /\ FullPath(e) \in Paths /\ Len(FullPath(e)) = Len(stack)
  <2>1. e.name \in Names /\ Top.path \in Seq(Names)
    BY <1>4 DEF Levels, Entries, Paths
  <2>2. Append(Top.path, e.name) \in Seq(Names) /\ Len(Append(Top.path, e.name)) = Len(Top.path) + 1
    BY <2>1, AppendProperties
  <2>3. FullPath(e) = Append(Top.path, e.name)
    BY DEF FullPath
  <2>4. Len(Top.path) + 1 = Len(stack)
    <3>1. Len(stack) \in Nat /\ Len(Top.path) = Len(stack) - 1
      BY <1>2, <1>4
    <3>2. \A x, y : x \in Nat /\ y = x - 1 => y + 1 = x
      OBVIOUS
    <3>3. QED
      BY <3>1, <3>2
  <2>5. QED
    BY <2>1, <2>2, <2>3, <2>4 DEF Paths
<1>6. QED
  BY <1>2, <1>3, <1>4, <1>5

\* The levels have other entries, or what is left of them, and nothing else changes.
LEMMA LevelsChange ==
  ASSUME NEW s \in Seq(Levels), NEW t, DOMAIN t = DOMAIN s, NEW S,
         t = [k \in DOMAIN s |-> t[k]],
         \A k \in DOMAIN s : t[k] \in Levels /\ t[k].path = s[k].path
  PROVE  /\ t \in Seq(Levels) /\ Len(t) = Len(s) /\ (t = <<>> <=> s = <<>>)
         /\ \A k \in DOMAIN t : Len(t[k].path) = Len(s[k].path)
<1>1. Len(s) \in Nat /\ DOMAIN s = 1 .. Len(s)
  BY LenProperties
<1>2. t \in [1 .. Len(s) -> Levels]
  BY <1>1
<1>3. t \in Seq(Levels)
  BY <1>1, <1>2, SeqDef
<1>4. Len(t) \in Nat /\ 1 .. Len(t) = 1 .. Len(s)
  BY <1>1, <1>3, LenProperties
<1>5. Len(t) = Len(s)
  BY <1>1, <1>4
<1>6. QED
  BY <1>1, <1>3, <1>5, EmptySeq

\* Others change the tree, and what the open streams may still return.
LEMMA OthersInv == ASSUME StreamInv, Others PROVE StreamInv'
<1>1. PICK i \in Nodes, p \in Places : Change(i, p) /\ renamed' \in BOOLEAN
  <2>1. PICK i \in Nodes :
          \/ \E d \in Dirs \cup {Root}, n \in Names : Make(i, Place(d, n)) \/ Rename(i, Place(d, n))
          \/ Unlink(i)
    BY DEF Others
  <2>2. Nowhere \in Places /\ \A d \in Dirs \cup {Root}, n \in Names : Place(d, n) \in Places
    BY DEF Places, Place
  <2>3. renamed \in BOOLEAN
    BY DEF StreamInv, TypeOK
  <2>4. CASE \E d \in Dirs \cup {Root}, n \in Names : Make(i, Place(d, n)) \/ Rename(i, Place(d, n))
    BY <2>2, <2>3, <2>4 DEF Make, Rename
  <2>5. CASE Unlink(i)
    BY <2>2, <2>3, <2>5 DEF Unlink
  <2>6. QED
    BY <2>1, <2>4, <2>5
<1>2. /\ ops' = ops + 1 /\ at' = [at EXCEPT ![i] = p] /\ Streams(i, at[i], p)
      /\ moved' = moved \cup {i}
      /\ UNCHANGED <<pc, recursive, filter, opening, files, handles, calls, base, broken, refused>>
  BY <1>1 DEF Change
<1>3. stack \in Seq(Levels) /\ Len(stack) \in Nat /\ DOMAIN stack = 1 .. Len(stack)
  BY LenProperties DEF StreamInv, TypeOK
<1>4. /\ DOMAIN stack' = DOMAIN stack /\ stack' = [k \in DOMAIN stack |-> stack'[k]]
      /\ \A k \in DOMAIN stack :
           stack'[k] = [stack[k] EXCEPT
             !.owed = IF at[i] # Nowhere THEN @ \ {Entry(i, at[i])} ELSE @,
             !.may = IF p # Nowhere /\ p.dir = stack[k].dir THEN @ \cup {Entry(i, p)} ELSE @]
  BY <1>2 DEF Streams
<1>5. \A k \in DOMAIN stack : stack'[k] \in Levels /\ stack'[k].path = stack[k].path
  <2>1. p # Nowhere => Entry(i, p) \in Entries
    BY EntryTyped
  <2> SUFFICES ASSUME NEW k \in DOMAIN stack
               PROVE  stack'[k] \in Levels /\ stack'[k].path = stack[k].path
    OBVIOUS
  <2>2. stack[k] \in Levels
    BY <1>3, ElementOfSeq
  <2> DEFINE o == IF at[i] # Nowhere THEN stack[k].owed \ {Entry(i, at[i])} ELSE stack[k].owed
             m == IF p # Nowhere /\ p.dir = stack[k].dir THEN stack[k].may \cup {Entry(i, p)}
                  ELSE stack[k].may
  <2>3. o \in SUBSET Entries /\ m \in SUBSET Entries
    BY <2>1, <2>2 DEF Levels
  <2>4. stack'[k] = [stack[k] EXCEPT !.owed = o, !.may = m]
    BY <1>4
  <2> HIDE DEF o, m
  <2>5. QED
    BY <2>2, <2>3, <2>4 DEF Levels
<1>6. /\ stack' \in Seq(Levels) /\ Len(stack') = Len(stack) /\ (stack' = <<>> <=> stack = <<>>)
      /\ \A k \in DOMAIN stack' : Len(stack'[k].path) = Len(stack[k].path)
  BY <1>3, <1>4, <1>5, LevelsChange
<1>7. TypeOK'
  BY <1>1, <1>2, <1>6 DEF StreamInv, TypeOK
<1>8. LevelsOK'
  BY <1>2, <1>4, <1>6 DEF StreamInv, LevelsOK
<1>9. HandleBalance'
  BY <1>2, <1>6 DEF StreamInv, HandleBalance
<1>10. QED
  BY <1>7, <1>8, <1>9 DEF StreamInv

\* A call begins with no level (common.cpp:129-138).
LEMMA CallInv == ASSUME StreamInv, NEW r \in BOOLEAN, NEW f \in 0 .. 2, Call(r, f) PROVE StreamInv'
<1>1. /\ calls' = calls + 1 /\ recursive' = r /\ filter' = f
      /\ pc' = "open" /\ opening' = <<>> /\ stack' = <<>> /\ files' = <<>>
      /\ base' = handles /\ moved' = {} /\ renamed' = FALSE /\ broken' = FALSE
      /\ refused' = FALSE
      /\ UNCHANGED <<at, ops, handles>>
  BY DEF Call, treeVars
<1>2. /\ opening' \in Paths /\ stack' \in Seq(Levels) /\ files' \in Seq(Paths)
      /\ Len(stack') = 0 /\ Len(opening') = 0 /\ DOMAIN stack' = {}
  BY <1>1, EmptySeq DEF Paths
<1>3. TypeOK'
  <2>1. /\ at' \in [Nodes -> Places] /\ ops' \in Nat /\ handles' \in Nat /\ calls' \in Nat /\ base' \in Nat
        /\ moved' \subseteq Nodes
    BY <1>1 DEF StreamInv, TypeOK
  <2>2. /\ recursive' \in BOOLEAN /\ renamed' \in BOOLEAN /\ broken' \in BOOLEAN
        /\ refused' \in BOOLEAN
    BY <1>1
  <2>3. filter' \in 0 .. 2 /\ pc' = "open"
    BY <1>1
  <2>4. QED
    BY <1>2, <2>1, <2>2, <2>3 DEF TypeOK
<1>4. LevelsOK' /\ HandleBalance'
  BY <1>1, <1>2 DEF StreamInv, TypeOK, LevelsOK, HandleBalance
<1>5. QED
  BY <1>3, <1>4 DEF StreamInv

\* opendir gives a level a stream of its own (common.cpp:139-140).
LEMMA OpendirInv == ASSUME StreamInv, Opendir PROVE StreamInv'
<1>1. /\ pc = "open" /\ pc' = "read" /\ handles' = handles + 1
      /\ UNCHANGED <<at, ops, recursive, filter, opening, files, calls, base, moved, renamed, broken, refused>>
  BY DEF Opendir, treeVars, history
<1>2. PICK d \in Dirs \cup {Root} : stack' = Append(stack, Level(opening, d))
  BY DEF Opendir
<1>3. opening \in Paths /\ at \in [Nodes -> Places] /\ stack \in Seq(Levels)
  BY DEF StreamInv, TypeOK
<1>4. Level(opening, d) \in Levels /\ Level(opening, d).path = opening
  BY <1>3, EntriesTyped DEF Level, Levels
<1>5. /\ Len(stack) \in Nat /\ DOMAIN stack = 1 .. Len(stack)
      /\ stack' \in Seq(Levels) /\ Len(stack') = Len(stack) + 1 /\ DOMAIN stack' = 1 .. Len(stack) + 1
      /\ \A k \in 1 .. Len(stack) : stack'[k] = stack[k]
      /\ stack'[Len(stack) + 1] = Level(opening, d)
  BY <1>2, <1>3, <1>4, AppendProperties, LenProperties
<1>6. stack' # <<>>
  BY <1>5, EmptySeq
<1>7. TypeOK'
  BY <1>1, <1>5 DEF StreamInv, TypeOK
<1>8. LevelsOK'
  <2>1. Len(opening) = Len(stack) /\ \A k \in 1 .. Len(stack) : Len(stack[k].path) = k - 1
    BY <1>1, <1>5 DEF StreamInv, LevelsOK
  <2>2. \A k \in DOMAIN stack' : Len(stack'[k].path) = k - 1
    <3>1. Len(stack'[Len(stack) + 1].path) = Len(stack) + 1 - 1
      BY <1>4, <1>5, <2>1
    <3>2. \A k \in 1 .. Len(stack) + 1 : k \in 1 .. Len(stack) \/ k = Len(stack) + 1
      BY <1>5
    <3>3. QED
      BY <1>5, <2>1, <3>1, <3>2
  <2>3. QED
    BY <1>1, <1>6, <2>2 DEF LevelsOK
<1>9. HandleBalance'
  BY <1>1, <1>5 DEF StreamInv, TypeOK, HandleBalance
<1>10. QED
  BY <1>7, <1>8, <1>9 DEF StreamInv

\* When it fails the levels above are left with their streams open (common.cpp:167-171).
LEMMA OpendirFailsInv == ASSUME StreamInv, OpendirFails PROVE StreamInv'
<1>1. /\ pc = "open" /\ pc' = "threw" /\ stack' = <<>>
      /\ UNCHANGED <<at, ops, recursive, filter, opening, files, handles, calls>>
      /\ UNCHANGED <<base, moved, renamed, broken>> /\ refused' \in {refused, TRUE}
  BY DEF OpendirFails, Unwind, treeVars
<1>2. <<>> \in Seq(Levels) /\ DOMAIN stack' = {}
  BY <1>1, EmptySeq
<1>3. TypeOK'
  BY <1>1, <1>2 DEF StreamInv, TypeOK
<1>4. LevelsOK' /\ HandleBalance'
  BY <1>1, <1>2 DEF StreamInv, LevelsOK, HandleBalance
<1>5. QED
  BY <1>3, <1>4 DEF StreamInv

\* An entry is taken from the innermost stream, and the path made of it is a level
\* deeper (common.cpp:141-165).
LEMMA ReaddirInv == ASSUME StreamInv, Readdir PROVE StreamInv'
<1>1. PICK e \in Top.may :
        /\ pc = "read" /\ Take(e) /\ (List(e) \/ UNCHANGED files)
        /\ \/ pc' = "open" /\ opening' = FullPath(e)
           \/ UNCHANGED <<pc, opening>>
        /\ UNCHANGED <<at, ops, recursive, filter, handles, calls, base, moved, renamed, broken, refused>>
  BY DEF Readdir, ReadDirectory, ReadFile, treeVars, history
<1>2. /\ Len(stack) \in Nat /\ Len(stack) >= 1 /\ DOMAIN stack = 1 .. Len(stack)
      /\ \A k \in 1 .. Len(stack) : stack[k] \in Levels
      /\ FullPath(e) \in Paths /\ Len(FullPath(e)) = Len(stack)
  BY <1>1, TopTyped
<1>3. stack \in Seq(Levels) /\ files \in Seq(Paths) /\ opening \in Paths
  BY DEF StreamInv, TypeOK
<1>4. DOMAIN stack' = DOMAIN stack /\ stack' = [k \in DOMAIN stack |-> stack'[k]]
  BY <1>1 DEF Take
<1>5. \A k \in DOMAIN stack : stack'[k] \in Levels /\ stack'[k].path = stack[k].path
  <2> SUFFICES ASSUME NEW k \in DOMAIN stack
               PROVE  stack'[k] \in Levels /\ stack'[k].path = stack[k].path
    OBVIOUS
  <2>1. stack[k] \in Levels
    BY <1>2
  <2>2. CASE k # Len(stack)
    BY <1>1, <2>1, <2>2 DEF Take
  <2>3. CASE k = Len(stack)
    <3>1. stack'[k] = [stack[k] EXCEPT !.owed = @ \ {e}, !.may = @ \ {e}]
      BY <1>1, <2>3 DEF Take
    <3>2. QED
      BY <2>1, <3>1 DEF Levels
  <2>4. QED
    BY <2>2, <2>3
<1>6. /\ stack' \in Seq(Levels) /\ Len(stack') = Len(stack) /\ (stack' = <<>> <=> stack = <<>>)
      /\ \A k \in DOMAIN stack' : Len(stack'[k].path) = Len(stack[k].path)
  BY <1>3, <1>4, <1>5, LevelsChange
<1>7. files' \in Seq(Paths) /\ opening' \in Paths
  <2>1. List(e) => files' \in Seq(Paths)
    BY <1>2, <1>3, AppendProperties DEF List
  <2>2. QED
    BY <1>1, <1>2, <1>3, <2>1
<1>8. TypeOK'
  BY <1>1, <1>6, <1>7 DEF StreamInv, TypeOK
<1>9. LevelsOK'
  BY <1>1, <1>2, <1>4, <1>6 DEF StreamInv, LevelsOK
<1>10. HandleBalance'
  BY <1>1, <1>6 DEF StreamInv, HandleBalance
<1>11. QED
  BY <1>8, <1>9, <1>10 DEF StreamInv

\* A level closes its stream and the one above goes on, or the call returns
\* (common.cpp:141 and 166).
LEMMA ClosedirInv == ASSUME StreamInv, EndOfDirectory \/ ReaddirFails PROVE StreamInv'
<1>1. /\ pc = "read" /\ handles' = handles - 1 /\ stack' = Front(stack)
      /\ pc' = IF Len(stack) = 1 THEN "returned" ELSE "read"
      /\ broken' \in {broken, TRUE}
      /\ UNCHANGED <<at, ops, recursive, filter, opening, files, calls, base, moved, renamed, refused>>
  BY DEF EndOfDirectory, ReaddirFails, Closedir, treeVars, history
<1>2. /\ Len(stack) \in Nat /\ Len(stack) >= 1 /\ DOMAIN stack = 1 .. Len(stack)
      /\ \A k \in 1 .. Len(stack) : stack[k] \in Levels
  BY <1>1, TopTyped
<1>3. /\ stack' \in Seq(Levels) /\ Len(stack') = Len(stack) - 1
      /\ DOMAIN stack' = 1 .. Len(stack) - 1 /\ \A k \in 1 .. Len(stack) - 1 : stack'[k] = stack[k]
  <2>1. stack' = SubSeq(stack, 1, Len(stack) - 1)
    BY <1>1 DEF Front
  <2>2. Len(stack) - 1 \in Nat /\ \A k \in 1 .. Len(stack) - 1 : stack[k] \in Levels
    BY <1>2
  <2>3. /\ stack' \in Seq(Levels) /\ Len(stack') = Len(stack) - 1
        /\ \A k \in 1 .. Len(stack) - 1 : stack'[k] = stack[k]
    <3>1. 1 \in Int /\ Len(stack) - 1 \in Int /\ Len(stack) - 1 - 1 + 1 = Len(stack) - 1
      BY <1>2
    <3>2. /\ stack' \in Seq(Levels) /\ Len(stack') = IF 1 <= Len(stack) - 1 THEN Len(stack) - 1 ELSE 0
          /\ \A k \in 1 .. Len(stack) - 1 : stack'[k] = stack[1 + k - 1]
      BY <2>1, <2>2, <3>1, SubSeqProperties
    <3>3. /\ Len(stack) \in Nat /\ Len(stack) >= 1
          /\ \A k \in 1 .. Len(stack) - 1 : 1 + k - 1 = k
      BY <1>2
    <3>4. Len(stack') = Len(stack) - 1
      <4>1. \A n \in Nat : n >= 1 => (IF 1 <= n - 1 THEN n - 1 ELSE 0) = n - 1
        OBVIOUS
      <4>2. QED
        BY <3>2, <3>3, <4>1
    <3>5. \A k \in 1 .. Len(stack) - 1 : stack'[k] = stack[k]
      BY <3>2, <3>3
    <3>6. QED
      BY <3>2, <3>4, <3>5
  <2>4. QED
    BY <2>3, LenProperties
<1>4. handles = base + Len(stack) /\ handles \in Nat /\ base \in Nat
  BY <1>1 DEF StreamInv, TypeOK, HandleBalance
<1>5. handles' \in Nat /\ handles' = base + Len(stack')
  BY <1>1, <1>2, <1>3, <1>4
<1>6. Len(stack) = 1 <=> stack' = <<>>
  BY <1>2, <1>3, EmptySeq
<1>7. TypeOK'
  BY <1>1, <1>3, <1>5 DEF StreamInv, TypeOK
<1>8. LevelsOK'
  <2>1. \A k \in DOMAIN stack' : Len(stack'[k].path) = k - 1
    BY <1>2, <1>3 DEF StreamInv, LevelsOK
  <2>2. QED
    BY <1>1, <1>6, <2>1 DEF LevelsOK
<1>9. HandleBalance'
  BY <1>1, <1>2, <1>3, <1>4, <1>5 DEF HandleBalance
<1>10. QED
  BY <1>7, <1>8, <1>9 DEF StreamInv

\* Nothing is open at first.
LEMMA InitStream == Init => StreamInv
<1> SUFFICES ASSUME Init PROVE StreamInv
  OBVIOUS
<1>1. at \in [Nodes -> Places]
  BY TreesAssumption DEF Init, Nodes, Places
<1>2. opening \in Paths /\ stack \in Seq(Levels) /\ files \in Seq(Paths) /\ DOMAIN stack = {}
  BY EmptySeq DEF Init, Paths
<1>3. TypeOK
  <2>1. recursive \in BOOLEAN /\ renamed \in BOOLEAN /\ broken \in BOOLEAN /\ refused \in BOOLEAN
    BY DEF Init
  <2>2. /\ ops = 0 /\ filter = 0 /\ handles = 0 /\ calls = 0 /\ base = 0
        /\ moved = {} /\ pc = "idle"
    BY DEF Init
  <2>3. QED
    BY <1>1, <1>2, <2>1, <2>2 DEF TypeOK
<1>4. LevelsOK /\ HandleBalance
  BY <1>2 DEF Init, LevelsOK, HandleBalance
<1>5. QED
  BY <1>3, <1>4 DEF StreamInv

\* Every step preserves the invariant.
LEMMA NextStream == StreamInv /\ [Next]_vars => StreamInv'
<1> SUFFICES ASSUME StreamInv, [Next]_vars PROVE StreamInv'
  OBVIOUS
<1>1. CASE Next
  BY <1>1, OthersInv, CallInv, OpendirInv, OpendirFailsInv, ReaddirInv, ClosedirInv DEF Next, FindFiles
<1>2. CASE UNCHANGED vars
  BY <1>2 DEF vars, treeVars, callVars, history, StreamInv, TypeOK, LevelsOK, HandleBalance
<1>3. QED
  BY <1>1, <1>2

-----------------------------------------------------------------------------
(* Ways through the tree.                                                   *)

\* What is in a place is not nowhere.
LEMMA PlaceSomewhere ==
  ASSUME NEW d \in Nodes \cup {Root}, NEW n \in Names
  PROVE  Place(d, n) # Nowhere /\ Place(d, n).dir = d /\ Place(d, n).name = n
  BY NodesAssumption DEF Place, Nodes

\* The empty path leads to the root.
LEMMA LeadsToRoot ==
  ASSUME NEW w
  PROVE  Leads(w, <<>>, Root)
<1> DEFINE way == [k \in 0 .. 0 |-> Root]
<1>1. Len(<<>>) = 0
  BY EmptySeq
<1>2. way \in [0 .. 0 -> Nodes \cup {Root}] /\ way[0] = Root
  OBVIOUS
<1>3. \A k \in 1 .. 0 : way[k] \in Nodes /\ w[way[k]] = Place(way[k - 1], (<<>>)[k])
  OBVIOUS
<1>4. QED
  BY <1>1, <1>2, <1>3 DEF Leads

\* The path of a directory with one more name leads to what has that name in it.
LEMMA LeadsInto ==
  ASSUME NEW w, NEW p \in Paths, NEW d \in Dirs \cup {Root}, NEW n \in Names, NEW i \in Nodes,
         Leads(w, p, d), w[i] = Place(d, n)
  PROVE  Leads(w, Append(p, n), i)
<1>1. PICK way \in [0 .. Len(p) -> Nodes \cup {Root}] :
        /\ way[0] = Root /\ way[Len(p)] = d
        /\ \A k \in 1 .. Len(p) : way[k] \in Nodes /\ w[way[k]] = Place(way[k - 1], p[k])
  BY DEF Leads
<1>2. /\ Len(p) \in Nat /\ Len(Append(p, n)) = Len(p) + 1
      /\ \A k \in 1 .. Len(p) : Append(p, n)[k] = p[k]
      /\ Append(p, n)[Len(p) + 1] = n
  BY AppendProperties, LenProperties DEF Paths
<1> DEFINE on == [k \in 0 .. Len(p) + 1 |-> IF k = Len(p) + 1 THEN i ELSE way[k]]
<1>3. on \in [0 .. Len(p) + 1 -> Nodes \cup {Root}]
  BY <1>1, <1>2
<1>4. /\ on[Len(p) + 1] = i /\ \A k \in 0 .. Len(p) : on[k] = way[k]
  BY <1>2
<1>5. on[0] = Root
  BY <1>1, <1>2, <1>4
<1> HIDE DEF on
<1>6. ASSUME NEW k \in 1 .. Len(p) + 1
      PROVE  on[k] \in Nodes /\ w[on[k]] = Place(on[k - 1], Append(p, n)[k])
  <2>1. CASE k = Len(p) + 1
    <3>1. k - 1 = Len(p) /\ Len(p) \in 0 .. Len(p)
      BY <1>2, <2>1
    <3>2. on[k - 1] = d /\ on[k] = i /\ Append(p, n)[k] = n
      BY <1>1, <1>2, <1>4, <2>1, <3>1
    <3>3. QED
      BY <3>2
  <2>2. CASE k # Len(p) + 1
    <3>1. k \in 1 .. Len(p) /\ k \in 0 .. Len(p) /\ k - 1 \in 0 .. Len(p)
      BY <1>2, <2>2
    <3>2. on[k] = way[k] /\ on[k - 1] = way[k - 1] /\ Append(p, n)[k] = p[k]
      BY <1>2, <1>4, <3>1
    <3>3. QED
      BY <1>1, <3>1, <3>2
  <2>3. QED
    BY <2>1, <2>2
<1>7. QED
  BY <1>2, <1>3, <1>4, <1>5, <1>6 DEF Leads

\* A node that is in no place, or has nothing in it, is on no way but one to itself: a
\* path goes on leading where it led when such a node changes its place.
LEMMA LeadsStill ==
  ASSUME NEW w \in [Nodes -> Places], NEW i \in Nodes, NEW new, NEW p \in Paths,
         NEW d \in Dirs \cup {Root}, d # i, Leads(w, p, d),
         w[i] = Nowhere \/ \A j \in Nodes : w[j] # Nowhere => w[j].dir # i
  PROVE  Leads([w EXCEPT ![i] = new], p, d)
<1>1. PICK way \in [0 .. Len(p) -> Nodes \cup {Root}] :
        /\ way[0] = Root /\ way[Len(p)] = d
        /\ \A k \in 1 .. Len(p) : way[k] \in Nodes /\ w[way[k]] = Place(way[k - 1], p[k])
  BY DEF Leads
<1>2. Len(p) \in Nat
  BY LenProperties DEF Paths
<1>3. \A k \in 1 .. Len(p) : w[way[k]] # Nowhere /\ w[way[k]].dir = way[k - 1]
  <2> SUFFICES ASSUME NEW k \in 1 .. Len(p)
               PROVE  w[way[k]] # Nowhere /\ w[way[k]].dir = way[k - 1]
    OBVIOUS
  <2>1. w[way[k]] = Place(way[k - 1], p[k]) /\ way[k] \in Nodes
    BY <1>1
  <2>2. p[k] \in Names
    BY ElementOfSeq DEF Paths
  <2>3. k - 1 \in 0 .. Len(p)
    BY <1>2
  <2>4. way[k - 1] \in Nodes \cup {Root}
    BY <1>1, <2>3
  <2>5. QED
    BY <2>1, <2>2, <2>4, PlaceSomewhere
<1>4. ASSUME NEW k \in 1 .. Len(p) PROVE way[k] # i
  <2>1. CASE k = Len(p)
    BY <1>1, <2>1
  <2>2. CASE k # Len(p)
    <3>1. k + 1 \in 1 .. Len(p) /\ (k + 1) - 1 = k
      BY <1>2, <2>2
    <3>2. way[k + 1] \in Nodes /\ w[way[k + 1]] # Nowhere /\ w[way[k + 1]].dir = way[k]
      BY <1>1, <1>3, <3>1
    <3>3. w[way[k]] # Nowhere
      BY <1>3
    <3>4. QED
      BY <3>2, <3>3
  <2>3. QED
    BY <2>1, <2>2
<1>5. \A k \in 1 .. Len(p) : [w EXCEPT ![i] = new][way[k]] = w[way[k]]
  BY <1>1, <1>4
<1>6. QED
  BY <1>1, <1>5 DEF Leads

-----------------------------------------------------------------------------
(* Induction.                                                               *)

\* A set of numbers that is not empty has a least one.
LEMMA Least ==
  ASSUME NEW T \in SUBSET Nat, T # {}
  PROVE  \E n \in T : \A m \in T : n <= m
<1> DEFINE R == OpToRel(<, Nat)
<1>1. \A m, n \in Nat : m < n => <<m, n>> \in R
  BY DEF OpToRel
<1>2. IsWellFoundedOn(OpToRel(<, Nat), Nat)
  BY NatLessThanWellFounded
<1> HIDE DEF R
<1>3. IsWellFoundedOn(R, Nat)
  BY <1>2 DEF R
<1>4. \E n \in T : \A m \in T : <<m, n>> \notin R
  BY <1>3, WFMin
<1>5. \E n \in T : \A m \in T : ~(m < n)
  <2>1. \A m, n \in T : m < n => <<m, n>> \in R
    BY <1>1
  <2>2. QED
    BY <1>4, <2>1
<1>6. \A m, n \in T : ~(m < n) => n <= m
  OBVIOUS
<1>7. QED
  BY <1>5, <1>6

\* A set that has 0, and the successor of each number it has, has every number.
LEMMA Induction ==
  ASSUME NEW T, 0 \in T, \A n \in Nat : n \in T => n + 1 \in T
  PROVE  Nat \subseteq T
<1> SUFFICES ASSUME Nat \ T # {} PROVE FALSE
  OBVIOUS
<1>1. Nat \ T \in SUBSET Nat
  OBVIOUS
<1>2. PICK n \in Nat \ T : \A m \in Nat \ T : n <= m
  BY <1>1, Least
<1>3. n # 0 /\ n - 1 \in Nat /\ n - 1 + 1 = n
  BY <1>2
<1>4. n - 1 \in T
  BY <1>2, <1>3
<1>5. QED
  BY <1>2, <1>3, <1>4

-----------------------------------------------------------------------------
(* Ways that nobody touches.                                                *)

\* A node on such a way is in its place in the directory before it.
LEMMA OnStillWay ==
  ASSUME at \in [Nodes -> Places], NEW n \in Nat, NEW way \in StillWays(n), NEW k \in 1 .. n
  PROVE  /\ way[k] \in Nodes \ moved /\ at[way[k]] # Nowhere /\ way[k - 1] \in Dirs \cup {Root}
         /\ at[way[k]].name \in Names /\ at[way[k]] = Place(way[k - 1], at[way[k]].name)
<1>1. way[k] \in Nodes \ moved /\ at[way[k]] # Nowhere /\ at[way[k]].dir = way[k - 1]
  BY DEF StillWays, Present
<1>2. at[way[k]] \in Places
  BY <1>1
<1>3. at[way[k]].dir \in Dirs \cup {Root} /\ at[way[k]].name \in Names
      /\ at[way[k]] = Place(at[way[k]].dir, at[way[k]].name)
  BY <1>1, <1>2 DEF Places, Place
<1>4. QED
  BY <1>1, <1>3

\* The beginning of its path leads along it and nowhere else.
LEMMA LeadsAlong ==
  ASSUME at \in [Nodes -> Places], OnlyOne, NEW n \in Nat, NEW way \in StillWays(n),
         NEW q \in Paths, Len(q) <= n, OnWay(at, q, way), NEW d, Leads(at, q, d)
  PROVE  d = way[Len(q)]
<1>1. PICK w \in [0 .. Len(q) -> Nodes \cup {Root}] :
        /\ w[0] = Root /\ w[Len(q)] = d
        /\ \A k \in 1 .. Len(q) : w[k] \in Nodes /\ at[w[k]] = Place(w[k - 1], q[k])
  BY DEF Leads
<1>2. Len(q) \in Nat
  BY LenProperties DEF Paths
<1> DEFINE T == {m \in Nat : m <= Len(q) => w[m] = way[m]}
<1>3. 0 \in T
  BY <1>1 DEF StillWays
<1>4. ASSUME NEW m \in Nat, m \in T PROVE m + 1 \in T
  <2> SUFFICES ASSUME m + 1 <= Len(q) PROVE w[m + 1] = way[m + 1]
    OBVIOUS
  <2>1. m + 1 \in 1 .. Len(q) /\ m + 1 \in 1 .. n /\ m + 1 - 1 = m /\ m <= Len(q)
    BY <1>2
  <2>2. w[m] = way[m]
    BY <1>4, <2>1
  <2>3. w[m + 1] \in Nodes /\ at[w[m + 1]] = Place(way[m], q[m + 1])
    BY <1>1, <2>1, <2>2
  <2>4. /\ way[m + 1] \in Nodes /\ at[way[m + 1]] # Nowhere
        /\ at[way[m + 1]] = Place(way[m], at[way[m + 1]].name)
    <3>1. way[m + 1 - 1] = way[m]
      BY <2>1
    <3>2. \A k \in 1 .. n : /\ way[k] \in Nodes /\ at[way[k]] # Nowhere
                            /\ at[way[k]] = Place(way[k - 1], at[way[k]].name)
      BY OnStillWay
    <3>3. QED
      BY <2>1, <3>1, <3>2
  <2>5. q[m + 1] = at[way[m + 1]].name
    BY <2>1 DEF OnWay
  <2>6. QED
    BY <2>3, <2>4, <2>5 DEF OnlyOne
<1> HIDE DEF T
<1>5. Len(q) \in T
  BY <1>2, <1>3, <1>4, Induction
<1>6. QED
  BY <1>1, <1>2, <1>5 DEF T

\* Its path is the only one that leads to its end.
LEMMA OnlyPath ==
  ASSUME at \in [Nodes -> Places], NEW n \in Nat, NEW way \in StillWays(n), NEW q \in Paths
  PROVE  Leads(at, q, way[n]) <=> Len(q) = n /\ OnWay(at, q, way)
<1>1. Len(q) \in Nat
  BY LenProperties DEF Paths
<1>2. ASSUME Len(q) = n, OnWay(at, q, way) PROVE Leads(at, q, way[n])
  <2>1. way \in [0 .. Len(q) -> Nodes \cup {Root}] /\ way[0] = Root
    BY <1>2 DEF StillWays
  <2>2. \A k \in 1 .. Len(q) : way[k] \in Nodes /\ at[way[k]] = Place(way[k - 1], q[k])
    BY <1>2, OnStillWay DEF OnWay
  <2>3. QED
    BY <1>2, <2>1, <2>2 DEF Leads
<1>3. ASSUME Leads(at, q, way[n]) PROVE Len(q) = n /\ OnWay(at, q, way)
  <2>1. PICK w \in [0 .. Len(q) -> Nodes \cup {Root}] :
          /\ w[0] = Root /\ w[Len(q)] = way[n]
          /\ \A k \in 1 .. Len(q) : w[k] \in Nodes /\ at[w[k]] = Place(w[k - 1], q[k])
    BY <1>3 DEF Leads
  <2>2. way[0] = Root /\ Root \notin Nodes
    BY NodesAssumption DEF StillWays, Nodes
  <2>3. \A k \in 1 .. Len(q) : at[w[k]].dir = w[k - 1] /\ at[w[k]].name = q[k]
    <3>1. \A d, m : Place(d, m).dir = d /\ Place(d, m).name = m
      BY DEF Place
    <3>2. QED
      BY <2>1, <3>1
  <2> DEFINE T == {m \in Nat : m <= n /\ m <= Len(q) => w[Len(q) - m] = way[n - m]}
  <2>4. 0 \in T
    BY <1>1, <2>1
  <2>5. ASSUME NEW m \in Nat, m \in T PROVE m + 1 \in T
    <3> SUFFICES ASSUME m + 1 <= n, m + 1 <= Len(q) PROVE w[Len(q) - (m + 1)] = way[n - (m + 1)]
      OBVIOUS
    <3>1. /\ m <= n /\ m <= Len(q) /\ Len(q) - m \in 1 .. Len(q) /\ n - m \in 1 .. n
          /\ Len(q) - (m + 1) = Len(q) - m - 1 /\ n - (m + 1) = n - m - 1
      BY <1>1
    <3>2. w[Len(q) - m] = way[n - m]
      BY <2>5, <3>1
    <3>3. at[way[n - m]].dir = way[n - m - 1]
      BY <3>1 DEF StillWays
    <3>4. at[w[Len(q) - m]].dir = w[Len(q) - m - 1]
      BY <2>3, <3>1
    <3>5. QED
      BY <3>1, <3>2, <3>3, <3>4
  <2> HIDE DEF T
  <2>6. \A m \in Nat : m <= n /\ m <= Len(q) => w[Len(q) - m] = way[n - m]
    BY <2>4, <2>5, Induction DEF T
  <2>7. Len(q) = n
    <3>1. CASE Len(q) < n
      <4>1. w[Len(q) - Len(q)] = way[n - Len(q)] /\ Len(q) - Len(q) = 0 /\ n - Len(q) \in 1 .. n
        BY <1>1, <2>6, <3>1
      <4>2. way[n - Len(q)] \in Nodes
        BY <4>1, OnStillWay
      <4>3. QED
        BY <2>1, <2>2, <4>1, <4>2
    <3>2. CASE n < Len(q)
      <4>1. w[Len(q) - n] = way[n - n] /\ n - n = 0 /\ Len(q) - n \in 1 .. Len(q)
        BY <1>1, <2>6, <3>2
      <4>2. QED
        BY <2>1, <2>2, <4>1
    <3>3. QED
      BY <1>1, <3>1, <3>2
  <2>8. ASSUME NEW k \in 1 .. Len(q) PROVE q[k] = at[way[k]].name
    <3>1. n - k \in Nat /\ n - k <= n /\ Len(q) - (n - k) = k /\ n - (n - k) = k
      BY <1>1, <2>7
    <3>2. w[k] = way[k]
      BY <2>6, <2>7, <3>1
    <3>3. QED
      BY <2>3, <3>2
  <2>9. QED
    BY <2>7, <2>8 DEF OnWay
<1>4. QED
  BY <1>2, <1>3

-----------------------------------------------------------------------------
(* What paths lead to.                                                      *)

\* A level that returns no more than before rests on no more.
LEMMA LevelsShrink ==
  ASSUME LevelsReal, LevelsStand, UNCHANGED <<at, ever, renamed, moved>>,
         DOMAIN stack' \subseteq DOMAIN stack,
         \A k \in DOMAIN stack' :
           /\ stack'[k].path = stack[k].path /\ stack'[k].dir = stack[k].dir
           /\ stack'[k].may \subseteq stack[k].may
  PROVE  /\ ~renamed' => \A k \in DOMAIN stack' : LevelReal(stack[k])'
         /\ moved' \cap Dirs = {} => \A k \in DOMAIN stack' : LevelStands(stack[k])'
<1>1. ASSUME ~renamed', NEW k \in DOMAIN stack' PROVE LevelReal(stack[k])'
  <2>1. LevelReal(stack[k]) /\ k \in DOMAIN stack
    BY <1>1 DEF LevelsReal
  <2>2. QED
    BY <1>1, <2>1 DEF LevelReal
<1>2. ASSUME moved' \cap Dirs = {}, NEW k \in DOMAIN stack' PROVE LevelStands(stack[k])'
  <2>1. LevelStands(stack[k]) /\ k \in DOMAIN stack
    BY <1>2 DEF LevelsStand
  <2>2. QED
    BY <1>2, <2>1 DEF LevelStands
<1>3. QED
  BY <1>1, <1>2

\* A change adds the new entry to the streams of its directory and takes the old one
\* from those that owe it; nothing else changes in a level.
LEMMA StreamsChange ==
  ASSUME StreamInv, NEW i \in Nodes, NEW p \in Places, Change(i, p)
  PROVE  /\ DOMAIN stack' = DOMAIN stack
         /\ \A k \in DOMAIN stack :
              /\ stack'[k].path = stack[k].path /\ stack'[k].dir = stack[k].dir
              /\ \A e \in stack'[k].may :
                   e \in stack[k].may \/ (p # Nowhere /\ p.dir = stack[k].dir /\ e = Entry(i, p))
              /\ stack[k].may \subseteq stack'[k].may /\ stack'[k].owed \subseteq stack[k].owed
              /\ \A e \in stack[k].owed : e = Entry(i, at[i]) \/ e \in stack'[k].owed
<1>1. /\ DOMAIN stack' = DOMAIN stack
      /\ \A k \in DOMAIN stack :
           stack'[k] = [stack[k] EXCEPT
             !.owed = IF at[i] # Nowhere THEN @ \ {Entry(i, at[i])} ELSE @,
             !.may = IF p # Nowhere /\ p.dir = stack[k].dir THEN @ \cup {Entry(i, p)} ELSE @]
  BY DEF Change, Streams
<1>2. stack \in Seq(Levels)
  BY DEF StreamInv, TypeOK
<1> SUFFICES ASSUME NEW k \in DOMAIN stack
             PROVE  /\ stack'[k].path = stack[k].path /\ stack'[k].dir = stack[k].dir
                    /\ \A e \in stack'[k].may :
                         \/ e \in stack[k].may
                         \/ p # Nowhere /\ p.dir = stack[k].dir /\ e = Entry(i, p)
                    /\ stack[k].may \subseteq stack'[k].may /\ stack'[k].owed \subseteq stack[k].owed
                    /\ \A e \in stack[k].owed : e = Entry(i, at[i]) \/ e \in stack'[k].owed
  BY <1>1
<1> DEFINE o == IF at[i] # Nowhere THEN stack[k].owed \ {Entry(i, at[i])} ELSE stack[k].owed
           m == IF p # Nowhere /\ p.dir = stack[k].dir THEN stack[k].may \cup {Entry(i, p)}
                ELSE stack[k].may
<1>3. stack'[k] = [stack[k] EXCEPT !.owed = o, !.may = m] /\ stack[k] \in Levels
  BY <1>1, <1>2, LevelTyped
<1>4. \A x, y : LET l == [stack[k] EXCEPT !.owed = x, !.may = y] IN
                  l.path = stack[k].path /\ l.dir = stack[k].dir /\ l.owed = x /\ l.may = y
  BY <1>3 DEF Levels
<1> HIDE DEF o, m
<1>5. /\ stack'[k].path = stack[k].path /\ stack'[k].dir = stack[k].dir
      /\ stack'[k].owed = o /\ stack'[k].may = m
  BY <1>3, <1>4
<1>6. o \subseteq stack[k].owed /\ \A e \in stack[k].owed : e = Entry(i, at[i]) \/ e \in o
  BY DEF o
<1>7. /\ stack[k].may \subseteq m
      /\ \A e \in m : e \in stack[k].may \/ (p # Nowhere /\ p.dir = stack[k].dir /\ e = Entry(i, p))
  BY DEF m
<1>8. QED
  BY <1>5, <1>6, <1>7

\* What others do, seen from the place that changes.
LEMMA OthersChange ==
  ASSUME Inv, Others
  PROVE  \E i \in Nodes, p \in Places :
           /\ Change(i, p) /\ (renamed => renamed')
           /\ p # Nowhere => p.dir \in Present(at) \cup {Root} /\ \A j \in Nodes : at[j] # p
           /\ i \in Dirs =>
                \/ renamed'
                \/ at[i] = Nowhere /\ p # Nowhere /\ \A k \in DOMAIN stack : stack[k].dir # i
                \/ p = Nowhere /\ \A j \in Present(at) : at[j].dir # i
<1>1. PICK i \in Nodes :
        \/ \E d \in Dirs \cup {Root}, n \in Names : Make(i, Place(d, n)) \/ Rename(i, Place(d, n))
        \/ Unlink(i)
  BY DEF Others
<1>2. Nowhere \in Places /\ \A d \in Dirs \cup {Root}, n \in Names : Place(d, n) \in Places
  BY DEF Places, Place
<1>3. \A d \in Dirs \cup {Root}, n \in Names : Place(d, n) # Nowhere
  BY PlaceSomewhere DEF Nodes
<1>4. ASSUME NEW d \in Dirs \cup {Root}, NEW n \in Names, Make(i, Place(d, n))
      PROVE  /\ Change(i, Place(d, n)) /\ (renamed => renamed')
             /\ Place(d, n).dir \in Present(at) \cup {Root} /\ \A j \in Nodes : at[j] # Place(d, n)
             /\ at[i] = Nowhere /\ Place(d, n) # Nowhere /\ \A k \in DOMAIN stack : stack[k].dir # i
  BY <1>3, <1>4 DEF Make, Free
<1>5. ASSUME NEW d \in Dirs \cup {Root}, NEW n \in Names, Rename(i, Place(d, n))
      PROVE  /\ Change(i, Place(d, n)) /\ (renamed => renamed')
             /\ Place(d, n).dir \in Present(at) \cup {Root} /\ \A j \in Nodes : at[j] # Place(d, n)
             /\ i \in Dirs => renamed'
  BY <1>5 DEF Rename, Free
<1>6. ASSUME Unlink(i)
      PROVE  /\ Change(i, Nowhere) /\ (renamed => renamed')
             /\ \A j \in Present(at) : at[j].dir # i
  BY <1>6 DEF Unlink
<1>7. QED
  BY <1>1, <1>2, <1>4, <1>5, <1>6

\* Others make, remove and rename: what a path led to is remembered, and a directory
\* that was not moved is still where its path leads.
LEMMA OthersPath == ASSUME Inv, Others PROVE PathInv'
<1>1. PICK i \in Nodes, p \in Places :
        /\ Change(i, p) /\ (renamed => renamed')
        /\ p # Nowhere => p.dir \in Present(at) \cup {Root} /\ \A j \in Nodes : at[j] # p
        /\ i \in Dirs =>
             \/ renamed'
             \/ at[i] = Nowhere /\ p # Nowhere /\ \A k \in DOMAIN stack : stack[k].dir # i
             \/ p = Nowhere /\ \A j \in Present(at) : at[j].dir # i
  BY OthersChange
<1>2. /\ at' = [at EXCEPT ![i] = p] /\ Streams(i, at[i], p)
      /\ moved' = moved \cup {i} /\ ever' = ever \cup {at'}
      /\ UNCHANGED <<pc, filter, opening, files, handles, refused>>
  BY <1>1 DEF Change
<1>3. at \in [Nodes -> Places] /\ stack \in Seq(Levels) /\ opening \in Paths
  BY DEF Inv, StreamInv, TypeOK
<1>4. /\ DOMAIN stack' = DOMAIN stack
      /\ \A k \in DOMAIN stack :
           /\ stack'[k].path = stack[k].path /\ stack'[k].dir = stack[k].dir
           /\ \A e \in stack'[k].may :
                e \in stack[k].may \/ (p # Nowhere /\ p.dir = stack[k].dir /\ e = Entry(i, p))
  <2>1. StreamInv
    BY DEF Inv
  <2>2. QED
    BY <1>1, <2>1, StreamsChange
<1>5. \A k \in DOMAIN stack : stack[k].dir \in Dirs \cup {Root} /\ stack[k].path \in Paths
  <2> SUFFICES ASSUME NEW k \in DOMAIN stack
               PROVE  stack[k].dir \in Dirs \cup {Root} /\ stack[k].path \in Paths
    OBVIOUS
  <2>1. stack[k] \in Levels
    BY <1>3, LevelTyped
  <2>2. QED
    BY <2>1 DEF Levels
<1>6. /\ \A j \in Nodes : at'[j] = IF j = i THEN p ELSE at[j]
      /\ Entry(i, p).node = i /\ Entry(i, p).name = p.name
      /\ p # Nowhere => p.dir \in Dirs \cup {Root} /\ p.name \in Names /\ p = Place(p.dir, p.name)
  <2>1. \A j \in Nodes : at'[j] = IF j = i THEN p ELSE at[j]
    BY <1>2, <1>3
  <2>2. p # Nowhere => p.dir \in Dirs \cup {Root} /\ p.name \in Names /\ p = Place(p.dir, p.name)
    BY DEF Places, Place
  <2>3. QED
    BY <2>1, <2>2 DEF Entry
<1>7. ASSUME i \notin Dirs, NEW d \in Dirs \cup {Root}, NEW q \in Paths, Leads(at, q, d)
      PROVE  Leads(at', q, d)
  <2>1. \A j \in Nodes : at[j] # Nowhere => at[j].dir # i
    BY <1>3, <1>7, NodesAssumption DEF Places, Nodes
  <2>2. d # i
    BY <1>7, NodesAssumption DEF Nodes
  <2>3. QED
    BY <1>2, <1>3, <1>7, <2>1, <2>2, LeadsStill
<1>8. ASSUME ~renamed', NEW k \in DOMAIN stack'
      PROVE  LevelReal(stack[k])'
  <2>1. LevelReal(stack[k]) /\ k \in DOMAIN stack /\ ~renamed
    BY <1>1, <1>4, <1>8 DEF Inv, PathInv, LevelsReal
  <2> DEFINE d == stack[k].dir
             q == stack[k].path
  <2>2. d \in Dirs \cup {Root} /\ q \in Paths /\ stack'[k].dir = d /\ stack'[k].path = q
    BY <1>4, <1>5, <2>1
  <2>3. (d \in Present(at) \cup {Root} => Leads(at, q, d))
    BY <2>1 DEF LevelReal
  <2>4. d \in Present(at') \cup {Root} => d # i \/ i \notin Dirs
    <3>1. Root # i
      BY NodesAssumption DEF Nodes
    <3>2. p = Nowhere => i \notin Present(at')
      BY <1>6 DEF Present
    <3>3. QED
      BY <1>1, <1>8, <2>1, <3>1, <3>2
  <2>5. ASSUME d \in Present(at') \cup {Root}
        PROVE  Leads(at', q, d)
    <3>1. d # i
      BY <2>2, <2>4, <2>5, NodesAssumption DEF Nodes
    <3>2. d \in Present(at) \cup {Root}
      BY <1>6, <2>5, <3>1 DEF Present
    <3>3. CASE i \notin Dirs
      BY <1>7, <2>2, <2>3, <3>2, <3>3
    <3>4. CASE i \in Dirs
      <4>1. at[i] = Nowhere \/ \A j \in Nodes : at[j] # Nowhere => at[j].dir # i
        BY <1>1, <1>8, <3>4 DEF Present
      <4>2. QED
        BY <1>2, <1>3, <2>2, <2>3, <3>1, <3>2, <4>1, LeadsStill
    <3>5. QED
      BY <3>3, <3>4
  <2>6. ASSUME NEW e \in stack'[k].may
        PROVE  \E where \in ever' : Leads(where, Append(q, e.name), e.node)
    <3>1. CASE e \in stack[k].may
      BY <1>2, <2>1, <3>1 DEF LevelReal
    <3>2. CASE p # Nowhere /\ p.dir = d /\ e = Entry(i, p)
      <4>1. d \in Present(at') \cup {Root}
        <5>1. d \in Present(at) \cup {Root}
          BY <1>1, <3>2
        <5>2. QED
          BY <1>6, <3>2, <5>1 DEF Present
      <4>2. Leads(at', q, d) /\ at'[i] = Place(d, p.name) /\ p.name \in Names
        BY <1>6, <2>5, <3>2, <4>1
      <4>3. Leads(at', Append(q, p.name), i)
        BY <2>2, <4>2, LeadsInto
      <4>4. QED
        BY <1>2, <1>6, <3>2, <4>3
    <3>3. QED
      BY <1>4, <2>1, <3>1, <3>2
  <2>7. QED
    BY <2>2, <2>5, <2>6 DEF LevelReal
<1>9. LevelsReal'
  BY <1>2, <1>8 DEF LevelsReal
<1>10. Real'
  BY <1>1, <1>2 DEF Inv, PathInv, Real
<1>11. ASSUME moved' \cap Dirs = {}, NEW k \in DOMAIN stack'
       PROVE  LevelStands(stack[k])'
  <2>1. LevelStands(stack[k]) /\ k \in DOMAIN stack /\ i \notin Dirs
    BY <1>2, <1>4, <1>11 DEF Inv, PathInv, LevelsStand
  <2>2. Leads(at', stack[k].path, stack[k].dir)
    BY <1>5, <1>7, <2>1 DEF LevelStands
  <2>3. ASSUME NEW e \in stack'[k].may, e.node \in Dirs
        PROVE  at'[e.node] = Place(stack[k].dir, e.name)
    <3>1. e \in stack[k].may
      BY <1>4, <1>6, <2>1, <2>3
    <3>2. at[e.node] = Place(stack[k].dir, e.name) /\ e.node # i /\ e.node \in Nodes
      BY <2>1, <2>3, <3>1 DEF LevelStands, Nodes
    <3>3. QED
      BY <1>6, <3>2
  <2>4. QED
    BY <1>4, <2>1, <2>2, <2>3 DEF LevelStands
<1>12. LevelsStand'
  <2>1. ASSUME moved' \cap Dirs = {}, pc' = "open"
        PROVE  \E d \in Dirs \cup {Root} : Leads(at', opening', d)
    <3>1. i \notin Dirs /\ pc = "open" /\ moved \cap Dirs = {}
      BY <1>2, <2>1
    <3>2. PICK d \in Dirs \cup {Root} : Leads(at, opening, d)
      BY <3>1 DEF Inv, PathInv, LevelsStand
    <3>3. QED
      BY <1>2, <1>3, <1>7, <3>1, <3>2
  <2>2. QED
    BY <1>11, <2>1 DEF LevelsStand
<1>13. ThrowsForCause'
  BY <1>2 DEF Inv, PathInv, ThrowsForCause
<1>14. QED
  BY <1>9, <1>10, <1>12, <1>13 DEF PathInv

\* A call begins at the root.
LEMMA CallPath == ASSUME Inv, NEW r \in BOOLEAN, NEW f \in 0 .. 2, Call(r, f) PROVE PathInv'
<1>1. /\ pc' = "open" /\ opening' = <<>> /\ stack' = <<>> /\ files' = <<>>
      /\ ever' = {at} /\ at' = at
  BY DEF Call, treeVars
<1>2. DOMAIN stack' = {} /\ DOMAIN files' = {}
  BY <1>1
<1>3. Leads(at', opening', Root)
  BY <1>1, LeadsToRoot
<1>4. QED
  BY <1>1, <1>2, <1>3 DEF PathInv, LevelsReal, LevelsStand, Real, ThrowsForCause

\* What opendir opens is where the path leads now, and the stream returns what is in
\* it now.
LEMMA OpendirPath == ASSUME Inv, Opendir PROVE PathInv'
<1>1. /\ pc = "open" /\ pc' = "read"
      /\ UNCHANGED <<at, filter, files, moved, renamed, ever>>
  BY DEF Opendir, treeVars, history
<1>2. PICK d \in Dirs \cup {Root} :
        Leads(at, opening, d) /\ stack' = Append(stack, Level(opening, d))
  BY DEF Opendir
<1>3. opening \in Paths /\ at \in [Nodes -> Places] /\ stack \in Seq(Levels) /\ at \in ever
  BY <1>1 DEF Inv, StreamInv, PathInv, TypeOK, LevelsReal
<1>4. Level(opening, d) \in Levels
  BY <1>3, EntriesTyped DEF Level, Levels
<1>5. \A k \in DOMAIN stack' :
        (k \in DOMAIN stack /\ stack'[k] = stack[k]) \/ stack'[k] = Level(opening, d)
  <2>1. /\ Len(stack) \in Nat /\ DOMAIN stack = 1 .. Len(stack) /\ DOMAIN stack' = 1 .. Len(stack) + 1
        /\ \A k \in 1 .. Len(stack) : stack'[k] = stack[k]
        /\ stack'[Len(stack) + 1] = Level(opening, d)
    BY <1>2, <1>3, <1>4, AppendProperties, LenProperties
  <2>2. QED
    BY <2>1
<1>6. ASSUME NEW e \in Level(opening, d).may
      PROVE  Leads(at, Append(opening, e.name), e.node) /\ at[e.node] = Place(d, e.name)
  <2>1. PICK j \in Present(at) : at[j].dir = d /\ e = Entry(j, at[j])
    BY <1>6 DEF Level, EntriesOf
  <2>2. j \in Nodes /\ at[j] \in Places /\ at[j] # Nowhere
    BY <1>3, <2>1 DEF Present
  <2>3. e.node = j /\ e.name = at[j].name /\ at[j].name \in Names /\ at[j] = Place(d, at[j].name)
    BY <2>1, <2>2 DEF Entry, Places, Place
  <2>4. QED
    BY <1>2, <1>3, <2>2, <2>3, LeadsInto
<1>7. Level(opening, d).path = opening /\ Level(opening, d).dir = d
  BY DEF Level
<1>8. ASSUME ~renamed', NEW k \in DOMAIN stack' PROVE LevelReal(stack[k])'
  <2>1. CASE k \in DOMAIN stack /\ stack'[k] = stack[k]
    <3>1. LevelReal(stack[k])
      BY <1>1, <1>8, <2>1 DEF Inv, PathInv, LevelsReal
    <3>2. QED
      BY <1>1, <2>1, <3>1 DEF LevelReal
  <2>2. CASE stack'[k] = Level(opening, d)
    BY <1>1, <1>2, <1>3, <1>6, <1>7, <2>2 DEF LevelReal
  <2>3. QED
    BY <1>5, <2>1, <2>2
<1>9. ASSUME moved' \cap Dirs = {}, NEW k \in DOMAIN stack' PROVE LevelStands(stack[k])'
  <2>1. CASE k \in DOMAIN stack /\ stack'[k] = stack[k]
    <3>1. LevelStands(stack[k])
      BY <1>1, <1>9, <2>1 DEF Inv, PathInv, LevelsStand
    <3>2. QED
      BY <1>1, <2>1, <3>1 DEF LevelStands
  <2>2. CASE stack'[k] = Level(opening, d)
    BY <1>1, <1>2, <1>6, <1>7, <2>2 DEF LevelStands
  <2>3. QED
    BY <1>5, <2>1, <2>2
<1>10. LevelsReal' /\ LevelsStand'
  BY <1>1, <1>3, <1>8, <1>9 DEF LevelsReal, LevelsStand
<1>11. Real' /\ ThrowsForCause'
  BY <1>1 DEF Inv, PathInv, Real, ThrowsForCause
<1>12. QED
  BY <1>10, <1>11 DEF PathInv

\* opendir fails for want of streams, because it is refused, or because the path leads
\* nowhere, which it does only when a directory was moved.
LEMMA OpendirFailsPath == ASSUME Inv, OpendirFails PROVE PathInv'
<1>1. /\ pc = "open" /\ pc' = "threw" /\ stack' = <<>>
      /\ \/ refused' \/ handles = MaxHandles
         \/ \A d \in Dirs \cup {Root} : ~Leads(at, opening, d)
      /\ UNCHANGED <<at, filter, files, handles, moved, renamed, ever>>
  BY DEF OpendirFails, Unwind, treeVars
<1>2. DOMAIN stack' = {}
  BY <1>1
<1>3. LevelsReal' /\ LevelsStand' /\ Real'
  BY <1>1, <1>2 DEF Inv, PathInv, LevelsReal, LevelsStand, Real
<1>4. refused' \/ handles = MaxHandles \/ moved \cap Dirs # {}
  BY <1>1 DEF Inv, PathInv, LevelsStand
<1>5. ThrowsForCause'
  BY <1>1, <1>4 DEF ThrowsForCause
<1>6. QED
  BY <1>3, <1>5 DEF PathInv

\* What is listed was, when its level was opened or later, where the path made of it
\* leads; and a directory that was not moved is where it is looked for.
LEMMA ReaddirPath == ASSUME Inv, Readdir PROVE PathInv'
<1>1. PICK e \in Top.may :
        /\ pc = "read" /\ Take(e)
        /\ \/ files' = Append(files, FullPath(e)) /\ (IF e.node \in Dirs THEN filter # 1 ELSE filter # 2)
           \/ files' = files
        /\ \/ e.node \in Dirs /\ pc' = "open" /\ opening' = FullPath(e)
           \/ pc' = "read"
        /\ UNCHANGED <<at, filter, moved, renamed, ever>>
  BY NodesAssumption DEF Readdir, ReadDirectory, ReadFile, List, treeVars, history
<1>2. /\ Len(stack) \in DOMAIN stack /\ Top = stack[Len(stack)] /\ Top \in Levels
      /\ FullPath(e) \in Paths /\ e.name \in Names /\ e.node \in Nodes
  <2>1. /\ Len(stack) \in DOMAIN stack /\ Top = stack[Len(stack)] /\ Top \in Levels
        /\ FullPath(e) \in Paths /\ e.name \in Names
    <3>1. StreamInv /\ pc = "read"
      BY <1>1 DEF Inv
    <3>2. /\ Len(stack) \in Nat /\ Len(stack) >= 1 /\ DOMAIN stack = 1 .. Len(stack)
          /\ Top = stack[Len(stack)] /\ Top \in Levels
      BY <3>1, TopTyped
    <3>3. e.name \in Names /\ FullPath(e) \in Paths
      BY <3>1, TopTyped
    <3>4. QED
      BY <3>2, <3>3
  <2>2. Top.may \subseteq Entries
    BY <2>1 DEF Levels
  <2>3. e.node \in Nodes
    BY <2>2 DEF Entries
  <2>4. QED
    BY <2>1, <2>3
<1>3. stack \in Seq(Levels) /\ files \in Seq(Paths)
  BY DEF Inv, StreamInv, TypeOK
<1>4. /\ DOMAIN stack' = DOMAIN stack
      /\ \A k \in DOMAIN stack' :
           /\ stack'[k].path = stack[k].path /\ stack'[k].dir = stack[k].dir
           /\ stack'[k].may \subseteq stack[k].may
  <2>1. DOMAIN stack' = DOMAIN stack /\ \A k \in DOMAIN stack : k # Len(stack) => stack'[k] = stack[k]
    BY <1>1 DEF Take
  <2>2. /\ stack'[Len(stack)].path = Top.path /\ stack'[Len(stack)].dir = Top.dir
        /\ stack'[Len(stack)].may = Top.may \ {e}
    BY <1>1, <1>2 DEF Take, Levels
  <2>3. QED
    BY <1>2, <2>1, <2>2
<1>5. /\ ~renamed' => \A k \in DOMAIN stack' : LevelReal(stack[k])'
      /\ moved' \cap Dirs = {} => \A k \in DOMAIN stack' : LevelStands(stack[k])'
  BY <1>1, <1>4, LevelsShrink DEF Inv, PathInv
<1>6. LevelsReal'
  BY <1>1, <1>5 DEF Inv, PathInv, LevelsReal
<1>7. LevelsStand'
  <2>1. ASSUME moved' \cap Dirs = {}, pc' = "open"
        PROVE  \E d \in Dirs \cup {Root} : Leads(at, opening', d)
    <3>1. e.node \in Dirs /\ opening' = Append(Top.path, e.name)
      BY <1>1, <2>1 DEF FullPath
    <3>2. Leads(at, Top.path, Top.dir) /\ at[e.node] = Place(Top.dir, e.name)
      BY <1>1, <1>2, <2>1, <3>1 DEF Inv, PathInv, LevelsStand, LevelStands
    <3>3. Leads(at, opening', e.node)
      BY <1>2, <3>1, <3>2, LeadsInto DEF Levels
    <3>4. QED
      BY <3>1, <3>3
  <2>2. QED
    BY <1>1, <1>5, <2>1 DEF LevelsStand
<1>8. Real'
  <2>1. ASSUME ~renamed', NEW k \in DOMAIN files'
        PROVE  \E where \in ever', i \in Nodes :
                 /\ Leads(where, files'[k], i)
                 /\ IF i \in Dirs THEN filter' # 1 ELSE filter' # 2
    <3>1. CASE k \in DOMAIN files /\ files'[k] = files[k]
      BY <1>1, <2>1, <3>1 DEF Inv, PathInv, Real
    <3>2. CASE files'[k] = FullPath(e) /\ (IF e.node \in Dirs THEN filter # 1 ELSE filter # 2)
      <4>1. PICK where \in ever : Leads(where, Append(Top.path, e.name), e.node)
        BY <1>1, <1>2, <2>1 DEF Inv, PathInv, LevelsReal, LevelReal
      <4>2. QED
        BY <1>1, <1>2, <3>2, <4>1 DEF FullPath
    <3>3. QED
      <4>1. CASE files' = files
        BY <2>1, <3>1, <4>1
      <4>2. CASE files' = Append(files, FullPath(e)) /\ (IF e.node \in Dirs THEN filter # 1 ELSE filter # 2)
        <5>1. /\ Len(files) \in Nat /\ DOMAIN files = 1 .. Len(files) /\ DOMAIN files' = 1 .. Len(files) + 1
              /\ \A n \in 1 .. Len(files) : files'[n] = files[n]
              /\ files'[Len(files) + 1] = FullPath(e)
          BY <1>2, <1>3, <4>2, AppendProperties, LenProperties
        <5>2. (k \in DOMAIN files /\ files'[k] = files[k]) \/ files'[k] = FullPath(e)
          BY <2>1, <5>1
        <5>3. QED
          BY <3>1, <3>2, <4>2, <5>2
      <4>3. QED
        BY <1>1, <4>1, <4>2
  <2>2. QED
    BY <2>1 DEF Real
<1>9. ThrowsForCause'
  BY <1>1 DEF ThrowsForCause
<1>10. QED
  BY <1>6, <1>7, <1>8, <1>9 DEF PathInv

\* The levels above go on as they were.
LEMMA ClosedirPath == ASSUME Inv, EndOfDirectory \/ ReaddirFails PROVE PathInv'
<1>1. /\ pc = "read" /\ stack' = Front(stack) /\ pc' \in {"returned", "read"}
      /\ UNCHANGED <<at, filter, files, moved, renamed, ever>>
  BY DEF EndOfDirectory, ReaddirFails, Closedir, treeVars, history
<1>2. DOMAIN stack' \subseteq DOMAIN stack /\ \A k \in DOMAIN stack' : stack'[k] = stack[k]
  <2>1. /\ Len(stack) \in Nat /\ Len(stack) >= 1 /\ DOMAIN stack = 1 .. Len(stack)
        /\ \A k \in 1 .. Len(stack) : stack[k] \in Levels
    BY <1>1, TopTyped DEF Inv
  <2>2. stack' = SubSeq(stack, 1, Len(stack) - 1)
    BY <1>1 DEF Front
  <2>3. DOMAIN stack' = 1 .. Len(stack) - 1 /\ \A k \in 1 .. Len(stack) - 1 : stack'[k] = stack[k]
    BY <2>1, <2>2
  <2>4. QED
    BY <2>1, <2>3
<1>3. /\ ~renamed' => \A k \in DOMAIN stack' : LevelReal(stack[k])'
      /\ moved' \cap Dirs = {} => \A k \in DOMAIN stack' : LevelStands(stack[k])'
  BY <1>1, <1>2, LevelsShrink DEF Inv, PathInv
<1>4. QED
  BY <1>1, <1>3 DEF Inv, PathInv, LevelsReal, LevelsStand, Real, ThrowsForCause

-----------------------------------------------------------------------------
(* What is listed.                                                          *)

\* Ways have a number of steps.
LEMMA DepthsTyped ==
  ASSUME NEW n \in Depths
  PROVE  n \in Nat /\ n >= 1 /\ n \in 1 .. n
<1>1. Cardinality(Dirs) \in Nat
  BY NodesAssumption, FS_CardinalityType
<1>2. QED
  BY <1>1 DEF Depths

\* Others leave the ways alone on which they change nothing, and what has been listed of
\* them.
LEMMA OthersList == ASSUME Inv, StreamInv', Others PROVE ListInv'
<1>1. PICK i \in Nodes, p \in Places :
        Change(i, p) /\ (p # Nowhere => \A j \in Nodes : at[j] # p)
  BY OthersChange
<1>2. /\ at' = [at EXCEPT ![i] = p] /\ moved' = moved \cup {i}
      /\ UNCHANGED <<pc, recursive, filter, opening, files, broken>>
  BY <1>1 DEF Change
<1>3. /\ at \in [Nodes -> Places] /\ stack \in Seq(Levels) /\ stack' \in Seq(Levels)
      /\ files \in Seq(Paths) /\ LevelsOK /\ LevelsOK'
  BY DEF Inv, StreamInv, TypeOK
<1>4. \A j \in Nodes : at'[j] = IF j = i THEN p ELSE at[j]
  BY <1>2, <1>3
<1>5. /\ DOMAIN stack' = DOMAIN stack
      /\ \A k \in DOMAIN stack :
           /\ stack'[k].path = stack[k].path /\ stack'[k].dir = stack[k].dir
           /\ \A e \in stack'[k].may :
                e \in stack[k].may \/ (p # Nowhere /\ p.dir = stack[k].dir /\ e = Entry(i, p))
           /\ stack[k].may \subseteq stack'[k].may /\ stack'[k].owed \subseteq stack[k].owed
           /\ \A e \in stack[k].owed : e = Entry(i, at[i]) \/ e \in stack'[k].owed
  <2>1. StreamInv
    BY DEF Inv
  <2>2. QED
    BY <1>1, <2>1, StreamsChange
<1>6. Len(stack') = Len(stack) /\ Len(stack) \in Nat /\ DOMAIN stack = 1 .. Len(stack)
  <2>1. Len(stack') \in Nat /\ Len(stack) \in Nat /\ 1 .. Len(stack') = 1 .. Len(stack)
    BY <1>3, <1>5, LenProperties
  <2>2. QED
    BY <1>3, <2>1, LenProperties
<1>7. OnlyOne'
  BY <1>1, <1>4 DEF Inv, ListInv, OnlyOne
<1>8. StreamsOK'
  <2> SUFFICES ASSUME NEW k \in DOMAIN stack'
               PROVE  /\ stack'[k].owed \subseteq stack'[k].may
                      /\ \A e \in stack'[k].may, j \in Nodes \ moved' :
                           at'[j] = Place(stack'[k].dir, e.name) => e.node = j
    BY DEF StreamsOK
  <2>1. /\ stack[k].owed \subseteq stack[k].may
        /\ \A e \in stack[k].may, j \in Nodes \ moved : at[j] = Place(stack[k].dir, e.name) => e.node = j
    BY <1>5 DEF Inv, ListInv, StreamsOK
  <2>2. ASSUME NEW e \in stack'[k].may, NEW j \in Nodes \ moved', at'[j] = Place(stack'[k].dir, e.name)
        PROVE  e.node = j
    <3>1. j \in Nodes \ moved /\ j # i /\ at[j] = Place(stack[k].dir, e.name)
      BY <1>2, <1>4, <1>5, <2>2
    <3>2. CASE e \in stack[k].may
      BY <2>1, <3>1, <3>2
    <3>3. CASE p # Nowhere /\ p.dir = stack[k].dir /\ e = Entry(i, p)
      <4>1. p = Place(stack[k].dir, e.name)
        BY <3>3 DEF Places, Place, Entry
      <4>2. QED
        BY <1>1, <3>1, <3>3, <4>1
    <3>4. QED
      BY <1>5, <2>2, <3>2, <3>3
  <2>3. QED
    BY <1>5, <2>1, <2>2
<1>9. Nested'
  BY <1>2, <1>5, <1>6 DEF Inv, ListInv, Nested
<1>10. ASSUME ~broken', NEW n \in Depths, NEW way \in StillWays(n)'
       PROVE  Progress(way, n)'
  <2>1. n \in Nat /\ n >= 1 /\ n \in 1 .. n
    BY DepthsTyped
  <2>2. \A k \in 1 .. n : way[k] \in Nodes \ moved /\ way[k] # i /\ at'[way[k]] = at[way[k]]
                           /\ at[way[k]] # Nowhere /\ at[way[k]].dir = way[k - 1]
    BY <1>2, <1>4 DEF StillWays, Present
  <2>3. way \in StillWays(n)
    BY <2>2 DEF StillWays, Present
  <2>4. Progress(way, n)
    BY <1>2, <1>10, <2>3 DEF Inv, ListInv, AllProgress
  <2>5. ASSUME NEW q, Len(q) \in 0 .. n PROVE OnWay(at', q, way) <=> OnWay(at, q, way)
    <3>1. \A k \in 1 .. Len(q) : at'[way[k]] = at[way[k]]
      BY <2>1, <2>2, <2>5
    <3>2. QED
      BY <3>1 DEF OnWay
  <2>6. Listed(way, n)' = Listed(way, n)
    <3>1. \A k \in DOMAIN files : Len(files[k]) = n => (OnWay(at', files[k], way) <=> OnWay(at, files[k], way))
      BY <2>1, <2>5
    <3>2. QED
      BY <1>2, <3>1 DEF Listed
  <2>7. Done(way, n)' <=> Done(way, n)
    <3>1. Wanted(way[n])' <=> Wanted(way[n])
      BY <1>2, <2>1, <2>2 DEF Wanted
    <3>2. QED
      BY <1>2, <2>6, <3>1 DEF Done
  <2>8. ASSUME NEW k \in 1 .. n, k <= Len(stack)
        PROVE  /\ stack'[k].path = stack[k].path /\ k \in DOMAIN stack
               /\ OnWay(at', stack[k].path, way) <=> OnWay(at, stack[k].path, way)
               /\ Entering(k, way)' <=> Entering(k, way)
    <3>1. k \in DOMAIN stack /\ stack'[k].path = stack[k].path /\ Len(stack[k].path) \in 0 .. n
      BY <1>3, <1>5, <1>6, <2>1, <2>8 DEF LevelsOK
    <3>2. k < Len(stack) => /\ stack'[k + 1].path = stack[k + 1].path
                            /\ Len(stack[k + 1].path) \in 0 .. n
      <4>1. \A m \in DOMAIN stack : stack'[m].path = stack[m].path /\ Len(stack[m].path) = m - 1
        BY <1>3, <1>5 DEF LevelsOK
      <4>2. k < Len(stack) => k + 1 \in DOMAIN stack /\ k + 1 - 1 \in 0 .. n
        BY <1>6, <2>1
      <4>3. QED
        BY <4>1, <4>2
    <3>3. pc = "open" /\ k = Len(stack) => Len(opening) \in 0 .. n
      BY <1>3, <1>6, <2>1, <2>8 DEF LevelsOK
    <3>4. OnWay(at', stack[k].path, way) <=> OnWay(at, stack[k].path, way)
      BY <2>5, <3>1
    <3>5. k < Len(stack) => (OnWay(at', stack[k + 1].path, way) <=> OnWay(at, stack[k + 1].path, way))
      BY <2>5, <3>2
    <3>6. pc = "open" /\ k = Len(stack) => (OnWay(at', opening, way) <=> OnWay(at, opening, way))
      BY <2>5, <3>3
    <3>7. QED
      BY <1>2, <1>6, <3>1, <3>2, <3>4, <3>5, <3>6 DEF Entering
  <2>9. ASSUME NEW k \in 1 .. n, k <= Len(stack), OnWay(at', stack'[k].path, way)
        PROVE  ProgressAt(k, way, n)'
    <3> DEFINE e == Entry(way[k], at[way[k]])
    <3>1. ProgressAt(k, way, n)
      BY <2>4, <2>8, <2>9 DEF Progress
    <3>2. /\ stack[k].dir = way[k - 1]
          /\ \/ e \in stack[k].owed /\ Listed(way, n) = {} /\ ~Entering(k, way)
             \/ e \notin stack[k].may /\ (k = n \/ ~Entering(k, way) => Done(way, n))
      BY <3>1 DEF ProgressAt
    <3>3. e # Entry(i, at[i]) /\ e # Entry(i, p) /\ e = Entry(way[k], at'[way[k]])
      BY <2>2 DEF Entry
    <3> HIDE DEF e
    <3>4. k \in DOMAIN stack /\ stack'[k].dir = way[k - 1]
      BY <1>5, <2>8, <2>9, <3>2
    <3>5. (e \in stack[k].owed => e \in stack'[k].owed) /\ (e \notin stack[k].may => e \notin stack'[k].may)
      BY <1>5, <3>3, <3>4
    <3>6. \/ e \in stack'[k].owed /\ Listed(way, n)' = {} /\ ~Entering(k, way)'
          \/ e \notin stack'[k].may /\ (k = n \/ ~Entering(k, way)' => Done(way, n)')
      BY <2>6, <2>7, <2>8, <2>9, <3>2, <3>5
    <3>7. QED
      BY <3>3, <3>4, <3>6 DEF ProgressAt
  <2>10. pc' = "open" /\ Len(opening') < n /\ OnWay(at', opening', way) => Listed(way, n)' = {}
    <3>1. pc = "open" /\ Len(opening) < n => Len(opening) \in 0 .. n
      <4>1. pc = "open" => Len(opening) = Len(stack)
        BY <1>3 DEF LevelsOK
      <4>2. QED
        BY <1>6, <2>1, <4>1
    <3>2. QED
      BY <1>2, <2>4, <2>5, <2>6, <3>1 DEF Progress
  <2>11. pc' = "returned" => Done(way, n)'
    BY <1>2, <2>4, <2>7 DEF Progress
  <2>12. QED
    BY <1>6, <2>9, <2>10, <2>11 DEF Progress
<1>11. QED
  BY <1>7, <1>8, <1>9, <1>10 DEF ListInv, AllProgress

\* A call begins with nothing listed.
LEMMA CallList == ASSUME Inv, NEW r \in BOOLEAN, NEW f \in 0 .. 2, Call(r, f) PROVE ListInv'
<1>1. pc' = "open" /\ stack' = <<>> /\ files' = <<>> /\ at' = at
  BY DEF Call, treeVars
<1>2. DOMAIN stack' = {} /\ DOMAIN files' = {} /\ Len(stack') = 0
  BY <1>1
<1>3. OnlyOne' /\ StreamsOK' /\ Nested'
  BY <1>1, <1>2 DEF Inv, ListInv, OnlyOne, StreamsOK, Nested
<1>4. ASSUME NEW n, NEW way PROVE Listed(way, n)' = {}
  BY <1>2 DEF Listed
<1>5. ASSUME NEW n \in Depths, NEW way PROVE Progress(way, n)'
  <2>1. \A k \in 1 .. n : ~(k <= Len(stack'))
    BY <1>2, DepthsTyped
  <2>2. QED
    BY <1>1, <1>4, <2>1 DEF Progress
<1>6. QED
  BY <1>3, <1>5 DEF ListInv, AllProgress

\* A level on the way whose directory has just been opened: the stream has everything to
\* return, and nothing below has been listed.
LEMMA OpendirList == ASSUME Inv, Opendir PROVE ListInv'
<1>1. /\ pc = "open" /\ pc' = "read"
      /\ UNCHANGED <<at, recursive, filter, opening, files, moved, broken>>
  BY DEF Opendir, treeVars, history
<1>2. PICK d \in Dirs \cup {Root} :
        Leads(at, opening, d) /\ stack' = Append(stack, Level(opening, d))
  BY DEF Opendir
<1>3. /\ opening \in Paths /\ at \in [Nodes -> Places] /\ stack \in Seq(Levels)
      /\ Len(opening) = Len(stack) /\ \A k \in DOMAIN stack : Len(stack[k].path) = k - 1
  BY <1>1 DEF Inv, StreamInv, TypeOK, LevelsOK
<1>4. /\ Level(opening, d).path = opening /\ Level(opening, d).dir = d
      /\ Level(opening, d).owed = EntriesOf(d) /\ Level(opening, d).may = EntriesOf(d)
      /\ Level(opening, d) \in Levels
  BY <1>3, EntriesTyped DEF Level, Levels
<1>5. /\ Len(stack) \in Nat /\ DOMAIN stack = 1 .. Len(stack)
      /\ Len(stack') = Len(stack) + 1 /\ DOMAIN stack' = 1 .. Len(stack) + 1
      /\ \A k \in 1 .. Len(stack) : stack'[k] = stack[k]
      /\ stack'[Len(stack) + 1] = Level(opening, d)
  BY <1>2, <1>3, <1>4, AppendProperties, LenProperties
<1>6. \A k \in 1 .. Len(stack) + 1 : k \in 1 .. Len(stack) \/ k = Len(stack) + 1
  BY <1>5
<1>7. OnlyOne /\ OnlyOne'
  BY <1>1 DEF Inv, ListInv, OnlyOne
<1>8. StreamsOK'
  <2>1. ASSUME NEW e \in EntriesOf(d), NEW j \in Nodes, at[j] = Place(d, e.name)
        PROVE  e.node = j
    <3>1. PICK m \in Present(at) : at[m].dir = d /\ e = Entry(m, at[m])
      BY <2>1 DEF EntriesOf
    <3>2. m \in Nodes /\ at[m] \in Places /\ at[m] # Nowhere
      BY <1>3, <3>1 DEF Present
    <3>3. e.node = m /\ at[m] = Place(d, e.name)
      BY <3>1, <3>2 DEF Entry, Places, Place
    <3>4. QED
      BY <1>7, <2>1, <3>2, <3>3 DEF OnlyOne
  <2>2. \A k \in 1 .. Len(stack) :
          /\ stack[k].owed \subseteq stack[k].may
          /\ \A e \in stack[k].may, j \in Nodes \ moved : at[j] = Place(stack[k].dir, e.name) => e.node = j
    BY <1>5 DEF Inv, ListInv, StreamsOK
  <2> SUFFICES ASSUME NEW k \in DOMAIN stack'
               PROVE  /\ stack'[k].owed \subseteq stack'[k].may
                      /\ \A e \in stack'[k].may, j \in Nodes \ moved' :
                           at'[j] = Place(stack'[k].dir, e.name) => e.node = j
    BY DEF StreamsOK
  <2>3. CASE k \in 1 .. Len(stack)
    BY <1>1, <1>5, <2>2, <2>3
  <2>4. CASE k = Len(stack) + 1
    BY <1>1, <1>4, <1>5, <2>1, <2>4
  <2>5. QED
    BY <1>5, <1>6, <2>3, <2>4
<1>9. Nested'
  <2>1. ASSUME NEW k \in DOMAIN stack', NEW m \in k .. Len(stack')
        PROVE  Begins(stack'[k].path, stack'[m].path)
    <3>1. CASE m \in 1 .. Len(stack)
      <4>1. k \in DOMAIN stack /\ m \in k .. Len(stack) /\ stack'[k] = stack[k] /\ stack'[m] = stack[m]
        BY <1>5, <2>1, <3>1
      <4>2. QED
        BY <4>1 DEF Inv, ListInv, Nested
    <3>2. CASE k \in 1 .. Len(stack) /\ m = Len(stack) + 1
      BY <1>1, <1>4, <1>5, <3>2 DEF Inv, ListInv, Nested
    <3>3. CASE k = m
      BY <3>3 DEF Begins
    <3>4. QED
      BY <1>5, <2>1, <3>1, <3>2, <3>3
  <2>2. ~recursive => Len(stack) = 0
    BY <1>1, <1>5, EmptySeq DEF Inv, ListInv, Nested
  <2>3. QED
    BY <1>1, <1>5, <2>1, <2>2 DEF Nested
<1>10. ASSUME ~broken', NEW n \in Depths, NEW way \in StillWays(n)'
       PROVE  Progress(way, n)'
  <2>1. n \in Nat /\ n >= 1 /\ n \in 1 .. n
    BY DepthsTyped
  <2>2. way \in StillWays(n) /\ Progress(way, n)
    <3>1. way \in StillWays(n)
      BY <1>1 DEF StillWays
    <3>2. QED
      BY <1>1, <1>10, <3>1 DEF Inv, ListInv, AllProgress
  <2>3. Listed(way, n)' = Listed(way, n) /\ (Done(way, n)' <=> Done(way, n))
    BY <1>1 DEF Done, Listed, Wanted
  <2>4. ASSUME NEW k \in 1 .. n, k <= Len(stack), OnWay(at, stack[k].path, way)
        PROVE  ProgressAt(k, way, n)'
    <3>1. k \in 1 .. Len(stack) /\ stack'[k] = stack[k]
      BY <1>5, <2>1, <2>4
    <3>2. Entering(k, way)' <=> Entering(k, way)
      <4>1. k < Len(stack) => stack'[k + 1] = stack[k + 1]
        BY <1>5, <3>1
      <4>2. k = Len(stack) => stack'[k + 1].path = opening
        BY <1>4, <1>5
      <4>3. k < Len(stack') /\ (k < Len(stack) \/ k = Len(stack))
        BY <1>5, <3>1
      <4>4. QED
        BY <1>1, <4>1, <4>2, <4>3 DEF Entering
    <3>3. ProgressAt(k, way, n)
      BY <2>2, <2>4 DEF Progress
    <3>4. QED
      BY <1>1, <2>3, <3>1, <3>2, <3>3 DEF ProgressAt
  <2>5. ASSUME NEW K \in 1 .. n, K = Len(stack) + 1, OnWay(at, opening, way)
        PROVE  ProgressAt(K, way, n)'
    <3>1. K - 1 = Len(opening) /\ Len(opening) < n /\ Len(opening) <= n
      BY <1>3, <1>5, <2>1, <2>5
    <3>2. d = way[K - 1]
      BY <1>2, <1>3, <1>7, <2>1, <2>2, <2>5, <3>1, LeadsAlong
    <3>3. way[K] \in Present(at) /\ at[way[K]].dir = d
      BY <2>2, <3>1, <3>2 DEF StillWays
    <3>4. Entry(way[K], at[way[K]]) \in EntriesOf(d)
      BY <3>3 DEF EntriesOf
    <3>5. Listed(way, n) = {}
      BY <1>1, <2>2, <2>5, <3>1 DEF Progress
    <3>6. ~Entering(K, way)'
      BY <1>1, <1>5, <2>5 DEF Entering
    <3>7. stack'[K].dir = d /\ stack'[K].owed = EntriesOf(d)
      BY <1>4, <1>5, <2>5
    <3>8. QED
      BY <1>1, <2>3, <3>2, <3>4, <3>5, <3>6, <3>7 DEF ProgressAt
  <2>6. ASSUME NEW k \in 1 .. n, k <= Len(stack'), OnWay(at', stack'[k].path, way)
        PROVE  ProgressAt(k, way, n)'
    <3>1. CASE k <= Len(stack)
      <4>1. stack'[k] = stack[k]
        BY <1>5, <2>1, <3>1
      <4>2. QED
        BY <1>1, <2>4, <2>6, <3>1, <4>1
    <3>2. CASE k = Len(stack) + 1
      <4>1. stack'[k].path = opening
        BY <1>4, <1>5, <3>2
      <4>2. QED
        BY <1>1, <2>5, <2>6, <3>2, <4>1
    <3>3. k <= Len(stack) \/ k = Len(stack) + 1
      BY <1>5, <2>1, <2>6
    <3>4. QED
      BY <3>1, <3>2, <3>3
  <2>7. QED
    BY <1>1, <2>6 DEF Progress
<1>11. QED
  BY <1>7, <1>8, <1>9, <1>10 DEF ListInv, AllProgress

\* An entry is taken from a stream.
LEMMA TakeChange ==
  ASSUME StreamInv, pc = "read", NEW e \in Top.may, Take(e)
  PROVE  /\ Len(stack') = Len(stack) /\ DOMAIN stack' = DOMAIN stack
         /\ \A k \in DOMAIN stack : stack'[k].path = stack[k].path /\ stack'[k].dir = stack[k].dir
         /\ \A k \in DOMAIN stack : k # Len(stack) => stack'[k] = stack[k]
         /\ stack'[Len(stack)].owed = Top.owed \ {e} /\ stack'[Len(stack)].may = Top.may \ {e}
<1>1. /\ Len(stack) \in Nat /\ Len(stack) >= 1 /\ DOMAIN stack = 1 .. Len(stack)
      /\ \A k \in 1 .. Len(stack) : stack[k] \in Levels
      /\ Top = stack[Len(stack)] /\ Top \in Levels
  BY TopTyped
<1>2. stack' = [stack EXCEPT ![Len(stack)] = [Top EXCEPT !.owed = @ \ {e}, !.may = @ \ {e}]]
  BY <1>1 DEF Take
<1>3. /\ DOMAIN stack' = DOMAIN stack /\ Len(stack') = Len(stack)
      /\ \A k \in DOMAIN stack : k # Len(stack) => stack'[k] = stack[k]
      /\ stack'[Len(stack)] = [Top EXCEPT !.owed = @ \ {e}, !.may = @ \ {e}]
  BY <1>1, <1>2
<1>4. /\ stack'[Len(stack)].path = Top.path /\ stack'[Len(stack)].dir = Top.dir
      /\ stack'[Len(stack)].owed = Top.owed \ {e} /\ stack'[Len(stack)].may = Top.may \ {e}
  BY <1>1, <1>3 DEF Levels
<1>5. QED
  BY <1>1, <1>3, <1>4

\* An entry that is not on a way leaves what is known of the way as it was; one that is
\* on it is the one that the stream had still to return, and is listed if it is the end
\* and wanted, or else entered if the end may be wanted.
LEMMA ReaddirList == ASSUME Inv, Readdir PROVE ListInv'
<1>1. PICK e \in Top.may :
        /\ pc = "read" /\ Take(e)
        /\ files' = IF IF e.node \in Dirs THEN filter # 1 ELSE filter # 2
                    THEN Append(files, FullPath(e)) ELSE files
        /\ IF e.node \in Dirs /\ recursive THEN pc' = "open" /\ opening' = FullPath(e)
           ELSE UNCHANGED <<pc, opening>>
        /\ UNCHANGED <<at, recursive, filter, moved, broken>>
  BY NodesAssumption DEF Readdir, ReadDirectory, ReadFile, List, Descends, treeVars, history
<1>2. StreamInv /\ at \in [Nodes -> Places] /\ stack \in Seq(Levels) /\ files \in Seq(Paths)
  BY DEF Inv, StreamInv, TypeOK
<1>3. PICK K \in Nat, q \in Paths : K = Len(stack) /\ K >= 1 /\ q = FullPath(e) /\ Len(q) = K
  <2>1. /\ Len(stack) \in Nat /\ Len(stack) >= 1
        /\ FullPath(e) \in Paths /\ Len(FullPath(e)) = Len(stack)
    BY <1>1, <1>2, TopTyped
  <2>2. QED
    BY <2>1
<1>4. DOMAIN stack = 1 .. K /\ Top = stack[K] /\ Top \in Levels /\ e.name \in Names
  BY <1>1, <1>2, <1>3, TopTyped
<1>5. q[K] = e.name /\ \A j \in 1 .. K - 1 : q[j] = Top.path[j]
  <2>1. Top.path \in Seq(Names)
    BY <1>4 DEF Levels, Paths
  <2>2. /\ q[Len(Top.path) + 1] = e.name /\ \A j \in 1 .. Len(Top.path) : q[j] = Top.path[j]
        /\ Len(q) = Len(Top.path) + 1 /\ Len(Top.path) \in Nat
    BY <1>3, <1>4, <2>1, AppendProperties, LenProperties DEF FullPath
  <2>3. K = Len(Top.path) + 1 /\ K - 1 = Len(Top.path)
    BY <1>3, <2>2
  <2>4. QED
    BY <2>2, <2>3
<1>6. /\ Len(stack') = K /\ DOMAIN stack' = 1 .. K
      /\ \A k \in 1 .. K : stack'[k].path = stack[k].path /\ stack'[k].dir = stack[k].dir
      /\ \A k \in 1 .. K : k # K => stack'[k] = stack[k]
      /\ stack'[K].owed = Top.owed \ {e} /\ stack'[K].may = Top.may \ {e}
  BY <1>1, <1>2, <1>3, <1>4, TakeChange
<1>7. \A k \in 1 .. K : stack'[k].owed \subseteq stack[k].owed /\ stack'[k].may \subseteq stack[k].may
  BY <1>3, <1>4, <1>6
<1>8. /\ Len(files) \in Nat /\ DOMAIN files = 1 .. Len(files)
      /\ \/ files' = files
         \/ /\ DOMAIN files' = 1 .. Len(files) + 1
            /\ \A j \in 1 .. Len(files) : files'[j] = files[j]
            /\ files'[Len(files) + 1] = q
  <2>1. files' = files \/ files' = Append(files, q)
    BY <1>1, <1>3
  <2>2. QED
    BY <1>2, <1>4, <2>1, AppendProperties, LenProperties
<1>9. OnlyOne'
  BY <1>1 DEF Inv, ListInv, OnlyOne
<1>10. StreamsOK'
  <2>1. ASSUME NEW k \in 1 .. K
        PROVE  /\ stack[k].owed \subseteq stack[k].may
               /\ \A f \in stack[k].may, j \in Nodes \ moved : at[j] = Place(stack[k].dir, f.name) => f.node = j
    BY <1>3, <1>4 DEF Inv, ListInv, StreamsOK
  <2>2. \A k \in 1 .. K : stack'[k].owed \subseteq stack'[k].may
    BY <1>3, <1>4, <1>6, <2>1
  <2>3. QED
    BY <1>1, <1>6, <1>7, <2>1, <2>2 DEF StreamsOK
<1>11. \A k \in 1 .. K : Begins(stack[k].path, q) /\ Len(stack[k].path) = k - 1
  <2> SUFFICES ASSUME NEW k \in 1 .. K
               PROVE  Begins(stack[k].path, q) /\ Len(stack[k].path) = k - 1
    OBVIOUS
  <2>1. Begins(stack[k].path, Top.path) /\ Len(stack[k].path) = k - 1
    <3>1. k \in DOMAIN stack /\ K \in k .. Len(stack)
      BY <1>3, <1>4
    <3>2. QED
      BY <1>4, <3>1 DEF Inv, StreamInv, LevelsOK, ListInv, Nested
  <2>2. 1 .. k - 1 \subseteq 1 .. K - 1
    BY <1>3, <1>4
  <2>3. QED
    BY <1>5, <2>1, <2>2 DEF Begins
<1>12. Nested'
  <2>1. \A k \in 1 .. K : \A m \in k .. K : Begins(stack'[k].path, stack'[m].path)
    <3>1. \A k \in 1 .. K : \A m \in k .. K : Begins(stack[k].path, stack[m].path) /\ m \in 1 .. K
      BY <1>3, <1>4 DEF Inv, ListInv, Nested
    <3>2. QED
      BY <1>6, <3>1
  <2>2. pc' = "open" => recursive /\ opening' = q
    BY <1>1, <1>3
  <2>3. ~recursive => K <= 1
    BY <1>4 DEF Inv, ListInv, Nested
  <2>4. QED
    BY <1>1, <1>6, <1>11, <2>1, <2>2, <2>3 DEF Nested
<1>13. ASSUME ~broken', NEW n \in Depths, NEW way \in StillWays(n)'
       PROVE  Progress(way, n)'
  <2>1. n \in Nat /\ n >= 1 /\ n \in 1 .. n
    BY DepthsTyped
  <2>2. way \in StillWays(n) /\ Progress(way, n)
    <3>1. way \in StillWays(n)
      BY <1>1 DEF StillWays
    <3>2. QED
      BY <1>1, <1>13, <3>1 DEF Inv, ListInv, AllProgress
  <2>3. \A k \in 1 .. n :
          /\ way[k] \in Nodes \ moved /\ at[way[k]] # Nowhere /\ way[k - 1] \in Dirs \cup {Root}
          /\ at[way[k]].name \in Names /\ at[way[k]] = Place(way[k - 1], at[way[k]].name)
          /\ at[way[k]].dir = way[k - 1]
    <3>1. \A k \in 1 .. n :
            /\ way[k] \in Nodes \ moved /\ at[way[k]] # Nowhere /\ way[k - 1] \in Dirs \cup {Root}
            /\ at[way[k]].name \in Names /\ at[way[k]] = Place(way[k - 1], at[way[k]].name)
      BY <1>2, <2>1, <2>2, OnStillWay
    <3>2. QED
      BY <2>2, <3>1 DEF StillWays
  <2>4. Wanted(way[n])' <=> Wanted(way[n])
    BY <1>1 DEF Wanted
  <2>5. K # n \/ ~OnWay(at, q, way) => Listed(way, n)' = Listed(way, n)
    <3>1. ~(Len(q) = n /\ OnWay(at, q, way)) => Listed(way, n)' = Listed(way, n)
      <4>1. CASE files' = files
        BY <1>1, <4>1 DEF Listed
      <4>2. CASE /\ DOMAIN files' = 1 .. Len(files) + 1
                 /\ \A j \in 1 .. Len(files) : files'[j] = files[j]
                 /\ files'[Len(files) + 1] = q
        <5>1. \A j \in DOMAIN files' : j \in DOMAIN files \/ files'[j] = q
          BY <1>8, <4>2
        <5>2. \A j \in DOMAIN files : j \in DOMAIN files' /\ files'[j] = files[j]
          BY <1>8, <4>2
        <5>3. QED
          BY <1>1, <5>1, <5>2 DEF Listed
      <4>3. QED
        BY <1>8, <4>1, <4>2
    <3>2. QED
      BY <1>3, <3>1
  <2>6. CASE ~(K <= n /\ OnWay(at, q, way))
    <3>1. Listed(way, n)' = Listed(way, n) /\ (Done(way, n)' <=> Done(way, n))
      <4>1. Listed(way, n)' = Listed(way, n)
        BY <1>3, <1>4, <2>1, <2>5, <2>6
      <4>2. QED
        <5>1. files' = files \/ DOMAIN files \subseteq DOMAIN files'
          BY <1>8
        <5>2. Listed(way, n) \subseteq DOMAIN files
          BY DEF Listed
        <5>3. (\E k \in DOMAIN files' : Listed(way, n) = {k}) <=> (\E k \in DOMAIN files : Listed(way, n) = {k})
          BY <5>1, <5>2
        <5>4. QED
          BY <2>4, <4>1, <5>3 DEF Done
    <3>2. ASSUME NEW k \in 1 .. n, k <= K PROVE Entering(k, way)' <=> Entering(k, way)
      <4>1. k < K => k + 1 \in 1 .. K
        BY <1>3, <1>4, <3>2
      <4>2. ~(pc' = "open" /\ k = K /\ OnWay(at, opening', way))
        BY <1>1, <1>3, <2>6, <3>2
      <4>3. QED
        BY <1>1, <1>4, <1>6, <4>1, <4>2 DEF Entering
    <3>3. ASSUME NEW k \in 1 .. n, k <= K, OnWay(at, stack[k].path, way)
          PROVE  ProgressAt(k, way, n)'
      <4> DEFINE f == Entry(way[k], at[way[k]])
      <4>1. ProgressAt(k, way, n) /\ k \in 1 .. K
        BY <1>3, <1>4, <2>1, <2>2, <3>3 DEF Progress
      <4>2. k = K => f # e
        <5>1. ASSUME k = K, f = e PROVE OnWay(at, q, way)
          <6>1. q[K] = at[way[K]].name
            BY <1>5, <5>1 DEF Entry
          <6>2. \A j \in 1 .. K - 1 : q[j] = at[way[j]].name
            <7>1. OnWay(at, Top.path, way) /\ Len(Top.path) = K - 1
              BY <1>3, <1>4, <1>11, <3>3, <5>1
            <7>2. QED
              BY <1>5, <7>1 DEF OnWay
          <6>3. \A j \in 1 .. Len(q) : j \in 1 .. K - 1 \/ j = K
            BY <1>3, <1>4
          <6>4. QED
            BY <6>1, <6>2, <6>3 DEF OnWay
        <5>2. QED
          BY <2>1, <2>6, <3>3, <5>1
      <4>3. (f \in stack[k].owed => f \in stack'[k].owed) /\ (f \notin stack[k].may => f \notin stack'[k].may)
        BY <1>3, <1>4, <1>6, <4>1, <4>2
      <4>4. f = Entry(way[k], at'[way[k]])
        BY <1>1
      <4>5. /\ stack[k].dir = way[k - 1]
            /\ \/ f \in stack[k].owed /\ Listed(way, n) = {} /\ ~Entering(k, way)
               \/ f \notin stack[k].may /\ (k = n \/ ~Entering(k, way) => Done(way, n))
        BY <4>1 DEF ProgressAt
      <4> HIDE DEF f
      <4>6. stack'[k].dir = stack[k].dir
        BY <1>6, <4>1
      <4>7. QED
        BY <3>1, <3>2, <3>3, <4>3, <4>4, <4>5, <4>6 DEF ProgressAt
    <3>4. ASSUME NEW k \in 1 .. n, k <= Len(stack'), OnWay(at', stack'[k].path, way)
          PROVE  ProgressAt(k, way, n)'
      <4>1. k \in 1 .. K /\ k <= K
        BY <1>3, <1>4, <1>6, <2>1, <3>4
      <4>2. QED
        BY <1>1, <1>6, <3>3, <3>4, <4>1
    <3>5. pc' = "open" => opening' = q /\ Len(q) = K
      BY <1>1, <1>3, <1>4
    <3>6. pc' # "returned" /\ (K < n => K <= n)
      BY <1>1, <1>3, <1>4, <2>1
    <3>7. QED
      BY <1>1, <2>6, <3>4, <3>5, <3>6 DEF Progress
  <2>7. CASE K <= n /\ OnWay(at, q, way)
    <3>1. K \in 1 .. n /\ Len(q) = K /\ K \in 1 .. K
      BY <1>3, <1>4, <2>1, <2>7
    <3>2. \A k \in 1 .. K : OnWay(at, stack[k].path, way)
      <4> SUFFICES ASSUME NEW k \in 1 .. K, NEW j \in 1 .. k - 1
                   PROVE  stack[k].path[j] = at[way[j]].name
        BY <1>11 DEF OnWay
      <4>1. j \in 1 .. Len(stack[k].path) /\ j \in 1 .. Len(q)
        BY <1>3, <1>4, <1>11, <3>1
      <4>2. QED
        BY <1>11, <2>7, <4>1 DEF OnWay, Begins
    <3>3. \A k \in 1 .. K : ProgressAt(k, way, n)
      <4>1. \A k \in 1 .. K : k \in 1 .. n /\ k <= K
        BY <2>1, <3>1
      <4>2. QED
        BY <1>3, <2>2, <3>2, <4>1 DEF Progress
    <3>4. e = Entry(way[K], at[way[K]])
      <4>1. Top.dir = way[K - 1] /\ e.name = at[way[K]].name
        BY <1>3, <1>4, <1>5, <2>7, <3>1, <3>3 DEF ProgressAt, OnWay
      <4>2. at[way[K]] = Place(Top.dir, e.name) /\ way[K] \in Nodes \ moved
        BY <2>3, <3>1, <4>1
      <4>3. e.node = way[K]
        BY <1>3, <1>4, <3>1, <4>2 DEF Inv, ListInv, StreamsOK
      <4>4. e \in Entries
        BY <1>4 DEF Levels
      <4>5. QED
        BY <4>1, <4>3, <4>4 DEF Entries, Entry
    <3>5. Listed(way, n) = {}
      BY <1>3, <1>4, <3>1, <3>3, <3>4 DEF ProgressAt
    <3>6. ASSUME NEW k \in 1 .. K, k # K PROVE ProgressAt(k, way, n)'
      <4>1. k < K /\ k < Len(stack) /\ k + 1 \in 1 .. K /\ k # n
        BY <1>3, <1>4, <3>1, <3>6
      <4>2. Entering(k, way) /\ Entering(k, way)'
        BY <1>1, <1>6, <3>2, <4>1 DEF Entering
      <4>3. stack'[k] = stack[k]
        BY <1>6, <3>6
      <4>4. ProgressAt(k, way, n)
        BY <3>3
      <4>5. QED
        BY <1>1, <4>1, <4>2, <4>3, <4>4 DEF ProgressAt
    <3>7. K = n => Done(way, n)'
      <4> SUFFICES ASSUME K = n PROVE Done(way, n)'
        OBVIOUS
      <4>1. e.node = way[n] /\ at[way[n]].dir = way[n - 1]
        BY <2>1, <2>3, <3>4 DEF Entry
      <4>2. recursive \/ at[way[n]].dir = Root
        <5>1. ~recursive => K <= 1
          BY <1>4 DEF Inv, ListInv, Nested
        <5>2. ~recursive => n - 1 = 0
          BY <2>1, <5>1
        <5>3. way[0] = Root
          BY <2>2 DEF StillWays
        <5>4. QED
          BY <4>1, <5>2, <5>3
      <4>3. Wanted(way[n]) <=> IF e.node \in Dirs THEN filter # 1 ELSE filter # 2
        BY <4>1, <4>2 DEF Wanted
      <4>4. CASE Wanted(way[n])
        <5>1. files' = Append(files, q)
          BY <1>1, <1>3, <4>3, <4>4
        <5>2. /\ DOMAIN files' = 1 .. Len(files) + 1
              /\ \A j \in 1 .. Len(files) : files'[j] = files[j]
              /\ files'[Len(files) + 1] = q
          BY <1>2, <1>3, <1>4, <5>1, AppendProperties, LenProperties
        <5>3. Len(files) + 1 \in DOMAIN files' /\ \A j \in DOMAIN files' : j = Len(files) + 1 \/ j \in DOMAIN files
          BY <1>8, <5>2
        <5>4. \A j \in DOMAIN files : ~(Len(files'[j]) = n /\ OnWay(at, files'[j], way))
          BY <1>8, <3>5, <5>2 DEF Listed
        <5>5. Listed(way, n)' = {Len(files) + 1}
          BY <1>1, <2>7, <3>1, <5>2, <5>3, <5>4 DEF Listed
        <5>6. QED
          BY <2>4, <4>4, <5>3, <5>5 DEF Done
      <4>5. CASE ~Wanted(way[n])
        <5>1. files' = files
          BY <1>1, <4>3, <4>5
        <5>2. Listed(way, n)' = {}
          BY <1>1, <3>5, <5>1 DEF Listed
        <5>3. QED
          BY <2>4, <4>5, <5>2 DEF Done
      <4>6. QED
        BY <4>4, <4>5
    <3>8. K # n => Listed(way, n)' = {}
      BY <2>5, <3>5
    <3>9. K # n /\ ~Entering(K, way)' => Done(way, n)'
      <4> SUFFICES ASSUME K # n, ~Entering(K, way)' PROVE Done(way, n)'
        OBVIOUS
      <4>1. K + 1 \in 1 .. n /\ K + 1 - 1 = K /\ n - 1 \in 1 .. n
        BY <1>3, <1>4, <2>1, <3>1
      <4>2. way[K] \in Dirs
        BY <2>3, <3>1, <4>1, NodesAssumption DEF Nodes
      <4>3. e.node \in Dirs
        BY <3>4, <4>2 DEF Entry
      <4>4. ~recursive
        <5>1. recursive => pc' = "open" /\ opening' = q
          BY <1>1, <1>3, <4>3
        <5>2. QED
          BY <1>1, <1>6, <2>7, <5>1 DEF Entering
      <4>5. at[way[n]].dir # Root
        BY <2>1, <2>3, <4>1, NodesAssumption DEF Nodes
      <4>6. QED
        BY <2>4, <3>8, <4>4, <4>5 DEF Done, Wanted
    <3>10. ProgressAt(K, way, n)'
      <4>1. stack'[K].dir = way[K - 1] /\ e \notin stack'[K].may /\ e = Entry(way[K], at'[way[K]])
        <5>1. stack[K].dir = way[K - 1]
          BY <3>1, <3>3 DEF ProgressAt
        <5>2. QED
          BY <1>1, <1>6, <3>1, <3>4, <5>1
      <4>2. QED
        BY <3>7, <3>9, <4>1 DEF ProgressAt
    <3>11. \A k \in 1 .. n : k <= Len(stack') => k \in 1 .. K
      BY <1>3, <1>4, <1>6
    <3>12. pc' = "open" => opening' = q
      BY <1>1, <1>3
    <3>13. pc' # "returned"
      BY <1>1
    <3>14. pc' = "open" /\ Len(opening') < n => Listed(way, n)' = {}
      BY <2>1, <3>1, <3>8, <3>12
    <3>15. QED
      BY <3>6, <3>10, <3>11, <3>13, <3>14 DEF Progress
  <2>8. QED
    BY <2>6, <2>7
<1>14. QED
  BY <1>9, <1>10, <1>12, <1>13 DEF ListInv, AllProgress

\* A level that ends has returned everything it had to, and so what is below it on a way
\* is done with.
LEMMA ClosedirList == ASSUME Inv, EndOfDirectory \/ ReaddirFails PROVE ListInv'
<1>1. /\ pc = "read" /\ stack' = Front(stack)
      /\ pc' = IF Len(stack) = 1 THEN "returned" ELSE "read"
      /\ (~broken' => Top.owed = {} /\ ~broken)
      /\ UNCHANGED <<at, recursive, filter, files, moved>>
  BY DEF EndOfDirectory, ReaddirFails, Closedir, treeVars, history
<1>2. StreamInv
  BY DEF Inv
<1>3. PICK K \in Nat : K = Len(stack) /\ K >= 1
  BY <1>1, <1>2, TopTyped
<1>4. DOMAIN stack = 1 .. K /\ Top = stack[K] /\ \A k \in 1 .. K : stack[k] \in Levels
  BY <1>1, <1>2, <1>3, TopTyped
<1>5. Len(stack') = K - 1 /\ DOMAIN stack' = 1 .. K - 1 /\ \A k \in 1 .. K - 1 : stack'[k] = stack[k]
  <2>1. stack' = SubSeq(stack, 1, K - 1)
    BY <1>1, <1>3 DEF Front
  <2>2. QED
    BY <1>3, <2>1
<1>6. OnlyOne'
  BY <1>1 DEF Inv, ListInv, OnlyOne
<1>7. StreamsOK'
  BY <1>1, <1>4, <1>5 DEF Inv, ListInv, StreamsOK
<1>8. Nested'
  <2>1. \A k \in 1 .. K - 1 : \A m \in k .. K - 1 : Begins(stack'[k].path, stack'[m].path)
    <3>1. \A k \in 1 .. K - 1 : \A m \in k .. K - 1 :
            k \in 1 .. K /\ m \in k .. K /\ m \in 1 .. K - 1
      BY <1>3
    <3>2. \A k \in 1 .. K : \A m \in k .. K : Begins(stack[k].path, stack[m].path)
      BY <1>3, <1>4 DEF Inv, ListInv, Nested
    <3>3. QED
      BY <1>5, <3>1, <3>2
  <2>2. ~recursive => K - 1 <= 1
    BY <1>3 DEF Inv, ListInv, Nested
  <2>3. QED
    BY <1>1, <1>5, <2>1, <2>2 DEF Nested
<1>9. ASSUME ~broken', NEW n \in Depths, NEW way \in StillWays(n)'
      PROVE  Progress(way, n)'
  <2>1. n \in Nat /\ n >= 1 /\ n \in 1 .. n
    BY DepthsTyped
  <2>2. way \in StillWays(n) /\ Progress(way, n)
    <3>1. way \in StillWays(n)
      BY <1>1 DEF StillWays
    <3>2. QED
      BY <1>1, <1>9, <3>1 DEF Inv, ListInv, AllProgress
  <2>3. Listed(way, n)' = Listed(way, n) /\ (Done(way, n)' <=> Done(way, n))
    BY <1>1 DEF Done, Listed, Wanted
  <2>4. K <= n /\ OnWay(at, Top.path, way) => Done(way, n)
    <3> SUFFICES ASSUME K <= n, OnWay(at, Top.path, way) PROVE Done(way, n)
      OBVIOUS
    <3>1. K \in 1 .. n /\ K <= K
      BY <1>3, <2>1
    <3>2. ProgressAt(K, way, n)
      BY <1>3, <1>4, <2>2, <3>1 DEF Progress
    <3>3. ~Entering(K, way)
      BY <1>1, <1>3 DEF Entering
    <3>4. QED
      BY <1>1, <1>4, <1>9, <3>2, <3>3 DEF ProgressAt
  <2>5. ASSUME NEW k \in 1 .. n, k \in 1 .. K - 1, OnWay(at, stack[k].path, way)
        PROVE  ProgressAt(k, way, n)'
    <3>1. k \in 1 .. K /\ k <= K /\ k < K
      BY <1>3, <2>5
    <3>2. ProgressAt(k, way, n)
      BY <1>3, <2>2, <2>5, <3>1 DEF Progress
    <3>3. stack'[k] = stack[k]
      BY <1>5, <2>5
    <3>4. CASE k # K - 1
      <4>1. k + 1 \in 1 .. K - 1 /\ k < K - 1
        BY <1>3, <2>5, <3>4
      <4>2. stack'[k + 1] = stack[k + 1]
        BY <1>5, <4>1
      <4>3. Entering(k, way)' <=> Entering(k, way)
        BY <1>1, <1>3, <1>5, <3>1, <4>1, <4>2 DEF Entering
      <4>4. QED
        BY <1>1, <2>3, <3>2, <3>3, <4>3 DEF ProgressAt
    <3>5. CASE k = K - 1
      <4>1. ~Entering(k, way)'
        BY <1>1, <1>5, <3>5 DEF Entering
      <4>2. k + 1 = K /\ (k # n => K <= n)
        BY <1>3, <2>1, <2>5, <3>5
      <4>3. Entering(k, way) => OnWay(at, Top.path, way)
        BY <1>1, <1>4, <4>2 DEF Entering
      <4>4. k # n /\ Entering(k, way) => Done(way, n)
        BY <2>4, <4>2, <4>3
      <4>5. QED
        BY <1>1, <2>3, <3>2, <3>3, <4>1, <4>4 DEF ProgressAt
    <3>6. QED
      BY <3>4, <3>5
  <2>6. ASSUME NEW k \in 1 .. n, k <= Len(stack'), OnWay(at', stack'[k].path, way)
        PROVE  ProgressAt(k, way, n)'
    <3>1. k \in 1 .. K - 1
      BY <1>3, <1>5, <2>1, <2>6
    <3>2. QED
      BY <1>1, <1>5, <2>5, <2>6, <3>1
  <2>7. pc' = "returned" => Done(way, n)'
    <3> SUFFICES ASSUME K = 1 PROVE Done(way, n)
      BY <1>1, <1>3, <2>3
    <3>1. Len(Top.path) = 0
      <4>1. 1 \in DOMAIN stack /\ 1 - 1 = 0
        BY <1>3, <1>4
      <4>2. QED
        BY <1>4, <4>1 DEF Inv, StreamInv, LevelsOK
    <3>2. OnWay(at, Top.path, way)
      BY <3>1 DEF OnWay
    <3>3. QED
      BY <2>1, <2>4, <3>2
  <2>8. pc' # "open"
    BY <1>1
  <2>9. QED
    BY <2>6, <2>7, <2>8 DEF Progress
<1>10. QED
  BY <1>6, <1>7, <1>8, <1>9 DEF ListInv, AllProgress

\* What a failed call has listed does not matter.
LEMMA OpendirFailsList == ASSUME Inv, OpendirFails PROVE ListInv'
<1>1. pc' = "threw" /\ stack' = <<>> /\ at' = at
  BY DEF OpendirFails, treeVars
<1>2. DOMAIN stack' = {} /\ Len(stack') = 0
  BY <1>1
<1>3. OnlyOne' /\ StreamsOK' /\ Nested'
  BY <1>1, <1>2 DEF Inv, ListInv, OnlyOne, StreamsOK, Nested
<1>4. ASSUME NEW n \in Depths, NEW way PROVE Progress(way, n)'
  <2>1. \A k \in 1 .. n : ~(k <= Len(stack'))
    BY <1>2, DepthsTyped
  <2>2. QED
    BY <1>1, <2>1 DEF Progress
<1>5. QED
  BY <1>3, <1>4 DEF ListInv, AllProgress

\* Nothing is listed at first.
LEMMA InitList == Init => ListInv
<1> SUFFICES ASSUME Init PROVE ListInv
  OBVIOUS
<1>1. DOMAIN stack = {} /\ Len(stack) = 0 /\ pc = "idle"
  BY DEF Init
<1>2. OnlyOne
  BY TreesAssumption DEF Init, OnlyOne, Nodes
<1>3. StreamsOK /\ Nested
  BY <1>1 DEF StreamsOK, Nested
<1>4. ASSUME NEW n \in Depths, NEW way PROVE Progress(way, n)
  <2>1. \A k \in 1 .. n : ~(k <= Len(stack))
    BY <1>1, DepthsTyped
  <2>2. QED
    BY <1>1, <2>1 DEF Progress
<1>5. QED
  BY <1>2, <1>3, <1>4 DEF ListInv, AllProgress

\* Every step preserves what is known of what is listed.
LEMMA NextList == Inv /\ [Next]_vars => ListInv'
<1> SUFFICES ASSUME Inv, [Next]_vars PROVE ListInv'
  OBVIOUS
<1>1. StreamInv'
  BY NextStream DEF Inv
<1>2. CASE Next
  BY <1>1, <1>2, OthersList, CallList, OpendirList, OpendirFailsList, ReaddirList, ClosedirList
     DEF Next, FindFiles
<1>3. CASE UNCHANGED vars
  <2>1. UNCHANGED <<at, pc, recursive, filter, opening, stack, files, moved, broken>>
    BY <1>3 DEF vars, treeVars, callVars, history
  <2>2. OnlyOne' /\ StreamsOK' /\ Nested'
    BY <2>1 DEF Inv, ListInv, OnlyOne, StreamsOK, Nested
  <2>3. ASSUME NEW n, NEW way PROVE way \in StillWays(n)' => way \in StillWays(n)
    BY <2>1 DEF StillWays
  <2>4. ASSUME NEW n, NEW way, Progress(way, n) PROVE Progress(way, n)'
    BY <2>1, <2>4 DEF Progress, ProgressAt, Entering, Done, Listed, Wanted
  <2>5. AllProgress'
    BY <2>1, <2>3, <2>4 DEF Inv, ListInv, AllProgress
  <2>6. QED
    BY <2>2, <2>5 DEF ListInv
<1>4. QED
  BY <1>2, <1>3

\* No name leads anywhere at first, and nothing has been listed.
LEMMA InitPath == Init => PathInv
<1> SUFFICES ASSUME Init PROVE PathInv
  OBVIOUS
<1>1. DOMAIN stack = {} /\ DOMAIN files = {} /\ pc = "idle"
  BY DEF Init
<1>2. QED
  BY <1>1 DEF PathInv, LevelsReal, LevelsStand, Real, ThrowsForCause

\* Every step preserves what is known of paths.
LEMMA NextPath == Inv /\ [Next]_vars => PathInv'
<1> SUFFICES ASSUME Inv, [Next]_vars PROVE PathInv'
  OBVIOUS
<1>1. CASE Next
  BY <1>1, OthersPath, CallPath, OpendirPath, OpendirFailsPath, ReaddirPath, ClosedirPath DEF Next, FindFiles
<1>2. CASE UNCHANGED vars
  BY <1>2 DEF vars, treeVars, callVars, history, Inv, PathInv, LevelsReal, LevelReal,
              LevelsStand, LevelStands, Real, ThrowsForCause
<1>3. QED
  BY <1>1, <1>2

-----------------------------------------------------------------------------

\* However deep the tree, whatever others do to it, and wherever a directory cannot be
\* opened or read: a call that returns has closed every stream it opened, and one that
\* throws leaves open those of the directories above, one for each name of the path it
\* could not open (common.cpp:156, 167 and 171).  What its paths lead to, and how much has
\* been listed of each way that nobody touches, is known.
THEOREM Invariance == Spec => []Inv
<1>1. Init => Inv
  BY InitStream, InitPath, InitList DEF Inv
<1>2. Inv /\ [Next]_vars => Inv'
  <2>1. Inv /\ [Next]_vars => StreamInv'
    BY NextStream DEF Inv
  <2>2. Inv /\ [Next]_vars => PathInv'
    BY NextPath
  <2>3. Inv /\ [Next]_vars => ListInv'
    BY NextList
  <2>4. QED
    BY <2>1, <2>2, <2>3 DEF Inv
<1>3. QED
  BY <1>1, <1>2, PTL DEF Spec

\* What is listed was there, under the path listed, at some moment of the call, and of
\* the kind asked for, unless a directory was renamed (common.cpp:148).
THEOREM RealHolds == Spec => []Real
<1>1. Inv => Real
  BY DEF Inv, PathInv
<1>2. QED
  BY <1>1, Invariance, PTL

\* A listing that the system refuses nothing throws for want of streams, or because a
\* directory below was moved or removed meanwhile (common.cpp:139 and 169).
THEOREM ThrowsForCauseHolds == Spec => []ThrowsForCause
<1>1. Inv => ThrowsForCause
  BY DEF Inv, PathInv
<1>2. QED
  BY <1>1, Invariance, PTL
\* However others change the tree meanwhile, a call that returns, and to which no read of
\* a directory failed, has listed once and only once whatever stayed in place and is of
\* the kind asked for, at any depth, and nothing else that stayed in place
\* (common.cpp:141-165).
THEOREM CompleteHolds == Spec => []Complete
<1>1. Inv => Complete
  <2> SUFFICES ASSUME Inv, pc = "returned", ~broken, NEW i \in Still
               PROVE  Times(i) = IF Wanted(i) THEN 1 ELSE 0
    BY DEF Complete
  <2>1. PICK n \in Depths : \E way \in StillWays(n) : i = way[n]
    BY DEF Still
  <2>2. PICK way \in StillWays(n) : i = way[n]
    BY <2>1
  <2>3. n \in Nat
    BY DepthsTyped
  <2>4. Done(way, n)
    BY <2>2 DEF Inv, ListInv, AllProgress, Progress
  <2>5. at \in [Nodes -> Places] /\ \A k \in DOMAIN files : files[k] \in Paths
    <3>1. at \in [Nodes -> Places] /\ files \in Seq(Paths)
      BY DEF Inv, StreamInv, TypeOK
    <3>2. DOMAIN files = 1 .. Len(files)
      BY <3>1, LenProperties
    <3>3. QED
      BY <3>1, <3>2, ElementOfSeq
  <2>6. \A k \in DOMAIN files : Leads(at, files[k], i) <=> Len(files[k]) = n /\ OnWay(at, files[k], way)
    BY <2>2, <2>3, <2>5, OnlyPath
  <2>7. Times(i) = Cardinality(Listed(way, n))
    BY <2>6 DEF Times, Listed
  <2>8. CASE Wanted(i)
    BY <2>2, <2>4, <2>7, <2>8, FS_Singleton DEF Done
  <2>9. CASE ~Wanted(i)
    BY <2>2, <2>4, <2>7, <2>9, FS_EmptySet DEF Done
  <2>10. QED
    BY <2>8, <2>9
<1>2. QED
  BY <1>1, Invariance, PTL
===============================================================================
