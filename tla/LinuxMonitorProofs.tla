-------------------------- MODULE LinuxMonitorProofs --------------------------
(***************************************************************************)
(* Proofs about LinuxMonitor for any directory names, any bounds and any   *)
(* sizes of the kernel's queue and of the read buffer: the types and what  *)
(* the reader relies on (BaseInv), the implementation of ChangeFeed, and   *)
(* that a monitor which has caught up watches the whole tree under its     *)
(* present paths (CoverInv).                                               *)
(***************************************************************************)
EXTENDS LinuxMonitor, SequenceTheorems, FiniteSetTheorems, TLAPS

-----------------------------------------------------------------------------
(* Sequences.                                                               *)

\* A prefix, element by element.
LEMMA PrefixElements ==
  ASSUME NEW S, NEW s \in Seq(S), NEW t \in Seq(S)
  PROVE  IsPrefix(s, t) <=> Len(s) <= Len(t) /\ \A i \in 1 .. Len(s) : s[i] = t[i]
<1>1. SubSeq(s, 1, Len(s)) = s
  BY SubSeqFull
<1>2. ASSUME Len(s) <= Len(t)
      PROVE  /\ SubSeq(t, 1, Len(s)) \in Seq(S)
             /\ Len(SubSeq(t, 1, Len(s))) = Len(s)
             /\ \A i \in 1 .. Len(s) : SubSeq(t, 1, Len(s))[i] = t[i]
  BY <1>2
<1>3. ASSUME Len(s) <= Len(t), \A i \in 1 .. Len(s) : s[i] = t[i]
      PROVE  s = SubSeq(t, 1, Len(s))
  BY <1>2, <1>3, SeqEqual
<1>4. QED
  BY <1>1, <1>2, <1>3 DEF IsPrefix

\* A prefix of a prefix is a prefix.
LEMMA PrefixTransitive ==
  ASSUME NEW S, NEW s \in Seq(S), NEW t \in Seq(S), NEW u \in Seq(S),
         IsPrefix(s, t), IsPrefix(t, u)
  PROVE  IsPrefix(s, u)
<1>1. /\ Len(s) <= Len(t) /\ \A i \in 1 .. Len(s) : s[i] = t[i]
      /\ Len(t) <= Len(u) /\ \A i \in 1 .. Len(t) : t[i] = u[i]
  BY PrefixElements
<1>2. Len(s) \in Nat /\ Len(t) \in Nat /\ Len(u) \in Nat
  BY LenProperties
<1>3. Len(s) <= Len(u) /\ \A i \in 1 .. Len(s) : s[i] = u[i]
  BY <1>1, <1>2
<1>4. QED
  BY <1>3, PrefixElements

\* An element appended to a sequence leaves the sequence as a prefix.
LEMMA PrefixAppend ==
  ASSUME NEW S, NEW s \in Seq(S), NEW e \in S
  PROVE  IsPrefix(s, s) /\ IsPrefix(s, Append(s, e))
<1>1. Len(s) \in Nat /\ Len(s) <= Len(s) /\ \A i \in 1 .. Len(s) : s[i] = s[i]
  BY LenProperties
<1>2. /\ Append(s, e) \in Seq(S)
      /\ Len(s) <= Len(Append(s, e))
      /\ \A i \in 1 .. Len(s) : s[i] = Append(s, e)[i]
  BY <1>1, AppendProperties
<1>3. QED
  BY <1>1, <1>2, PrefixElements

\* A prefix stays one with the same sequence in front of both.
LEMMA PrefixConcat ==
  ASSUME NEW S, NEW b \in Seq(S), NEW s \in Seq(S), NEW t \in Seq(S), IsPrefix(s, t)
  PROVE  IsPrefix(b \o s, b \o t)
<1>1. Len(b) \in Nat /\ Len(s) \in Nat /\ Len(t) \in Nat
  BY LenProperties
<1>2. Len(s) <= Len(t) /\ \A i \in 1 .. Len(s) : s[i] = t[i]
  BY PrefixElements
<1>3. /\ b \o s \in Seq(S) /\ Len(b \o s) = Len(b) + Len(s)
      /\ b \o t \in Seq(S) /\ Len(b \o t) = Len(b) + Len(t)
      /\ \A i \in 1 .. Len(b) + Len(s) :
           (b \o s)[i] = IF i <= Len(b) THEN b[i] ELSE s[i - Len(b)]
      /\ \A i \in 1 .. Len(b) + Len(t) :
           (b \o t)[i] = IF i <= Len(b) THEN b[i] ELSE t[i - Len(b)]
  BY ConcatProperties
<1>4. \A i \in 1 .. Len(b) + Len(s) : (b \o s)[i] = (b \o t)[i]
  BY <1>1, <1>2, <1>3
<1>5. Len(b \o s) <= Len(b \o t) /\ \A i \in 1 .. Len(b \o s) : (b \o s)[i] = (b \o t)[i]
  BY <1>1, <1>2, <1>3, <1>4
<1>6. b \o s \in Seq(S) /\ b \o t \in Seq(S)
  BY <1>3
<1>7. QED
  BY <1>5, <1>6, PrefixElements

\* What is in a sequence after an append.
LEMMA AppendElements ==
  ASSUME NEW S, NEW s \in Seq(S), NEW e \in S
  PROVE  ToSet(Append(s, e)) = ToSet(s) \cup {e}
  BY AppendProperties, LenProperties DEF ToSet

\* The elements of a sequence without its first.
LEMMA TailElements ==
  ASSUME NEW S, NEW s \in Seq(S), s # <<>>
  PROVE  Head(s) \in ToSet(s) /\ ToSet(s) = {Head(s)} \cup ToSet(Tail(s))
<1>1. Len(s) \in Nat /\ Len(s) > 0 /\ DOMAIN s = 1 .. Len(s)
  BY LenProperties, EmptySeq
<1>2. /\ Tail(s) \in Seq(S) /\ Len(Tail(s)) = Len(s) - 1
      /\ DOMAIN Tail(s) = 1 .. Len(s) - 1
      /\ \A i \in 1 .. Len(s) - 1 : Tail(s)[i] = s[i + 1]
  BY <1>1, HeadTailProperties, LenProperties
<1>3. ASSUME NEW i \in 1 .. Len(s) PROVE s[i] = Head(s) \/ s[i] \in ToSet(Tail(s))
  <2>1. CASE i = 1
    BY <2>1
  <2>2. CASE i # 1
    <3>1. i - 1 \in 1 .. Len(s) - 1 /\ (i - 1) + 1 = i
      BY <1>1, <2>2
    <3>2. Tail(s)[i - 1] = s[i]
      BY <1>2, <3>1
    <3>3. QED
      BY <1>2, <3>1, <3>2 DEF ToSet
  <2>3. QED
    BY <2>1, <2>2
<1>4. ASSUME NEW i \in 1 .. Len(s) - 1 PROVE Tail(s)[i] \in ToSet(s)
  BY <1>1, <1>2 DEF ToSet
<1>5. Head(s) \in ToSet(s)
  BY <1>1 DEF ToSet
<1>6. QED
  BY <1>1, <1>2, <1>3, <1>4, <1>5 DEF ToSet

\* The elements of two sequences in a row.
LEMMA ConcatElements ==
  ASSUME NEW S, NEW s \in Seq(S), NEW t \in Seq(S)
  PROVE  ToSet(s \o t) = ToSet(s) \cup ToSet(t)
<1>1. Len(s) \in Nat /\ Len(t) \in Nat /\ DOMAIN s = 1 .. Len(s) /\ DOMAIN t = 1 .. Len(t)
  BY LenProperties
<1>2. /\ DOMAIN (s \o t) = 1 .. Len(s) + Len(t)
      /\ \A i \in 1 .. Len(s) + Len(t) :
           (s \o t)[i] = IF i <= Len(s) THEN s[i] ELSE t[i - Len(s)]
  BY ConcatProperties, LenProperties
<1>3. ASSUME NEW i \in 1 .. Len(s) PROVE s[i] \in ToSet(s \o t)
  BY <1>1, <1>2 DEF ToSet
<1>4. ASSUME NEW i \in 1 .. Len(t) PROVE t[i] \in ToSet(s \o t)
  <2>1. i + Len(s) \in 1 .. Len(s) + Len(t) /\ (s \o t)[i + Len(s)] = t[i]
    BY <1>1, <1>2
  <2>2. QED
    BY <1>2, <2>1 DEF ToSet
<1>5. ASSUME NEW i \in 1 .. Len(s) + Len(t)
      PROVE  (s \o t)[i] \in ToSet(s) \cup ToSet(t)
  BY <1>1, <1>2 DEF ToSet
<1>6. QED
  BY <1>1, <1>2, <1>3, <1>4, <1>5 DEF ToSet

\* A concatenation without its first element.
LEMMA TailOfConcat ==
  ASSUME NEW S, NEW s \in Seq(S), NEW t \in Seq(S), s # <<>>
  PROVE  /\ s \o t \in Seq(S) /\ Tail(s) \o t \in Seq(S)
         /\ Len(s \o t) = Len(Tail(s) \o t) + 1
         /\ \A i \in 1 .. Len(Tail(s) \o t) : (Tail(s) \o t)[i] = (s \o t)[i + 1]
         /\ (s \o t)[1] = Head(s)
<1>1. Len(s) \in Nat /\ Len(t) \in Nat /\ Len(s) > 0
  BY LenProperties, EmptySeq
<1>2. /\ Tail(s) \in Seq(S) /\ Len(Tail(s)) = Len(s) - 1
      /\ \A i \in 1 .. Len(s) - 1 : Tail(s)[i] = s[i + 1]
      /\ Head(s) = s[1]
  BY HeadTailProperties
<1>3. /\ s \o t \in Seq(S) /\ Len(s \o t) = Len(s) + Len(t)
      /\ \A i \in 1 .. Len(s) + Len(t) :
           (s \o t)[i] = IF i <= Len(s) THEN s[i] ELSE t[i - Len(s)]
  BY ConcatProperties
<1>4. /\ Tail(s) \o t \in Seq(S) /\ Len(Tail(s) \o t) = Len(s) - 1 + Len(t)
      /\ \A i \in 1 .. Len(s) - 1 + Len(t) :
           (Tail(s) \o t)[i] = IF i <= Len(s) - 1 THEN Tail(s)[i] ELSE t[i - (Len(s) - 1)]
  BY <1>1, <1>2, ConcatProperties
<1>5. ASSUME NEW i \in 1 .. Len(s) - 1 + Len(t) PROVE (Tail(s) \o t)[i] = (s \o t)[i + 1]
  <2>1. i \in Nat /\ i + 1 \in 1 .. Len(s) + Len(t) /\ i - (Len(s) - 1) = i + 1 - Len(s)
    BY <1>1
  <2>2. CASE i <= Len(s) - 1
    BY <1>1, <1>2, <1>3, <1>4, <2>1, <2>2
  <2>3. CASE ~(i <= Len(s) - 1)
    BY <1>1, <1>3, <1>4, <2>1, <2>3
  <2>4. QED
    BY <2>2, <2>3
<1>6. QED
  BY <1>1, <1>2, <1>3, <1>4, <1>5

-----------------------------------------------------------------------------
(* The kernel's queue.                                                      *)

\* The queue r is q with events added at its end, each an overflow or the event
\* of one of the directories ds.
QueueGrows(q, r, ds) ==
  /\ r \in Seq(Event)
  /\ IsPrefix(q, r)
  /\ \A e \in ToSet(r) : e \in ToSet(q) \/ e.wd \in {OverflowWd} \cup ds

\* The kernel queues an event, drops it or merges it (Inotify!Push): what was
\* queued stays, and only the overflow marker or the event is new.
LEMMA PushGrows ==
  ASSUME NEW q \in Seq(Event), NEW e \in Event, NEW ds, e.wd \in ds
  PROVE  QueueGrows(q, Push(q, e), ds)
<1>1. Overflow \in Event
  BY DEF Overflow, Event, OverflowWd
<1>2. Push(q, e) \in {q, Append(q, Overflow), Append(q, e)}
  BY DEF Push
<1>3. Overflow.wd = OverflowWd
  BY DEF Overflow
<1>4. QueueGrows(q, q, ds)
  BY <1>1, PrefixAppend DEF QueueGrows
<1>5. QueueGrows(q, Append(q, Overflow), ds)
  BY <1>1, <1>3, PrefixAppend, AppendElements, AppendProperties DEF QueueGrows
<1>6. QueueGrows(q, Append(q, e), ds)
  BY PrefixAppend, AppendElements, AppendProperties DEF QueueGrows
<1>7. QED
  BY <1>2, <1>4, <1>5, <1>6

\* Two events queued one after the other.
LEMMA GrowsTransitive ==
  ASSUME NEW q \in Seq(Event), NEW r, NEW s, NEW ds,
         QueueGrows(q, r, ds), QueueGrows(r, s, ds)
  PROVE  QueueGrows(q, s, ds)
  BY PrefixTransitive DEF QueueGrows

\* Only watched directories have events (Inotify!Notify).
LEMMA NotifyGrows ==
  ASSUME NEW q \in Seq(Event), NEW d, NEW kind \in NamedKinds, NEW n \in Names,
         watched \subseteq Nat
  PROVE  QueueGrows(q, Notify(q, d, kind, n), watched)
<1>1. CASE d \in watched
  <2>1. [wd |-> d, kind |-> kind, name |-> <<n>>] \in Event
    BY <1>1 DEF Event
  <2>2. QED
    BY <1>1, <2>1, PushGrows DEF Notify
<1>2. CASE d \notin watched
  <2>1. Overflow \in Event
    BY DEF Overflow, Event, OverflowWd
  <2>2. QED
    BY <1>2, <2>1, PrefixAppend DEF Notify, QueueGrows
<1>3. QED
  BY <1>1, <1>2

-----------------------------------------------------------------------------
(* Operations of other processes.                                           *)

\* mkdir: the types of the kernel, a queue that only grows, and watches kept.
LEMMA MkdirKernel ==
  ASSUME KernelTypeOK, NEW d \in DOMAIN tree, NEW n \in Names, Mkdir(d, n)
  PROVE  /\ KernelTypeOK' /\ QueueGrows(queue, queue', watched)
         /\ born' = born + 1 /\ watched' = watched
         /\ DOMAIN tree' = DOMAIN tree \cup {born} /\ born \notin DOMAIN tree
         /\ \A x \in DOMAIN tree : tree'[x] = tree[x]
         /\ tree'[born] = Append(tree[d], n)
<1> USE DEF KernelTypeOK
<1>1. /\ born' = born + 1 /\ watched' = watched /\ ops' = ops + 1
      /\ tree' = Put(tree, born, Append(tree[d], n))
      /\ queue' = Notify(queue, d, "create", n)
      /\ watched \subseteq Nat
  BY DEF Mkdir, CountOp
<1>2. QueueGrows(queue, queue', watched)
  BY <1>1, NotifyGrows DEF NamedKinds
<1>3. /\ DOMAIN tree' = DOMAIN tree \cup {born} /\ born \notin DOMAIN tree
      /\ \A x \in DOMAIN tree : tree'[x] = tree[x]
      /\ tree'[born] = Append(tree[d], n)
  BY <1>1 DEF Put
<1>4. Append(tree[d], n) \in Path
  BY AppendProperties DEF Path
<1>5. tree' \in [DOMAIN tree' -> Path]
  BY <1>1, <1>3, <1>4 DEF Put
<1>6. QED
  BY <1>1, <1>2, <1>3, <1>5 DEF QueueGrows

\* rmdir: as for mkdir, but for the watch of the directory removed.
LEMMA RmdirKernel ==
  ASSUME KernelTypeOK, NEW c \in DOMAIN tree, tree[c] # NoPath, Rmdir(c)
  PROVE  /\ KernelTypeOK' /\ QueueGrows(queue, queue', watched)
         /\ born' = born /\ watched' \subseteq watched
         /\ DOMAIN tree' = DOMAIN tree \ {c}
         /\ \A x \in DOMAIN tree' : tree'[x] = tree[x]
<1> USE DEF KernelTypeOK
<1> DEFINE q == Notify(queue, Parent(c), "delete", Last(tree[c]))
<1>1. Last(tree[c]) \in Names /\ watched \subseteq Nat
  BY LenProperties, ElementOfSeq, EmptySeq DEF Last, Path, NoPath
<1>2. QueueGrows(queue, q, watched)
  BY <1>1, NotifyGrows DEF NamedKinds
<1>3. QueueGrows(queue, queue', watched)
  <2>1. CASE c \in watched
    <3>1. Ignored(c) \in Event /\ Ignored(c).wd = c
      BY <2>1 DEF Ignored, Event
    <3>2. QueueGrows(q, Push(q, Ignored(c)), watched)
      BY <1>2, <2>1, <3>1, PushGrows DEF QueueGrows
    <3>3. queue' = Push(q, Ignored(c))
      BY <2>1 DEF Rmdir
    <3>4. QED
      BY <1>2, <3>2, <3>3, GrowsTransitive
  <2>2. CASE c \notin watched
    BY <1>2, <2>2 DEF Rmdir
  <2>3. QED
    BY <2>1, <2>2
<1>4. /\ born' = born /\ ops' = ops + 1 /\ watched' = watched \ {c}
      /\ tree' = [d \in DOMAIN tree \ {c} |-> tree[d]]
  BY DEF Rmdir, CountOp
<1>5. QED
  BY <1>3, <1>4 DEF QueueGrows

\* rename: every path stays a path, and watches follow the directories.
LEMMA RenameKernel ==
  ASSUME KernelTypeOK, NEW c \in DOMAIN tree, NEW d \in DOMAIN tree, NEW n \in Names,
         tree[c] # NoPath, Rename(c, d, n)
  PROVE  /\ KernelTypeOK' /\ QueueGrows(queue, queue', watched)
         /\ born' = born /\ watched' = watched
         /\ DOMAIN tree' = DOMAIN tree
         /\ \A x \in DOMAIN tree \ Subtree(c) : tree'[x] = tree[x]
         /\ \A x \in Subtree(c) : tree'[x] # NoPath
<1> USE DEF KernelTypeOK
<1> DEFINE p == Append(tree[d], n)
           Moved(x) == p \o SubSeq(tree[x], Len(tree[c]) + 1, Len(tree[x]))
           q == Notify(queue, Parent(c), "moved_from", Last(tree[c]))
<1>1. /\ born' = born /\ watched' = watched /\ ops' = ops + 1
      /\ tree' = [x \in DOMAIN tree |-> IF x \in Subtree(c) THEN Moved(x) ELSE tree[x]]
      /\ queue' = Notify(q, d, "moved_to", n)
  BY DEF Rename, CountOp
<1>2. Last(tree[c]) \in Names /\ watched \subseteq Nat
  BY LenProperties, ElementOfSeq, EmptySeq DEF Last, Path, NoPath
<1>3. QueueGrows(queue, q, watched)
  BY <1>2, NotifyGrows DEF NamedKinds
<1>4. QueueGrows(q, queue', watched)
  BY <1>1, <1>2, <1>3, NotifyGrows DEF NamedKinds, QueueGrows
<1>5. QueueGrows(queue, queue', watched)
  BY <1>3, <1>4, GrowsTransitive
<1>6. p \in Path /\ p # NoPath
  BY AppendProperties DEF Path, NoPath
<1>7. ASSUME NEW x \in DOMAIN tree PROVE Moved(x) \in Path /\ Moved(x) # NoPath
  <2>1. Len(tree[c]) \in Nat /\ tree[x] \in Seq(Names) /\ Len(tree[x]) \in Nat
    BY LenProperties DEF Path
  <2>2. SubSeq(tree[x], Len(tree[c]) + 1, Len(tree[x])) \in Seq(Names)
    BY <2>1, SubSeqProperties, ElementOfSeq
  <2>3. QED
    BY <1>6, <2>2, ConcatProperties, ConcatSimplifications DEF Path, NoPath
<1>8. tree' \in [DOMAIN tree' -> Path] /\ DOMAIN tree' = DOMAIN tree
  BY <1>1, <1>7
<1>9. /\ \A x \in DOMAIN tree \ Subtree(c) : tree'[x] = tree[x]
      /\ \A x \in Subtree(c) : tree'[x] # NoPath
  BY <1>1, <1>7 DEF Subtree
<1>10. KernelTypeOK'
  BY <1>1, <1>5, <1>8 DEF QueueGrows
<1>11. QED
  BY <1>1, <1>5, <1>8, <1>9, <1>10

\* A change of a file: one more event of a watched directory.
LEMMA FileEventKernel ==
  ASSUME KernelTypeOK, NEW d \in DOMAIN tree, NEW n \in Names, NEW kind \in FileKinds,
         FileEvent(d, n, kind)
  PROVE  /\ KernelTypeOK' /\ QueueGrows(queue, queue', watched)
         /\ born' = born /\ watched' = watched /\ tree' = tree
<1>1. QueueGrows(queue, queue', watched)
  BY NotifyGrows, FileKindsAssumption DEF FileEvent, KernelTypeOK
<1>2. QED
  BY <1>1 DEF FileEvent, CountOp, KernelTypeOK, QueueGrows

\* What a step of another process leaves true: the tree stays well formed, the
\* queue only grows, and a directory the running watch call works on stays one
\* unless the step says that it disturbed the call.
TreeStep ==
  /\ KernelTypeOK' /\ QueueGrows(queue, queue', watched) /\ watched' \subseteq watched
  /\ born' = born \/ (born' = born + 1 /\ born \in DOMAIN tree')
  /\ \A x \in DOMAIN tree' : x # Outer => tree'[x] # NoPath
  /\ blind' \subseteq 0 .. born' - 1
  /\ disturbed' \in BOOLEAN /\ (disturbed => disturbed')
  /\ ~disturbed' => \A p \in Pending : IsDir(p) => \E x \in DOMAIN tree' : tree'[x] = p

\* A directory created adds its path to the history and moves no other one.
LEMMA MkdirStep ==
  ASSUME BaseInv, NEW d \in DOMAIN tree, NEW n \in Names, Mkdir(d, n),
         NoteArrival(born, {born}, d), UNCHANGED disturbed
  PROVE  TreeStep
<1>1. KernelTypeOK /\ HistoryTypeOK /\ TreeOK
  BY DEF BaseInv, TypeOK
<1>2. /\ KernelTypeOK' /\ QueueGrows(queue, queue', watched)
      /\ born' = born + 1 /\ watched' = watched
      /\ DOMAIN tree' = DOMAIN tree \cup {born} /\ born \notin DOMAIN tree
      /\ \A x \in DOMAIN tree : tree'[x] = tree[x]
      /\ tree'[born] = Append(tree[d], n)
  BY <1>1, MkdirKernel
<1>3. Append(tree[d], n) # NoPath
  BY <1>1, AppendProperties DEF KernelTypeOK, Path, NoPath
<1>4. blind' \subseteq 0 .. born' - 1
  BY <1>1, <1>2 DEF NoteArrival, HistoryTypeOK, KernelTypeOK
<1>5. \A x \in DOMAIN tree' : x # Outer => tree'[x] # NoPath
  BY <1>1, <1>2, <1>3 DEF TreeOK
<1>6. \A p \in Pending : IsDir(p) => \E x \in DOMAIN tree' : tree'[x] = p
  BY <1>2 DEF IsDir, DirAt
<1>7. QED
  BY <1>1, <1>2, <1>4, <1>5, <1>6 DEF TreeStep, HistoryTypeOK

\* A path given to find_files or to inotify_add_watch goes away only in a step
\* that moves or removes it.
LEMMA DepartureStep ==
  ASSUME BaseInv, NEW c \in DOMAIN tree, NoteDeparture(c), ~disturbed',
         NEW p \in Pending, NEW x \in DOMAIN tree, tree[x] = p
  PROVE  x \notin Subtree(c)
  BY DEF NoteDeparture, Subtree, Pending

\* A directory removed is noted when the running watch call works on its path.
LEMMA RmdirStep ==
  ASSUME BaseInv, NEW c \in DOMAIN tree, Rmdir(c), NoteDeparture(c), UNCHANGED blind
  PROVE  TreeStep
<1>1. KernelTypeOK /\ HistoryTypeOK /\ TreeOK
  BY DEF BaseInv, TypeOK
<1>2. c # Outer /\ Subtree(c) = {c}
  BY DEF Rmdir
<1>3. /\ KernelTypeOK' /\ QueueGrows(queue, queue', watched)
      /\ born' = born /\ watched' \subseteq watched
      /\ DOMAIN tree' = DOMAIN tree \ {c}
      /\ \A x \in DOMAIN tree' : tree'[x] = tree[x]
  BY <1>1, <1>2, RmdirKernel DEF TreeOK
<1>4. \A x \in DOMAIN tree' : x # Outer => tree'[x] # NoPath
  BY <1>1, <1>3 DEF TreeOK
<1>5. disturbed' \in BOOLEAN /\ (disturbed => disturbed')
  BY DEF NoteDeparture
<1>6. ASSUME ~disturbed', NEW p \in Pending, IsDir(p)
      PROVE  \E x \in DOMAIN tree' : tree'[x] = p
  <2>1. PICK x \in DOMAIN tree : tree[x] = p
    BY <1>6 DEF IsDir, DirAt
  <2>2. x # c
    BY <1>2, <1>6, <2>1, DepartureStep
  <2>3. QED
    BY <1>3, <2>1, <2>2
<1>7. QED
  BY <1>1, <1>3, <1>4, <1>5, <1>6 DEF TreeStep, HistoryTypeOK

\* So is one renamed; its new path and those below it enter the history.
LEMMA RenameStep ==
  ASSUME BaseInv, NEW c \in DOMAIN tree, NEW d \in DOMAIN tree, NEW n \in Names,
         Rename(c, d, n), NoteDeparture(c), NoteArrival(c, Subtree(c), d)
  PROVE  TreeStep
<1>1. KernelTypeOK /\ HistoryTypeOK /\ TreeOK
  BY DEF BaseInv, TypeOK
<1>2. tree[c] # NoPath
  BY <1>1 DEF Rename, TreeOK
<1>3. /\ KernelTypeOK' /\ QueueGrows(queue, queue', watched)
      /\ born' = born /\ watched' = watched
      /\ DOMAIN tree' = DOMAIN tree
      /\ \A x \in DOMAIN tree \ Subtree(c) : tree'[x] = tree[x]
      /\ \A x \in Subtree(c) : tree'[x] # NoPath
  BY <1>1, <1>2, RenameKernel
<1>4. \A x \in DOMAIN tree' : x # Outer => tree'[x] # NoPath
  BY <1>1, <1>3 DEF TreeOK
<1>5. disturbed' \in BOOLEAN /\ (disturbed => disturbed')
  BY DEF NoteDeparture
<1>6. ASSUME ~disturbed', NEW p \in Pending, IsDir(p)
      PROVE  \E x \in DOMAIN tree' : tree'[x] = p
  <2>1. PICK x \in DOMAIN tree : tree[x] = p
    BY <1>6 DEF IsDir, DirAt
  <2>2. x \notin Subtree(c)
    BY <1>6, <2>1, DepartureStep
  <2>3. QED
    BY <1>3, <2>1, <2>2
<1>7. blind' \subseteq 0 .. born' - 1
  BY <1>1, <1>3 DEF NoteArrival, HistoryTypeOK, KernelTypeOK
<1>8. QED
  BY <1>3, <1>4, <1>5, <1>6, <1>7 DEF TreeStep

\* A change of a file changes no path.
LEMMA FileEventStep ==
  ASSUME BaseInv, NEW d \in DOMAIN tree, NEW n \in Names, NEW kind \in FileKinds,
         FileEvent(d, n, kind), UNCHANGED <<blind, disturbed>>
  PROVE  TreeStep
<1>1. KernelTypeOK /\ HistoryTypeOK /\ TreeOK
  BY DEF BaseInv, TypeOK
<1>2. /\ KernelTypeOK' /\ QueueGrows(queue, queue', watched)
      /\ born' = born /\ watched' = watched /\ tree' = tree
  BY <1>1, FileEventKernel
<1>3. QED
  BY <1>1, <1>2 DEF TreeStep, HistoryTypeOK, TreeOK, IsDir, DirAt

\* What every step of another process does to the paths.
LEMMA OthersStep == ASSUME BaseInv, Others PROVE TreeStep
  BY MkdirStep, RmdirStep, RenameStep, FileEventStep DEF Others

\* No step of another process breaks the invariant.
LEMMA OthersInv == ASSUME BaseInv, Others PROVE BaseInv'
<1>1. TreeStep
  BY OthersStep
<1>2. KernelTypeOK /\ MapTypeOK /\ DataTypeOK /\ ControlTypeOK /\ HistoryTypeOK
  BY DEF BaseInv, TypeOK
<1>3. UNCHANGED <<wd_map, pc, caller, batch, fullpath, todo, paths, fault>>
  BY DEF Others, programVars
<1>4. KernelTypeOK'
  BY <1>1 DEF TreeStep
<1>5. born' \in Nat /\ born <= born'
  BY <1>1, <1>2, <1>4 DEF TreeStep, KernelTypeOK
<1>6. MapTypeOK' /\ DataTypeOK' /\ ControlTypeOK'
  BY <1>2, <1>3, <1>5 DEF MapTypeOK, DataTypeOK, ControlTypeOK, KernelTypeOK
<1>7. /\ DOMAIN hist' = 0 .. born' - 1
      /\ \A d \in DOMAIN hist : hist[d] \subseteq hist'[d]
      /\ \A d \in DOMAIN tree' : tree'[d] \in hist'[d]
      /\ hist' \in [0 .. born' - 1 -> SUBSET Path]
  <2>1. DOMAIN hist \cup DOMAIN tree' = 0 .. born' - 1
    BY <1>1, <1>2, <1>4 DEF TreeStep, KernelTypeOK, HistoryTypeOK
  <2>2. hist' = [d \in 0 .. born' - 1 |->
                   (IF d \in DOMAIN hist THEN hist[d] ELSE {})
                     \cup (IF d \in DOMAIN tree' THEN {tree'[d]} ELSE {})]
    BY <2>1 DEF Others, NotePaths
  <2>3. DOMAIN hist \subseteq 0 .. born' - 1 /\ DOMAIN tree' \subseteq 0 .. born' - 1
    BY <2>1
  <2>4. ASSUME NEW d \in 0 .. born' - 1 PROVE hist'[d] \subseteq Path
    BY <1>2, <1>4, <2>2 DEF HistoryTypeOK, KernelTypeOK
  <2>5. QED
    BY <2>2, <2>3, <2>4
<1>8. HistoryTypeOK'
  <2>1. lost' \in BOOLEAN
    BY DEF Others
  <2>2. QED
    BY <1>1, <1>7, <2>1 DEF HistoryTypeOK, TreeStep
<1>9. TreeOK'
  BY <1>1, <1>7 DEF TreeOK, TreeStep
<1>10. WatchesKnown'
  BY <1>1, <1>3 DEF BaseInv, WatchesKnown, TreeStep
<1>11. EventsKnown'
  BY <1>1, <1>3 DEF BaseInv, EventsKnown, WatchesKnown, TreeStep, QueueGrows
<1>12. PathWasReal'
  BY <1>2, <1>3, <1>7 DEF BaseInv, PathWasReal, MapTypeOK, HistoryTypeOK
<1>13. PcOK' /\ Pending' = Pending
  BY <1>3 DEF BaseInv, PcOK, Pending
<1>14. CallUndisturbed'
  BY <1>1, <1>3, <1>13 DEF BaseInv, CallUndisturbed, TreeStep, IsDir, DirAt
<1>15. DeathCause'
  BY <1>1, <1>2, <1>3 DEF BaseInv, DeathCause, TreeStep, HistoryTypeOK
<1>16. QED
  BY <1>4, <1>6, <1>8, <1>9, <1>10, <1>11, <1>12, <1>13, <1>14, <1>15 DEF BaseInv, TypeOK

-----------------------------------------------------------------------------
(* Steps of the monitor.                                                    *)

\* The monitor starts before anything is watched.
LEMMA InitInv == Init => BaseInv
<1> SUFFICES ASSUME Init PROVE BaseInv
  OBVIOUS
<1> USE DEF Init, KernelInit, NoPath
<1>1. WatchPath \in Path /\ WatchPath # <<>> /\ <<>> \in Path
  BY NamesAssumption DEF WatchPath, Path
<1>2. KernelTypeOK
  BY <1>1 DEF KernelTypeOK, Outer, Root
<1>3. MapTypeOK /\ DataTypeOK /\ ControlTypeOK
  BY <1>1 DEF MapTypeOK, DataTypeOK, ControlTypeOK
<1>4. HistoryTypeOK /\ TreeOK
  BY <1>1, <1>2 DEF HistoryTypeOK, TreeOK, KernelTypeOK, Outer, Root
<1>5. ToSet(<<>>) = {}
  BY DEF ToSet
<1>6. QED
  BY <1>2, <1>3, <1>4, <1>5
     DEF BaseInv, TypeOK, WatchesKnown, EventsKnown, PathWasReal, PcOK, Pending,
         CallUndisturbed, DeathCause, Ended

\* The steps that only move the threads.
LEMMA ControlInv ==
  ASSUME BaseInv, Construct \/ ReadAsync \/ Destroy \/ ReadFails \/ OpendirFails \/ AddWatchFails
  PROVE  BaseInv'
<1>1. /\ UNCHANGED <<tree, born, ops, watched, queue, wd_map, batch, fullpath, todo, paths,
                    hist, blind, disturbed, lost>>
  BY DEF Construct, ReadAsync, Destroy, ReadFails, OpendirFails, AddWatchFails,
         kernelVars, history
<1>2. ControlTypeOK'
  BY DEF BaseInv, TypeOK, ControlTypeOK, Construct, ReadAsync, Destroy, ReadFails,
         OpendirFails, AddWatchFails, Throw, Ended
<1>3. KernelTypeOK' /\ MapTypeOK' /\ DataTypeOK' /\ HistoryTypeOK'
  BY <1>1 DEF BaseInv, TypeOK, KernelTypeOK, MapTypeOK, DataTypeOK, HistoryTypeOK
<1>4. TreeOK' /\ WatchesKnown' /\ EventsKnown' /\ PathWasReal'
  BY <1>1 DEF BaseInv, TreeOK, WatchesKnown, EventsKnown, PathWasReal
<1>5. Pending' = Pending
  BY <1>1 DEF Pending
<1>6. PcOK' /\ CallUndisturbed'
  BY <1>1, <1>5 DEF BaseInv, PcOK, CallUndisturbed, Construct, ReadAsync, Destroy, ReadFails,
         OpendirFails, AddWatchFails, Throw, Ended
<1>7. DeathCause'
  <2>1. ASSUME OpendirFails, caller = "reader", fault' = "opendir" PROVE disturbed
    <3>1. Head(todo) \in Pending
      BY <2>1, LenProperties, EmptySeq
         DEF BaseInv, TypeOK, DataTypeOK, PcOK, OpendirFails, Pending, ToSet
    <3>2. ~IsDir(Head(todo)) /\ pc = "scan"
      BY <2>1 DEF OpendirFails, Throw
    <3>3. QED
      BY <2>1, <3>1, <3>2 DEF BaseInv, CallUndisturbed
  <2>2. ASSUME AddWatchFails, caller = "reader", fault' = "add_watch" PROVE disturbed
    <3>1. Head(paths) \in Pending
      BY <2>2, LenProperties, EmptySeq
         DEF BaseInv, TypeOK, DataTypeOK, PcOK, AddWatchFails, Pending, ToSet
    <3>2. ~IsDir(Head(paths)) /\ pc = "add"
      BY <2>2 DEF AddWatchFails, Throw
    <3>3. QED
      BY <2>2, <3>1, <3>2 DEF BaseInv, CallUndisturbed
  <2>3. ASSUME Construct \/ ReadAsync \/ Destroy \/ ReadFails PROVE DeathCause'
    BY <1>1, <2>3 DEF BaseInv, DeathCause, PcOK, Construct, ReadAsync, Destroy, ReadFails,
                      Throw, Ended
  <2>4. ASSUME OpendirFails
        PROVE  caller' = caller /\ fault' \in {"opendir", "refused"}
    BY <2>4 DEF OpendirFails, Throw
  <2>5. ASSUME AddWatchFails
        PROVE  caller' = caller /\ fault' \in {"add_watch", "refused"}
    BY <2>5 DEF AddWatchFails, Throw
  <2>6. QED
    BY <1>1, <2>1, <2>2, <2>3, <2>4, <2>5 DEF DeathCause
<1>8. QED
  BY <1>2, <1>3, <1>4, <1>6, <1>7 DEF BaseInv, TypeOK

\* A watch call begins with one path.
LEMMA EnterWatchPending ==
  ASSUME NEW p, EnterWatch(p)
  PROVE  Pending' = {p} /\ todo' = <<p>> /\ paths' = <<>>
  BY DEF EnterWatch, Pending, ToSet

\* watch is called with the path of the root (linux_monitor.cpp:25-27).
LEMMA CallWatchInv == ASSUME BaseInv, CallWatch PROVE BaseInv'
<1>1. UNCHANGED <<tree, born, ops, watched, queue, wd_map, caller, batch, fullpath, fault,
                  hist, blind, lost>>
  BY DEF CallWatch, kernelVars
<1>2. Pending' = {WatchPath} /\ todo' = <<WatchPath>> /\ paths' = <<>>
  BY EnterWatchPending DEF CallWatch
<1>3. WatchPath \in Path /\ WatchPath # NoPath
  BY NamesAssumption DEF WatchPath, Path, NoPath
<1>4. pc = "init" /\ pc' = "scan" /\ disturbed' = FALSE /\ caller = "main"
  BY DEF CallWatch, EnterWatch, BaseInv, PcOK
<1>5. KernelTypeOK' /\ MapTypeOK' /\ HistoryTypeOK'
  BY <1>1, <1>4 DEF BaseInv, TypeOK, KernelTypeOK, MapTypeOK, HistoryTypeOK
<1>6. DataTypeOK' /\ ControlTypeOK'
  BY <1>1, <1>2, <1>3, <1>4 DEF BaseInv, TypeOK, DataTypeOK, ControlTypeOK
<1>7. TreeOK' /\ WatchesKnown' /\ EventsKnown' /\ PathWasReal'
  BY <1>1 DEF BaseInv, TreeOK, WatchesKnown, EventsKnown, PathWasReal
<1>8. PcOK' /\ CallUndisturbed' /\ DeathCause'
  BY <1>1, <1>2, <1>3, <1>4 DEF BaseInv, PcOK, CallUndisturbed, DeathCause, Ended
<1>9. QED
  BY <1>5, <1>6, <1>7, <1>8 DEF BaseInv, TypeOK

-----------------------------------------------------------------------------
(* Listings.                                                                *)

\* The listing of a directory is a finite sequence of paths in it, those found.
LEMMA Listing ==
  ASSUME KernelTypeOK, NEW p, NEW found \in SUBSET Children(p), NEW entries \in SetToSeqs(found)
  PROVE  entries \in Seq(Path) /\ ToSet(entries) = found
<1>1. IsFiniteSet(0 .. born - 1)
  <2>1. 0 \in Int /\ born - 1 \in Int
    BY DEF KernelTypeOK
  <2>2. QED
    BY <2>1, FS_Interval
<1>2. IsFiniteSet(DOMAIN tree)
  BY <1>1, FS_Subset DEF KernelTypeOK
<1> DEFINE D == {x \in DOMAIN tree : tree[x] # <<>> /\ Front(tree[x]) = p}
           f == [x \in D |-> tree[x]]
<1>3. IsFiniteSet(D)
  BY <1>2, FS_Subset
<1>4. f \in Surjection(D, Children(p))
  BY DEF Surjection, Children
<1>5. IsFiniteSet(found)
  <2>1. IsFiniteSet(Children(p))
    BY <1>3, <1>4, FS_Surjection
  <2>2. QED
    BY <2>1, FS_Subset
<1>6. Cardinality(found) \in Nat
  BY <1>5, FS_CardinalityType
<1>7. entries \in [1 .. Cardinality(found) -> found]
  BY DEF SetToSeqs
<1>8. found \subseteq Path
  BY DEF Children, KernelTypeOK
<1> DEFINE k == Cardinality(found)
<1>9. entries \in Injection(1 .. k, found)
  BY <1>7 DEF SetToSeqs, Injection, IsInjective
<1>10. Cardinality(1 .. k) = k
  BY <1>6, FS_Interval
<1>11. entries \in Surjection(1 .. k, found)
  BY <1>5, <1>9, <1>10, FS_Injection
<1>12. entries \in Seq(Path) /\ DOMAIN entries = 1 .. k
  BY <1>6, <1>7, <1>8
<1>13. QED
  BY <1>11, <1>12 DEF ToSet, Surjection

-----------------------------------------------------------------------------
(* watch.                                                                   *)

\* A listing gives find_files more directories to list, all there now
\* (common.cpp:139-166).
LEMMA ListDirInv == ASSUME BaseInv, ListDir PROVE BaseInv'
<1>1. /\ UNCHANGED <<tree, born, ops, watched, queue, wd_map, caller, batch, fullpath, fault,
                     hist, disturbed, lost>>
      /\ pc = "scan" /\ todo # <<>> /\ paths' = Append(paths, Head(todo))
      /\ blind' \subseteq blind \cup DOMAIN tree
  BY DEF ListDir, kernelVars, BaseInv, PcOK
<1>2. PICK found \in SUBSET Children(Head(todo)) :
        /\ \E entries \in SetToSeqs(found) : todo' = entries \o Tail(todo)
        /\ pc' = IF todo' = <<>> THEN "add" ELSE "scan"
  BY DEF ListDir
<1>3. PICK entries \in SetToSeqs(found) : todo' = entries \o Tail(todo)
  BY <1>2
<1>4. KernelTypeOK /\ todo \in Seq(Path) /\ paths \in Seq(Path)
  BY DEF BaseInv, TypeOK, DataTypeOK
<1>5. entries \in Seq(Path) /\ ToSet(entries) \subseteq Children(Head(todo))
  BY <1>4, Listing
<1>6. /\ Head(todo) \in Path /\ Head(todo) \in ToSet(todo)
      /\ Tail(todo) \in Seq(Path) /\ ToSet(Tail(todo)) \subseteq ToSet(todo)
  BY <1>1, <1>4, HeadTailProperties, TailElements
<1>7. /\ todo' \in Seq(Path) /\ ToSet(todo') = ToSet(entries) \cup ToSet(Tail(todo))
      /\ paths' \in Seq(Path) /\ ToSet(paths') = ToSet(paths) \cup {Head(todo)}
      /\ paths' # <<>>
  <2>1. todo' \in Seq(Path) /\ ToSet(todo') = ToSet(entries) \cup ToSet(Tail(todo))
    <3>1. /\ entries \o Tail(todo) \in Seq(Path)
          /\ ToSet(entries \o Tail(todo)) = ToSet(entries) \cup ToSet(Tail(todo))
      BY <1>5, <1>6, ConcatProperties, ConcatElements
    <3>2. todo' = entries \o Tail(todo)
      BY <1>3
    <3>3. QED
      BY <3>1, <3>2
  <2>2. /\ paths' \in Seq(Path) /\ ToSet(paths') = ToSet(paths) \cup {Head(todo)}
        /\ paths' # <<>>
    BY <1>1, <1>4, <1>6, AppendProperties, AppendElements
  <2>3. QED
    BY <2>1, <2>2
<1>8. Pending' \subseteq Pending \cup Children(Head(todo))
  BY <1>5, <1>6, <1>7 DEF Pending
<1>9. \A p \in Children(Head(todo)) : p # NoPath /\ IsDir(p)
  BY DEF Children, NoPath, IsDir, DirAt
<1>10. KernelTypeOK' /\ MapTypeOK' /\ HistoryTypeOK'
  <2>1. DOMAIN tree \subseteq 0 .. born - 1
    BY <1>4 DEF KernelTypeOK
  <2>2. KernelTypeOK' /\ MapTypeOK'
    BY <1>1 DEF BaseInv, TypeOK, KernelTypeOK, MapTypeOK
  <2>3. QED
    BY <1>1, <2>1, <2>2 DEF BaseInv, TypeOK, HistoryTypeOK
<1>11. DataTypeOK' /\ ControlTypeOK'
  BY <1>1, <1>2, <1>7 DEF BaseInv, TypeOK, DataTypeOK, ControlTypeOK
<1>12. TreeOK' /\ WatchesKnown' /\ EventsKnown' /\ PathWasReal'
  BY <1>1 DEF BaseInv, TreeOK, WatchesKnown, EventsKnown, PathWasReal
<1>13. PcOK'
  BY <1>1, <1>2, <1>7, <1>8, <1>9 DEF BaseInv, PcOK, Ended
<1>14. CallUndisturbed'
  BY <1>1, <1>8, <1>9 DEF BaseInv, CallUndisturbed, IsDir, DirAt
<1>15. DeathCause'
  BY <1>1 DEF BaseInv, DeathCause
<1>16. QED
  BY <1>10, <1>11, <1>12, <1>13, <1>14, <1>15 DEF BaseInv, TypeOK

\* A watched directory enters the map under the path it was listed at
\* (linux_monitor.cpp:29-38).
LEMMA AddNextInv == ASSUME BaseInv, AddNext PROVE BaseInv'
<1>1. /\ UNCHANGED <<tree, born, ops, queue, caller, batch, fullpath, todo, fault,
                     hist, blind, disturbed, lost>>
      /\ pc = "add" /\ paths # <<>> /\ paths' = Tail(paths)
      /\ pc' = IF paths' # <<>> THEN "add" ELSE IF caller = "main" THEN "start" ELSE "callback"
  BY DEF AddNext, history, BaseInv, PcOK
<1>2. PICK d \in DirAt(Head(paths)) : WatchPathOf(d)
  BY DEF AddNext
<1>3. KernelTypeOK /\ MapTypeOK /\ paths \in Seq(Path)
  BY DEF BaseInv, TypeOK, DataTypeOK
<1>4. /\ Head(paths) \in Path /\ Head(paths) \in ToSet(paths)
      /\ Tail(paths) \in Seq(Path) /\ ToSet(Tail(paths)) \subseteq ToSet(paths)
  BY <1>1, <1>3, HeadTailProperties, TailElements
<1>5. Head(paths) # NoPath /\ Pending' \subseteq Pending
  BY <1>1, <1>4 DEF BaseInv, PcOK, Pending
<1>6. d \in DOMAIN tree /\ tree[d] = Head(paths) /\ d \in 0 .. born - 1 /\ d # OverflowWd
  BY <1>3 DEF DirAt, KernelTypeOK, OverflowWd
<1>7. /\ watched' = watched \cup {d}
      /\ DOMAIN wd_map' = DOMAIN wd_map \cup {d}
      /\ \A x \in DOMAIN wd_map' : wd_map'[x] = IF x = d THEN Head(paths) ELSE wd_map[x]
      /\ wd_map' \in [DOMAIN wd_map' -> Path]
  BY <1>2, <1>3, <1>4 DEF WatchPathOf, AddWatch, Put, MapTypeOK
<1>8. KernelTypeOK'
  BY <1>1, <1>3, <1>6, <1>7 DEF KernelTypeOK
<1>9. MapTypeOK'
  BY <1>1, <1>3, <1>6, <1>7 DEF MapTypeOK
<1>10. DataTypeOK' /\ ControlTypeOK' /\ HistoryTypeOK'
  BY <1>1, <1>4 DEF BaseInv, TypeOK, DataTypeOK, ControlTypeOK, HistoryTypeOK
<1>11. TreeOK'
  BY <1>1 DEF BaseInv, TreeOK
<1>12. WatchesKnown' /\ EventsKnown'
  BY <1>1, <1>5, <1>7 DEF BaseInv, WatchesKnown, EventsKnown
<1>13. PathWasReal'
  BY <1>1, <1>6, <1>7 DEF BaseInv, PathWasReal, TreeOK
<1>14. PcOK'
  BY <1>1, <1>5 DEF BaseInv, PcOK, TypeOK, ControlTypeOK, Ended
<1>15. CallUndisturbed' /\ DeathCause'
  BY <1>1, <1>5 DEF BaseInv, CallUndisturbed, DeathCause, IsDir, DirAt
<1>16. QED
  BY <1>8, <1>9, <1>10, <1>11, <1>12, <1>13, <1>14, <1>15 DEF BaseInv, TypeOK

-----------------------------------------------------------------------------
(* The reader thread.                                                       *)

\* A read splits the queue.
LEMMA ReadSplits ==
  ASSUME BaseInv, Read
  PROVE  /\ batch' \in Seq(Event) /\ batch' # <<>> /\ queue' \in Seq(Event)
         /\ batch' \o queue' = queue
<1> DEFINE k == IF Len(queue) <= BatchCap THEN Len(queue) ELSE BatchCap
<1>1. queue \in Seq(Event) /\ queue # <<>> /\ BatchCap \in Nat \ {0}
  BY MonitorAssumption DEF BaseInv, TypeOK, KernelTypeOK, Read
<1>2. Len(queue) \in Nat /\ Len(queue) > 0
  BY <1>1, LenProperties, EmptySeq
<1>3. k \in 1 .. Len(queue)
  BY <1>1, <1>2
<1>4. batch' = SubSeq(queue, 1, k) /\ queue' = SubSeq(queue, k + 1, Len(queue))
  BY DEF Read
<1> HIDE DEF k
<1>5. batch' \in Seq(Event) /\ Len(batch') = k /\ queue' \in Seq(Event)
  BY <1>1, <1>2, <1>3, <1>4, SubSeqProperties, ElementOfSeq
<1>6. batch' # <<>>
  BY <1>3, <1>5, EmptySeq
<1>7. batch' \o queue' = SubSeq(queue, 1, Len(queue))
  BY <1>1, <1>2, <1>3, <1>4, ConcatAdjacentSubSeq
<1>8. QED
  BY <1>1, <1>5, <1>6, <1>7, SubSeqFull

\* A read takes events from the queue, none of an unknown descriptor
\* (linux_monitor.cpp:50-58).
LEMMA ReadInv == ASSUME BaseInv, Read PROVE BaseInv'
<1>1. /\ UNCHANGED <<tree, born, ops, watched, wd_map, caller, fullpath, todo, paths, fault,
                     hist, blind, disturbed, lost>>
      /\ pc = "read" /\ pc' = "handle" /\ caller = "reader"
  BY DEF Read, history, BaseInv, PcOK
<1>2. /\ batch' \in Seq(Event) /\ batch' # <<>> /\ queue' \in Seq(Event)
      /\ ToSet(queue) = ToSet(batch') \cup ToSet(queue')
  <2>1. /\ batch' \in Seq(Event) /\ batch' # <<>> /\ queue' \in Seq(Event)
        /\ batch' \o queue' = queue
    BY ReadSplits
  <2>2. ToSet(batch' \o queue') = ToSet(batch') \cup ToSet(queue')
    BY <2>1, ConcatElements
  <2>3. QED
    BY <2>1, <2>2
<1>3. KernelTypeOK' /\ MapTypeOK' /\ DataTypeOK' /\ HistoryTypeOK'
  BY <1>1, <1>2 DEF BaseInv, TypeOK, KernelTypeOK, MapTypeOK, DataTypeOK, HistoryTypeOK
<1>4. ControlTypeOK'
  BY <1>1 DEF BaseInv, TypeOK, ControlTypeOK
<1>5. TreeOK' /\ WatchesKnown' /\ PathWasReal'
  BY <1>1 DEF BaseInv, TreeOK, WatchesKnown, PathWasReal
<1>6. EventsKnown'
  BY <1>1, <1>2 DEF BaseInv, EventsKnown
<1>7. PcOK' /\ Pending' = Pending
  BY <1>1, <1>2 DEF BaseInv, PcOK, Pending, Ended
<1>8. CallUndisturbed' /\ DeathCause'
  BY <1>1, <1>7 DEF BaseInv, CallUndisturbed, DeathCause
<1>9. QED
  BY <1>3, <1>4, <1>5, <1>6, <1>7, <1>8 DEF BaseInv, TypeOK

\* Decoding an event gives a path and adds nothing to the map but descriptor -1.
LEMMA DecodeStep ==
  ASSUME BaseInv, NEW e \in Event, Decode(e),
         e.wd # OverflowWd => e.wd \in DOMAIN wd_map /\ wd_map[e.wd] # NoPath
  PROVE  /\ fullpath' \in Path
         /\ DOMAIN wd_map' = DOMAIN wd_map \cup {e.wd}
         /\ e.wd \notin DOMAIN wd_map => e.wd = OverflowWd /\ wd_map'[OverflowWd] = NoPath
         /\ \A x \in DOMAIN wd_map : wd_map'[x] = wd_map[x]
         /\ wd_map' \in [DOMAIN wd_map' -> Path]
<1>1. Lookup(e.wd) \in Path
  BY DEF Lookup, BaseInv, TypeOK, MapTypeOK, Path, NoPath
<1>2. NamesRead(e) \subseteq Path
  <2>1. ASSUME NEW n \in Names PROVE <<n>> \in Path
    BY DEF Path
  <2>2. <<>> \in Path
    BY DEF Path
  <2>3. e.name \in {<<n>> : n \in Names} \cup {<<>>}
    BY DEF Event
  <2>4. QED
    BY <2>1, <2>2, <2>3 DEF NamesRead
<1>3. fullpath' \in Path
  BY <1>1, <1>2, ConcatProperties DEF Decode, Path
<1>4. wd_map' = Put(wd_map, e.wd, Lookup(e.wd))
  BY DEF Decode
<1>5. QED
  BY <1>1, <1>3, <1>4 DEF Put, Lookup, BaseInv, TypeOK, MapTypeOK

\* Decoding an event keeps the map, and a watch call starts with a path that is
\* a directory now (linux_monitor.cpp:60, 99-102).
LEMMA HandleInv == ASSUME BaseInv, Handle PROVE BaseInv'
<1>1. /\ UNCHANGED <<tree, born, ops, watched, queue, caller, batch, fault, hist, blind, lost>>
      /\ pc = "handle" /\ caller = "reader" /\ batch # <<>>
  BY DEF Handle, kernelVars, BaseInv, PcOK
<1>2. Head(batch) \in Event /\ Head(batch) \in ToSet(batch)
  BY <1>1, HeadTailProperties, TailElements DEF BaseInv, TypeOK, DataTypeOK
<1> DEFINE e == Head(batch)
<1>3. e.wd # OverflowWd => e.wd \in DOMAIN wd_map /\ wd_map[e.wd] # NoPath
  BY <1>2 DEF BaseInv, EventsKnown
<1>4. Decode(e)
  BY DEF Handle
<1>5. /\ fullpath' \in Path
      /\ DOMAIN wd_map' = DOMAIN wd_map \cup {e.wd}
      /\ e.wd \notin DOMAIN wd_map => e.wd = OverflowWd /\ wd_map'[OverflowWd] = NoPath
      /\ \A x \in DOMAIN wd_map : wd_map'[x] = wd_map[x]
      /\ wd_map' \in [DOMAIN wd_map' -> Path]
  BY <1>2, <1>3, <1>4, DecodeStep
<1> HIDE DEF e
<1>6. \/ /\ pc' = "scan" /\ todo' = <<fullpath'>> /\ paths' = <<>> /\ disturbed' = FALSE
         /\ fullpath' # NoPath /\ IsDir(fullpath')
      \/ pc' = "callback" /\ UNCHANGED <<todo, paths, disturbed>>
  BY DEF Handle, EnterWatch, IsWatchable
<1>7. \/ Pending' = {fullpath'} /\ pc' = "scan" /\ fullpath' # NoPath /\ IsDir(fullpath')
      \/ Pending' = Pending /\ pc' = "callback"
  BY <1>6 DEF Pending, ToSet
<1>8. KernelTypeOK'
  BY <1>1 DEF BaseInv, TypeOK, KernelTypeOK
<1>9. MapTypeOK'
  BY <1>1, <1>5 DEF BaseInv, TypeOK, MapTypeOK
<1>10. DataTypeOK'
  <2>1. <<fullpath'>> \in Seq(Path) /\ <<>> \in Seq(Path)
    BY <1>5
  <2>2. QED
    BY <1>1, <1>5, <1>6, <2>1 DEF BaseInv, TypeOK, DataTypeOK
<1>11. ControlTypeOK' /\ HistoryTypeOK'
  BY <1>1, <1>6 DEF BaseInv, TypeOK, ControlTypeOK, HistoryTypeOK
<1>12. TreeOK' /\ WatchesKnown' /\ EventsKnown'
  BY <1>1, <1>5 DEF BaseInv, TreeOK, WatchesKnown, EventsKnown
<1>13. PathWasReal'
  BY <1>1, <1>5 DEF BaseInv, PathWasReal
<1>14. PcOK'
  BY <1>1, <1>6, <1>7 DEF BaseInv, PcOK, Ended
<1>15. CallUndisturbed'
  BY <1>1, <1>7 DEF CallUndisturbed, IsDir, DirAt
<1>16. DeathCause'
  BY <1>1 DEF BaseInv, DeathCause, PcOK, Ended
<1>17. QED
  BY <1>8, <1>9, <1>10, <1>11, <1>12, <1>13, <1>14, <1>15, <1>16 DEF BaseInv, TypeOK

\* Where is_directory throws the event is decoded, and the reader ends
\* (linux_monitor.cpp:60, 99).
LEMMA HandleFailsInv == ASSUME BaseInv, HandleFails PROVE BaseInv'
<1>1. /\ UNCHANGED <<tree, born, ops, watched, queue, caller, batch, todo, paths,
                     hist, blind, disturbed, lost>>
      /\ pc = "handle" /\ caller = "reader" /\ batch # <<>>
  BY DEF HandleFails, kernelVars, history, BaseInv, PcOK
<1>2. pc' = "dead" /\ fault' = "refused"
  BY <1>1 DEF HandleFails, Throw
<1>3. Head(batch) \in Event /\ Head(batch) \in ToSet(batch)
  BY <1>1, HeadTailProperties, TailElements DEF BaseInv, TypeOK, DataTypeOK
<1> DEFINE e == Head(batch)
<1>4. e.wd # OverflowWd => e.wd \in DOMAIN wd_map /\ wd_map[e.wd] # NoPath
  BY <1>3 DEF BaseInv, EventsKnown
<1>5. Decode(e)
  BY DEF HandleFails
<1>6. /\ fullpath' \in Path
      /\ DOMAIN wd_map' = DOMAIN wd_map \cup {e.wd}
      /\ e.wd \notin DOMAIN wd_map => e.wd = OverflowWd /\ wd_map'[OverflowWd] = NoPath
      /\ \A x \in DOMAIN wd_map : wd_map'[x] = wd_map[x]
      /\ wd_map' \in [DOMAIN wd_map' -> Path]
  BY <1>3, <1>4, <1>5, DecodeStep
<1> HIDE DEF e
<1>7. KernelTypeOK' /\ HistoryTypeOK'
  BY <1>1 DEF BaseInv, TypeOK, KernelTypeOK, HistoryTypeOK
<1>8. MapTypeOK'
  BY <1>1, <1>6 DEF BaseInv, TypeOK, MapTypeOK
<1>9. DataTypeOK' /\ ControlTypeOK'
  BY <1>1, <1>2, <1>6 DEF BaseInv, TypeOK, DataTypeOK, ControlTypeOK, Ended
<1>10. TreeOK' /\ WatchesKnown' /\ EventsKnown' /\ PathWasReal'
  BY <1>1, <1>6 DEF BaseInv, TreeOK, WatchesKnown, EventsKnown, PathWasReal
<1>11. PcOK' /\ Pending' = Pending
  BY <1>1, <1>2 DEF BaseInv, PcOK, Pending, Ended
<1>12. CallUndisturbed' /\ DeathCause'
  BY <1>2 DEF CallUndisturbed, DeathCause
<1>13. QED
  BY <1>7, <1>8, <1>9, <1>10, <1>11, <1>12 DEF BaseInv, TypeOK

\* The callback ends the work on one event (linux_monitor.cpp:103-104).
LEMMA CallbackInv == ASSUME BaseInv, Callback PROVE BaseInv'
<1>1. /\ UNCHANGED <<tree, born, ops, watched, queue, wd_map, caller, todo, paths,
                     hist, blind, disturbed, lost>>
      /\ pc = "callback" /\ caller = "reader" /\ batch # <<>> /\ fault = "none"
  BY DEF Callback, kernelVars, history, BaseInv, PcOK, Ended
<1>2. \/ /\ UNCHANGED <<batch, fullpath>> /\ pc' = "dead" /\ fault' = "callback"
      \/ /\ batch' = Tail(batch) /\ fullpath' = NoPath /\ UNCHANGED fault
         /\ pc' = IF batch' = <<>> THEN "read" ELSE "handle"
  BY <1>1 DEF Callback, Throw
<1>3. /\ Tail(batch) \in Seq(Event) /\ ToSet(Tail(batch)) \subseteq ToSet(batch)
      /\ NoPath \in Path
  BY <1>1, HeadTailProperties, TailElements DEF BaseInv, TypeOK, DataTypeOK, NoPath, Path
<1>4. KernelTypeOK' /\ MapTypeOK' /\ HistoryTypeOK'
  BY <1>1 DEF BaseInv, TypeOK, KernelTypeOK, MapTypeOK, HistoryTypeOK
<1>5. DataTypeOK' /\ ControlTypeOK'
  BY <1>1, <1>2, <1>3 DEF BaseInv, TypeOK, DataTypeOK, ControlTypeOK, Ended
<1>6. TreeOK' /\ WatchesKnown' /\ PathWasReal'
  BY <1>1 DEF BaseInv, TreeOK, WatchesKnown, PathWasReal
<1>7. EventsKnown'
  BY <1>1, <1>2, <1>3 DEF BaseInv, EventsKnown
<1>8. PcOK' /\ Pending' = Pending
  BY <1>1, <1>2 DEF BaseInv, PcOK, Pending, Ended
<1>9. CallUndisturbed' /\ DeathCause'
  BY <1>1, <1>2 DEF CallUndisturbed, DeathCause
<1>10. QED
  BY <1>4, <1>5, <1>6, <1>7, <1>8, <1>9 DEF BaseInv, TypeOK

-----------------------------------------------------------------------------
(* The invariant, and the properties it gives.                              *)

\* Every step of the threads, the kernel and the other processes preserves the
\* invariant.
LEMMA NextInv == BaseInv /\ [Next]_vars => BaseInv'
<1> SUFFICES ASSUME BaseInv, [Next]_vars PROVE BaseInv'
  OBVIOUS
<1>1. CASE Main
  BY <1>1, ControlInv, CallWatchInv DEF Main
<1>2. CASE Watch
  BY <1>2, ControlInv, ListDirInv, AddNextInv DEF Watch
<1>3. CASE Reader
  BY <1>3, ReadInv, HandleInv, CallbackInv DEF Reader
<1>4. CASE ReadFails \/ HandleFails \/ Destroy
  BY <1>4, ControlInv, HandleFailsInv
<1>5. CASE Others
  BY <1>5, OthersInv
<1>6. CASE UNCHANGED vars
  BY <1>6 DEF vars, kernelVars, programVars, history, BaseInv, TypeOK, KernelTypeOK, MapTypeOK,
              DataTypeOK, ControlTypeOK, HistoryTypeOK, TreeOK, WatchesKnown, EventsKnown,
              PathWasReal, PcOK, Pending, CallUndisturbed, DeathCause, IsDir, DirAt
<1>7. QED
  BY <1>1, <1>2, <1>3, <1>4, <1>5, <1>6 DEF Next

\* The invariant of the monitor holds whatever other processes do to the tree
\* (linux_monitor.cpp:14-110).
THEOREM BaseInvariance == Spec => []BaseInv
<1>1. QED
  BY InitInv, NextInv, PTL DEF Spec

\* Every value of the monitor is of its type, and descriptor -1, that of a queue
\* overflow, is never given a path (linux_monitor.cpp:32-38, 60).
THEOREM TypeCorrect == Spec => []TypeOK
<1>1. BaseInv => TypeOK
  BY DEF BaseInv
<1>2. QED
  BY <1>1, BaseInvariance, PTL

\* Whatever happens to the tree, every event read or still to be read is of a
\* descriptor whose path is in the map (linux_monitor.cpp:38, 60).
THEOREM EventsKnownHolds == Spec => []EventsKnown
<1>1. BaseInv => EventsKnown
  BY DEF BaseInv
<1>2. QED
  BY <1>1, BaseInvariance, PTL

\* However the tree is renamed meanwhile, the map never gives a directory a path
\* that only another one has had (linux_monitor.cpp:32-38, 60).
THEOREM PathWasRealHolds == Spec => []PathWasReal
<1>1. BaseInv => PathWasReal
  BY DEF BaseInv
<1>2. QED
  BY <1>1, BaseInvariance, PTL

\* That a path of a watch call is no directory ends the reader only when one of the
\* paths of that call was moved or removed; all other failures of its calls are the
\* system's refusals (linux_monitor.cpp:28-35, common.cpp:139-172).
THEOREM DeathCauseHolds == Spec => []DeathCause
<1>1. BaseInv => DeathCause
  BY DEF BaseInv
<1>2. QED
  BY <1>1, BaseInvariance, PTL

-----------------------------------------------------------------------------
(* The monitor implements ChangeFeed, apart from its fairness.              *)

\* No event has occurred when the monitor is made.
LEMMA FeedInit == Init => Feed!FeedInit
<1> SUFFICES ASSUME Init PROVE Feed!FeedInit
  OBVIOUS
<1>1. batch \o queue = <<>>
  BY DEF Init, KernelInit
<1>2. pc \notin Ended
  BY DEF Init, Ended
<1>3. QED
  BY <1>1, <1>2 DEF Feed!FeedInit

\* What other processes cause is added after the events that already wait.
LEMMA OthersFeed == ASSUME BaseInv, Others PROVE Feed!Occur
<1>1. QueueGrows(queue, queue', watched)
  BY OthersStep DEF TreeStep
<1>2. batch \in Seq(Event) /\ queue \in Seq(Event) /\ queue' \in Seq(Event)
  BY <1>1 DEF BaseInv, TypeOK, DataTypeOK, KernelTypeOK, QueueGrows
<1>3. IsPrefix(batch \o queue, batch \o queue')
  BY <1>1, <1>2, PrefixConcat DEF QueueGrows
<1>4. pc \notin Ended /\ batch' = batch /\ pc' = pc
  BY DEF Others, programVars
<1>5. QED
  BY <1>3, <1>4 DEF Feed!Occur, Feed!IsPrefix, IsPrefix

\* A read reports nothing and loses nothing.
LEMMA ReadFeed == ASSUME BaseInv, Read PROVE UNCHANGED Feed!feedVars
<1>1. batch = <<>> /\ queue \in Seq(Event) /\ pc = "read" /\ pc' = "handle"
  BY DEF BaseInv, TypeOK, KernelTypeOK, PcOK, Read
<1>2. batch \o queue = queue
  BY <1>1
<1>3. batch' \o queue' = queue
  BY ReadSplits
<1>4. QED
  BY <1>1, <1>2, <1>3 DEF Feed!feedVars, Ended

\* The callback reports the first event that waits, or ends the feed.
LEMMA CallbackFeed == ASSUME BaseInv, Callback PROVE Feed!Report \/ Feed!Stop
<1>1. /\ UNCHANGED queue /\ pc = "callback" /\ caller = "reader"
      /\ batch \in Seq(Event) /\ batch # <<>> /\ queue \in Seq(Event)
  BY DEF Callback, kernelVars, BaseInv, TypeOK, KernelTypeOK, DataTypeOK, PcOK
<1>2. CASE UNCHANGED batch /\ pc' = "dead"
  BY <1>1, <1>2 DEF Feed!Stop, Ended
<1>3. CASE batch' = Tail(batch) /\ pc' \in {"read", "handle"}
  <2>1. batch \o queue # <<>> /\ Tail(batch \o queue) = Tail(batch) \o queue
    BY <1>1
  <2>2. QED
    BY <1>1, <1>3, <2>1 DEF Feed!Report, Ended
<1>4. QED
  BY <1>1, <1>2, <1>3 DEF Callback, Throw

\* The other steps of the threads touch no event; some end the feed.
LEMMA ControlFeed ==
  ASSUME BaseInv,
         \/ Main \/ Watch \/ Handle
         \/ ReadFails \/ HandleFails \/ Destroy
  PROVE  Feed!Stop \/ UNCHANGED Feed!feedVars
<1>1. UNCHANGED <<batch, queue>>
  BY DEF Main, Watch, Construct, CallWatch, ReadAsync, ListDir, OpendirFails, AddNext,
         AddWatchFails, Handle, ReadFails, HandleFails, Destroy, kernelVars
<1>2. pc \notin Ended
  BY DEF Main, Watch, Construct, CallWatch, ReadAsync, ListDir, OpendirFails, AddNext,
         AddWatchFails, Handle, ReadFails, HandleFails, Destroy, Ended
<1>3. QED
  BY <1>1, <1>2 DEF Feed!Stop, Feed!feedVars

\* Every step is a step of the feed or changes nothing of it.
LEMMA NextFeed == BaseInv /\ [Next]_vars => [Feed!FeedNext]_(Feed!feedVars)
<1> SUFFICES ASSUME BaseInv, [Next]_vars PROVE [Feed!FeedNext]_(Feed!feedVars)
  OBVIOUS
<1>1. CASE Main \/ Watch \/ Handle \/ ReadFails \/ HandleFails \/ Destroy
  BY <1>1, ControlFeed DEF Feed!FeedNext
<1>2. CASE Read
  BY <1>2, ReadFeed
<1>3. CASE Callback
  BY <1>3, CallbackFeed DEF Feed!FeedNext
<1>4. CASE Others
  BY <1>4, OthersFeed DEF Feed!FeedNext
<1>5. CASE UNCHANGED vars
  BY <1>5 DEF vars, kernelVars, programVars, Feed!feedVars
<1>6. QED
  BY <1>1, <1>2, <1>3, <1>4, <1>5 DEF Next, Reader

\* The monitor implements the safety of ChangeFeed, whatever the sizes of the
\* queue and of the buffer: each event is reported once, in the order the kernel
\* queued it (linux_monitor.cpp:44-106).
THEOREM FeedSafety == Spec => Feed!FeedSpec
<1>1. QED
  BY FeedInit, NextFeed, BaseInvariance, PTL DEF Spec, Feed!FeedSpec

-----------------------------------------------------------------------------
(* Paths in a well-formed tree.                                             *)

\* The first k elements of a sequence.
LEMMA FirstElements ==
  ASSUME NEW S, NEW s \in Seq(S), NEW k \in 0 .. Len(s)
  PROVE  /\ SubSeq(s, 1, k) \in Seq(S) /\ Len(SubSeq(s, 1, k)) = k
         /\ \A i \in 1 .. k : SubSeq(s, 1, k)[i] = s[i]
<1>1. Len(s) \in Nat /\ \A i \in 1 .. k : s[i] \in S
  BY LenProperties, ElementOfSeq
<1>2. QED
  BY <1>1, SubSeqProperties

\* The path without its last name, and that name.
LEMMA FrontOfAppend ==
  ASSUME NEW S, NEW s \in Seq(S), NEW e \in S
  PROVE  Front(Append(s, e)) = s /\ Last(Append(s, e)) = e
<1>1. /\ Append(s, e) \in Seq(S) /\ Len(s) \in Nat /\ Len(Append(s, e)) = Len(s) + 1
      /\ \A i \in 1 .. Len(s) : Append(s, e)[i] = s[i]
      /\ Append(s, e)[Len(s) + 1] = e
  BY AppendProperties, LenProperties
<1>2. Len(s) \in 0 .. Len(Append(s, e))
  BY <1>1
<1> DEFINE t == SubSeq(Append(s, e), 1, Len(s))
<1>3. t \in Seq(S) /\ Len(t) = Len(s) /\ \A i \in 1 .. Len(s) : t[i] = Append(s, e)[i]
  BY <1>1, <1>2, FirstElements
<1>4. t = s
  BY <1>1, <1>3, SeqEqual
<1>5. Len(Append(s, e)) - 1 = Len(s)
  BY <1>1
<1>6. QED
  BY <1>1, <1>4, <1>5 DEF Front, Last

\* Paths are sequences of names.
LEMMA PathType ==
  ASSUME KernelTypeOK, NEW d \in DOMAIN tree
  PROVE  tree[d] \in Seq(Names) /\ Len(tree[d]) \in Nat
  BY LenProperties DEF KernelTypeOK, Path

\* Being below is reflexive and transitive.
LEMMA SubtreeOrder ==
  ASSUME KernelTypeOK, NEW c \in DOMAIN tree
  PROVE  /\ c \in Subtree(c)
         /\ \A d \in Subtree(c) : \A x \in Subtree(d) : x \in Subtree(c)
<1>1. c \in Subtree(c)
  <2>1. IsPrefix(tree[c], tree[c])
    BY PathType, PrefixElements
  <2>2. QED
    BY <2>1 DEF Subtree
<1>2. ASSUME NEW d \in Subtree(c), NEW x \in Subtree(d) PROVE x \in Subtree(c)
  <2>1. /\ x \in DOMAIN tree /\ d \in DOMAIN tree
        /\ IsPrefix(tree[c], tree[d]) /\ IsPrefix(tree[d], tree[x])
    BY <1>2 DEF Subtree
  <2>2. IsPrefix(tree[c], tree[x])
    BY <2>1, PathType, PrefixTransitive
  <2>3. QED
    BY <2>1, <2>2 DEF Subtree
<1>3. QED
  BY <1>1, <1>2

\* A directory other than the working directory has a parent above it.
LEMMA ParentAbove ==
  ASSUME KernelTypeOK, TreeShape, NEW c \in DOMAIN tree, tree[c] # NoPath
  PROVE  /\ Parent(c) \in DOMAIN tree /\ tree[Parent(c)] = Front(tree[c])
         /\ c \in Subtree(Parent(c)) /\ Parent(c) \notin Subtree(c)
<1>1. tree[c] \in Seq(Names) /\ Len(tree[c]) \in Nat /\ Len(tree[c]) > 0
  BY PathType, EmptySeq DEF NoPath
<1>2. Front(tree[c]) = SubSeq(tree[c], 1, Len(tree[c]) - 1)
  BY DEF Front
<1>3. IsDir(SubSeq(tree[c], 1, Len(tree[c]) - 1))
  BY <1>1 DEF TreeShape
<1>4. PICK x \in DOMAIN tree : tree[x] = Front(tree[c])
  BY <1>2, <1>3 DEF IsDir, DirAt
<1>5. Parent(c) \in DOMAIN tree /\ tree[Parent(c)] = Front(tree[c])
  BY <1>4 DEF Parent
<1>6. /\ Front(tree[c]) \in Seq(Names) /\ Len(Front(tree[c])) = Len(tree[c]) - 1
      /\ \A i \in 1 .. Len(tree[c]) - 1 : Front(tree[c])[i] = tree[c][i]
  <2>1. Len(tree[c]) - 1 \in 0 .. Len(tree[c])
    BY <1>1
  <2>2. QED
    BY <1>1, <1>2, <2>1, FirstElements
<1>7. IsPrefix(Front(tree[c]), tree[c])
  BY <1>1, <1>6, PrefixElements
<1>8. ~IsPrefix(tree[c], Front(tree[c]))
  BY <1>1, <1>6, PrefixElements
<1>9. IsPrefix(tree[Parent(c)], tree[c]) /\ ~IsPrefix(tree[c], tree[Parent(c)])
  BY <1>5, <1>7, <1>8
<1>10. QED
  BY <1>5, <1>9 DEF Subtree

\* There is one directory at a path, so that a parent is known by its path.
LEMMA ParentIs ==
  ASSUME KernelTypeOK, TreeShape, NEW c \in DOMAIN tree, NEW x \in DOMAIN tree,
         tree[x] = Front(tree[c])
  PROVE  Parent(c) = x
<1>1. Parent(c) \in DOMAIN tree /\ tree[Parent(c)] = Front(tree[c])
  BY DEF Parent
<1>2. QED
  BY <1>1 DEF TreeShape

\* What is above a directory is one.
LEMMA PrefixIsDir ==
  ASSUME KernelTypeOK, TreeShape, NEW d \in DOMAIN tree, NEW p \in Path, IsPrefix(p, tree[d])
  PROVE  \E x \in DOMAIN tree : tree[x] = p
<1>1. p = SubSeq(tree[d], 1, Len(p)) /\ Len(p) <= Len(tree[d])
  <2>1. SubSeq(p, 1, Len(p)) = p
    BY SubSeqFull DEF Path
  <2>2. QED
    BY <2>1 DEF IsPrefix
<1>2. Len(p) \in 0 .. Len(tree[d])
  BY <1>1, PathType, LenProperties DEF Path
<1>3. QED
  BY <1>1, <1>2 DEF TreeShape, IsDir, DirAt

\* Nothing promised is the working directory.
LEMMA PromisedNotOuter ==
  ASSUME KernelTypeOK, TreeOK, TreeShape
  PROVE  /\ ~Inside(Outer) /\ Outer \notin Promised
         /\ \A d \in Promised : d \in DOMAIN tree /\ d # Outer /\ tree[d] # NoPath
<1>1. ASSUME Inside(Outer) PROVE FALSE
  <2>1. Root \in DOMAIN tree /\ IsPrefix(tree[Root], tree[Outer])
    BY <1>1 DEF Inside, Subtree
  <2>2. tree[Root] # NoPath /\ tree[Outer] = NoPath
    BY <2>1 DEF TreeOK, TreeShape, Root, Outer
  <2>3. Len(tree[Root]) <= Len(tree[Outer])
    BY <2>1 DEF IsPrefix
  <2>4. Len(tree[Outer]) = 0
    BY <2>2 DEF NoPath
  <2>5. Len(tree[Root]) = 0
    BY <2>1, <2>3, <2>4, PathType
  <2>6. QED
    BY <2>1, <2>2, <2>5, PathType, EmptySeq DEF NoPath
<1>2. QED
  BY <1>1 DEF Promised, TreeOK

-----------------------------------------------------------------------------
(* The line of events.                                                      *)

\* The queue r is q with events at the end; unless r tells of an overflow the last
\* one is e.
Queues(q, r, e) ==
  Contains(r, Overflow) \/ (~Contains(q, Overflow) /\ r # <<>> /\ Last(r) = e)

\* An event is queued at the end or merged with an equal one there, unless the
\* queue is full (Inotify!Push).
LEMMA PushQueues ==
  ASSUME NEW q \in Seq(Event), NEW e \in Event, e # Overflow
  PROVE  Queues(q, Push(q, e), e)
<1>1. /\ Append(q, e) # <<>> /\ Last(Append(q, e)) = e
      /\ Len(q) \in Nat /\ Len(Append(q, e)) = Len(q) + 1
      /\ \A i \in 1 .. Len(q) : Append(q, e)[i] = q[i]
  BY AppendProperties, LenProperties DEF Last
<1>2. Contains(q, Overflow) => Contains(Append(q, e), Overflow)
  BY <1>1 DEF Contains
<1>3. Contains(Append(q, Overflow), Overflow)
  <2>1. Overflow \in Event
    BY DEF Overflow, Event, OverflowWd
  <2>2. /\ Len(q) \in Nat /\ Len(Append(q, Overflow)) = Len(q) + 1
        /\ Append(q, Overflow)[Len(q) + 1] = Overflow
    BY <2>1, AppendProperties, LenProperties
  <2>3. QED
    BY <2>2 DEF Contains
<1>4. QED
  BY <1>1, <1>2, <1>3 DEF Push, Queues

\* What is added to the queue is added to the line.
LEMMA UndecodedGrows ==
  ASSUME BaseInv, UNCHANGED programVars, queue' \in Seq(Event), IsPrefix(queue, queue')
  PROVE  /\ Undecoded \in Seq(Event) /\ Undecoded' \in Seq(Event)
         /\ Len(Undecoded) \in Nat /\ Len(Undecoded') \in Nat
         /\ Len(Undecoded) <= Len(Undecoded')
         /\ \A i \in 1 .. Len(Undecoded) : Undecoded'[i] = Undecoded[i]
         /\ queue' # <<>> => /\ Len(Undecoded') > 0
                             /\ Undecoded'[Len(Undecoded')] = Last(queue')
<1> DEFINE rest == IF pc = "handle" \/ batch = <<>> THEN batch ELSE Tail(batch)
<1>1. batch \in Seq(Event) /\ queue \in Seq(Event)
  BY DEF BaseInv, TypeOK, DataTypeOK, KernelTypeOK
<1>2. rest \in Seq(Event) /\ rest' = rest
  BY <1>1, HeadTailProperties DEF programVars
<1>3. Undecoded = rest \o queue /\ Undecoded' = rest \o queue'
  BY <1>2 DEF Undecoded
<1> HIDE DEF rest
<1>4. IsPrefix(Undecoded, Undecoded')
  BY <1>1, <1>2, <1>3, PrefixConcat
<1>5. Undecoded \in Seq(Event) /\ Undecoded' \in Seq(Event)
  BY <1>1, <1>2, <1>3, ConcatProperties
<1>6. ASSUME queue' # <<>>
      PROVE  Len(Undecoded') > 0 /\ Undecoded'[Len(Undecoded')] = Last(queue')
  <2>1. Len(queue') \in Nat /\ Len(queue') > 0 /\ Len(rest) \in Nat
    BY <1>2, <1>6, LenProperties, EmptySeq
  <2>2. Len(rest \o queue') = Len(rest) + Len(queue')
    BY <1>2, ConcatProperties
  <2>3. (rest \o queue')[Len(rest) + Len(queue')] = queue'[Len(queue')]
    BY <1>2, <2>1, ConcatProperties
  <2>4. QED
    BY <1>3, <2>1, <2>2, <2>3 DEF Last
<1>7. QED
  BY <1>4, <1>5, <1>6, PrefixElements, LenProperties

-----------------------------------------------------------------------------
(* What a step of another process leaves as it was.                         *)

\* The directories K keep their paths, and so does everything above them; they
\* are watched and blind as before.
Undisturbed(K) ==
  /\ K \subseteq DOMAIN tree /\ K \subseteq DOMAIN tree'
  /\ \A x \in K : tree'[x] = tree[x]
  /\ \A x \in K : \A y \in DOMAIN tree : IsPrefix(tree[y], tree[x]) => y \in K
  /\ \A x \in K : \A y \in DOMAIN tree' : IsPrefix(tree'[y], tree'[x]) => y \in K
  /\ \A x \in K : x \in blind' <=> x \in blind
  /\ \A x \in K : x \in watched' <=> x \in watched

\* They are below the same directories, and what was promised of them is still.
LEMMA UndisturbedKept ==
  ASSUME NEW K, Undisturbed(K), NEW x \in K
  PROVE  /\ \A y : x \in Subtree(y)' /\ y \in DOMAIN tree' <=> x \in Subtree(y) /\ y \in DOMAIN tree
         /\ \A y \in DOMAIN tree : x \in Subtree(y) => y \in K
         /\ Inside(x)' <=> Inside(x)
         /\ BehindBlind(x)' <=> BehindBlind(x)
         /\ x \in Promised' <=> x \in Promised
<1> USE DEF Undisturbed
<1>1. \A y : x \in Subtree(y)' /\ y \in DOMAIN tree' <=> x \in Subtree(y) /\ y \in DOMAIN tree
  BY DEF Subtree
<1>2. \A y \in DOMAIN tree : x \in Subtree(y) => y \in K
  BY DEF Subtree
<1>3. Inside(x)' <=> Inside(x)
  BY <1>1 DEF Inside
<1>4. BehindBlind(x)' <=> BehindBlind(x)
  <2>1. \A b : b \in blind' /\ b \in DOMAIN tree' /\ x \in Subtree(b)'
                 <=> b \in blind /\ b \in DOMAIN tree /\ x \in Subtree(b)
    BY <1>1, <1>2
  <2>2. QED
    BY <2>1 DEF BehindBlind
<1>5. x \in Promised' <=> x \in Promised
  BY <1>3, <1>4 DEF Promised
<1>6. QED
  BY <1>1, <1>2, <1>3, <1>4, <1>5

\* They have the same parents.
LEMMA UndisturbedParent ==
  ASSUME KernelTypeOK, KernelTypeOK', TreeShape, TreeShape',
         NEW K, Undisturbed(K), NEW c \in K, tree[c] # NoPath
  PROVE  Parent(c) \in K /\ Parent(c)' = Parent(c)
<1>1. /\ c \in DOMAIN tree /\ c \in DOMAIN tree' /\ tree'[c] = tree[c]
  BY DEF Undisturbed
<1>2. Parent(c) \in DOMAIN tree /\ tree[Parent(c)] = Front(tree[c]) /\ c \in Subtree(Parent(c))
  BY <1>1, ParentAbove
<1>3. Parent(c) \in K
  BY <1>2, UndisturbedKept
<1> DEFINE x == Parent(c)
<1>4. x \in DOMAIN tree' /\ tree'[x] = Front(tree'[c])
  BY <1>1, <1>2, <1>3 DEF Undisturbed
<1> HIDE DEF x
<1>5. Parent(c)' = CHOOSE y \in DOMAIN tree' : tree'[y] = Front(tree'[c])
  BY DEF Parent
<1>6. Parent(c)' \in DOMAIN tree' /\ tree'[Parent(c)'] = Front(tree'[c])
  BY <1>4, <1>5
<1>7. Parent(c)' = x
  BY <1>4, <1>6 DEF TreeShape
<1>8. QED
  BY <1>3, <1>7 DEF x

\* The directories of a step of another process: those of K keep their places;
\* whatever else is in the tree afterwards arrived as entry n of directory d of K,
\* with directory a, and is blind, or told of, or found by a listing to come.
Arrives(K, a, d, n) ==
  /\ d \in K /\ a \in DOMAIN tree' \ K
  /\ tree'[a] = Append(tree[d], n) /\ IsPrefix(tree[d], tree'[a])
  /\ \A x \in DOMAIN tree' \ K : IsPrefix(tree'[a], tree'[x])
  /\ a \in blind' \/ d \in watched \/ (Inside(d) /\ ~InWindow(d))
  /\ d \in watched /\ ~lost' =>
       /\ queue' # <<>> /\ Last(queue').wd = d /\ Last(queue').name = <<n>>

\* The step as far as the promise is concerned.
OthersPromise(K) ==
  /\ UNCHANGED programVars /\ queue' \in Seq(Event) /\ IsPrefix(queue, queue')
  /\ lost => lost'
  /\ Undisturbed(K)
  /\ DOMAIN tree' \subseteq K \/ \E d \in DOMAIN tree, n \in Names, a \in DOMAIN tree' : Arrives(K, a, d, n)

\* What arrives outside the tree of the user is blind or behind what is.
LEMMA ArrivalOutside ==
  ASSUME BaseInv, BaseInv', CoverInv, TreeShape', NEW K, OthersPromise(K)
  PROVE  OutsideBlind'
<1>1. KernelTypeOK /\ KernelTypeOK' /\ TreeOK /\ TreeShape
  BY DEF BaseInv, TypeOK, CoverInv
<1> SUFFICES ASSUME NEW x \in DOMAIN tree', x # Outer
             PROVE  Inside(x)' \/ BehindBlind(x)'
  BY DEF OutsideBlind
<1>2. CASE x \in K
  BY <1>2, UndisturbedKept DEF OthersPromise, Undisturbed, CoverInv, OutsideBlind
<1>3. CASE x \notin K
  <2>1. PICK d \in DOMAIN tree, n \in Names, a \in DOMAIN tree' : Arrives(K, a, d, n)
    BY <1>3 DEF OthersPromise
  <2>2. d \in K /\ x \in Subtree(a)' /\ a \in Subtree(d)' /\ d \in DOMAIN tree'
    BY <1>3, <2>1 DEF Arrives, Subtree, OthersPromise, Undisturbed
  <2>3. \A y \in DOMAIN tree' : tree'[y] \in Seq(Names)
    BY <1>1 DEF KernelTypeOK, Path
  <2>4. \A b \in DOMAIN tree' : d \in Subtree(b)' => x \in Subtree(b)'
    <3>1. IsPrefix(tree'[d], tree'[x])
      BY <2>2, <2>3, PrefixTransitive DEF Subtree
    <3>2. QED
      BY <2>2, <2>3, <3>1, PrefixTransitive DEF Subtree
  <2>5. CASE a \in blind'
    BY <2>1, <2>2, <2>5 DEF BehindBlind
  <2>6. CASE a \notin blind'
    <3>1. d \in watched \/ Inside(d)
      BY <2>1, <2>6 DEF Arrives
    <3>2. d # Outer
      BY <1>1, <3>1, PromisedNotOuter DEF TreeShape
    <3>3. Inside(d)' \/ BehindBlind(d)'
      BY <2>2, <3>2, UndisturbedKept DEF CoverInv, OutsideBlind, OthersPromise, Undisturbed
    <3>4. QED
      BY <2>4, <3>3 DEF Inside, BehindBlind
  <2>7. QED
    BY <2>5, <2>6
<1>4. QED
  BY <1>2, <1>3

\* A directory left as it was keeps its place.
LEMMA KeptPlace ==
  ASSUME BaseInv, BaseInv', CoverInv, TreeShape', NEW K, OthersPromise(K),
         NEW place \in [Promised -> 0 .. Len(Undecoded)], NEW next,
         NEW d \in K, d \in Promised, InPlace(place, d),
         \A x \in K : x \in Promised => next[x] = place[x]
  PROVE  InPlace(next, d)'
<1>1. KernelTypeOK /\ KernelTypeOK' /\ TreeOK /\ TreeShape
  BY DEF BaseInv, TypeOK, CoverInv
<1>2. /\ UNCHANGED <<wd_map, pc, todo, paths>>
      /\ Undisturbed(K)
  BY DEF OthersPromise, programVars
<1>3. tree'[d] = tree[d] /\ next[d] = place[d]
  BY <1>2 DEF Undisturbed
<1>4. CASE place[d] = 0 /\ (Right(d) \/ Claimed(d))
  <2>1. Right(d) => Right(d)'
    BY <1>2, <1>3 DEF Right, Undisturbed
  <2>2. ToList' = ToList /\ ToAdd' = ToAdd
    BY <1>2 DEF ToList, ToAdd
  <2>3. Claimed(d) => Claimed(d)'
    BY <1>3, <2>2 DEF Claimed
  <2>4. QED
    BY <1>3, <1>4, <2>1, <2>3 DEF InPlace
<1>5. CASE \E c \in Promised :
             /\ d \in Subtree(c) /\ Parent(c) \in Promised
             /\ place[Parent(c)] < place[d] /\ Tells(Undecoded[place[d]], c)
  <2>1. PICK c \in Promised :
          /\ d \in Subtree(c) /\ Parent(c) \in Promised
          /\ place[Parent(c)] < place[d] /\ Tells(Undecoded[place[d]], c)
    BY <1>5
  <2>2. c \in DOMAIN tree /\ tree[c] # NoPath
    BY <1>1, PromisedNotOuter
  <2>3. c \in K /\ c \in Promised' /\ d \in Subtree(c)'
    BY <1>2, <2>1, <2>2, UndisturbedKept
  <2>4. Parent(c) \in K /\ Parent(c)' = Parent(c)
    BY <1>1, <1>2, <2>2, <2>3, UndisturbedParent
  <2>5. Parent(c) \in Promised' /\ next[Parent(c)] = place[Parent(c)]
    BY <1>2, <2>1, <2>4, UndisturbedKept
  <2>6. /\ Len(Undecoded) \in Nat
        /\ \A i \in 1 .. Len(Undecoded) : Undecoded'[i] = Undecoded[i]
    BY UndecodedGrows DEF OthersPromise
  <2>7. place[d] \in 1 .. Len(Undecoded)
    <3>1. place[d] \in 0 .. Len(Undecoded) /\ place[Parent(c)] \in 0 .. Len(Undecoded)
      BY <2>1
    <3>2. QED
      BY <2>1, <2>6, <3>1
  <2>8. Undecoded'[next[d]] = Undecoded[place[d]]
    BY <1>3, <2>6, <2>7
  <2>9. tree'[c] = tree[c]
    BY <1>2, <2>3 DEF Undisturbed
  <2>10. Tells(Undecoded[next[d]], c)'
    <3>1. Undecoded'[next[d]].wd = Parent(c)' /\ Undecoded'[next[d]].name = <<Last(tree'[c])>>
      BY <2>1, <2>4, <2>8, <2>9 DEF Tells
    <3>2. QED
      BY <3>1 DEF Tells
  <2>11. next[Parent(c)'] < next[d]
    BY <1>3, <2>1, <2>4, <2>5
  <2>12. c \in Promised' /\ d \in Subtree(c)' /\ Parent(c)' \in Promised'
    BY <2>3, <2>4, <2>5
  <2>13. QED
    BY <2>10, <2>11, <2>12 DEF InPlace
<1>6. QED
  BY <1>4, <1>5 DEF InPlace

\* What arrived and is promised came into a directory promised, and is not blind.
LEMMA ArrivalPromised ==
  ASSUME BaseInv, BaseInv', CoverInv, NEW K, OthersPromise(K),
         NEW d, NEW n \in Names, NEW a, Arrives(K, a, d, n),
         NEW x \in Promised', x \notin K
  PROVE  /\ d \in K /\ d \in Promised /\ a \in Promised' /\ x \in Subtree(a)'
         /\ IsPrefix(tree'[d], tree'[x])
         /\ d \in watched \/ ~InWindow(d)
<1>1. KernelTypeOK /\ KernelTypeOK' /\ TreeOK /\ TreeShape
  BY DEF BaseInv, TypeOK, CoverInv
<1>2. x \in DOMAIN tree' /\ Inside(x)' /\ ~BehindBlind(x)'
  BY DEF Promised
<1>3. /\ d \in K /\ d \in DOMAIN tree' /\ a \in DOMAIN tree' /\ a \notin K
      /\ IsPrefix(tree'[d], tree'[a]) /\ IsPrefix(tree'[a], tree'[x])
  BY <1>2 DEF Arrives, OthersPromise, Undisturbed
<1>4. \A y \in DOMAIN tree' : tree'[y] \in Seq(Names)
  BY <1>1 DEF KernelTypeOK, Path
<1>5. IsPrefix(tree'[d], tree'[x])
  BY <1>2, <1>3, <1>4, PrefixTransitive
<1>6. /\ \A b \in DOMAIN tree' : d \in Subtree(b)' => a \in Subtree(b)'
      /\ \A b \in DOMAIN tree' : a \in Subtree(b)' => x \in Subtree(b)'
  BY <1>2, <1>3, <1>4, PrefixTransitive DEF Subtree
<1>7. x \in Subtree(a)' /\ a \in Subtree(a)'
  <2>1. Len(tree'[a]) \in Nat /\ IsPrefix(tree'[a], tree'[a])
    BY <1>3, <1>4, LenProperties DEF IsPrefix
  <2>2. QED
    BY <1>2, <1>3, <2>1 DEF Subtree
<1>8. ~BehindBlind(a)' /\ ~BehindBlind(d)'
  BY <1>2, <1>6 DEF BehindBlind
<1>9. a \notin blind'
  BY <1>3, <1>7, <1>8 DEF BehindBlind
<1>10. d \in watched \/ (Inside(d) /\ ~InWindow(d))
  BY <1>9 DEF Arrives
<1>11. d \in Promised
  <2>1. d # Outer
    BY <1>1, <1>10, PromisedNotOuter DEF TreeShape
  <2>2. ~BehindBlind(d) /\ d \in DOMAIN tree
    BY <1>3, <1>8, UndisturbedKept DEF OthersPromise, Undisturbed
  <2>3. QED
    BY <2>1, <2>2 DEF CoverInv, OutsideBlind, Promised
<1>12. Inside(a)'
  <2>1. Inside(d)'
    BY <1>3, <1>11, UndisturbedKept DEF OthersPromise, Promised
  <2>2. QED
    BY <1>6, <2>1 DEF Inside
<1>13. QED
  BY <1>3, <1>5, <1>7, <1>8, <1>10, <1>11, <1>12 DEF Promised

\* It gets a place: that of the event that tells of it, when its new parent is
\* watched; else the place of its new parent.
LEMMA ArrivedPlace ==
  ASSUME BaseInv, BaseInv', CoverInv, TreeShape', NEW K, OthersPromise(K), ~lost',
         NEW d, NEW n \in Names, NEW a, Arrives(K, a, d, n),
         NEW place \in [Promised -> 0 .. Len(Undecoded)],
         \A y \in Promised : InPlace(place, y),
         NEW next, \A y \in K : y \in Promised => next[y] = place[y],
         NEW x \in Promised', x \notin K,
         next[x] = IF d \in watched THEN Len(Undecoded') ELSE place[d]
  PROVE  InPlace(next, x)'
<1>1. KernelTypeOK /\ KernelTypeOK' /\ TreeOK /\ TreeShape
  BY DEF BaseInv, TypeOK, CoverInv
<1>2. /\ d \in K /\ d \in Promised /\ a \in Promised' /\ x \in Subtree(a)'
      /\ IsPrefix(tree'[d], tree'[x])
      /\ d \in watched \/ ~InWindow(d)
  BY ArrivalPromised
<1>3. /\ UNCHANGED <<wd_map, pc, todo, paths>>
      /\ Undisturbed(K) /\ d \in DOMAIN tree /\ d \in DOMAIN tree' /\ tree'[d] = tree[d]
  BY <1>2 DEF OthersPromise, programVars, Undisturbed
<1>4. /\ Len(Undecoded) \in Nat /\ Len(Undecoded') \in Nat
      /\ Len(Undecoded) <= Len(Undecoded')
      /\ \A i \in 1 .. Len(Undecoded) : Undecoded'[i] = Undecoded[i]
      /\ queue' # <<>> => /\ Len(Undecoded') > 0
                          /\ Undecoded'[Len(Undecoded')] = Last(queue')
  BY UndecodedGrows DEF OthersPromise
<1>5. place[d] \in 0 .. Len(Undecoded) /\ InPlace(place, d) /\ next[d] = place[d]
  BY <1>2
<1>6. d \in Promised' /\ \A c \in Promised : d \in Subtree(c) => c \in K
  <2>1. \A c \in Promised : c \in DOMAIN tree
    BY DEF Promised
  <2>2. QED
    BY <1>2, <1>3, <2>1, UndisturbedKept
<1>7. CASE d \in watched
  <2>1. queue' # <<>> /\ Last(queue').wd = d /\ Last(queue').name = <<n>>
    BY <1>7 DEF Arrives
  <2>2. tree'[a] = Append(tree'[d], n) /\ tree'[d] \in Seq(Names) /\ a \in DOMAIN tree'
    BY <1>1, <1>3 DEF Arrives, KernelTypeOK, Path
  <2>3. tree'[d] = Front(tree'[a]) /\ Last(tree'[a]) = n
    BY <2>2, AppendProperties, LenProperties, FrontOfAppend
  <2>4. Parent(a)' = d
    <3>1. Parent(a)' = CHOOSE y \in DOMAIN tree' : tree'[y] = Front(tree'[a])
      BY DEF Parent
    <3>2. Parent(a)' \in DOMAIN tree' /\ tree'[Parent(a)'] = Front(tree'[a])
      BY <1>3, <2>3, <3>1
    <3>3. QED
      BY <1>3, <2>3, <3>2 DEF TreeShape
  <2>5. Tells(Undecoded[next[x]], a)'
    BY <1>4, <1>7, <2>1, <2>3, <2>4 DEF Tells
  <2>6. place[d] < Len(Undecoded')
    <3>1. SUFFICES ASSUME place[d] = Len(Undecoded') PROVE FALSE
      BY <1>4, <1>5
    <3>2. place[d] = Len(Undecoded) /\ place[d] > 0
      BY <1>4, <1>5, <2>1, <3>1
    <3>3. PICK c \in Promised : d \in Subtree(c) /\ Tells(Undecoded[place[d]], c)
      BY <1>5, <3>2 DEF InPlace
    <3>4. Undecoded[place[d]] = Last(queue')
      BY <1>4, <2>1, <3>1, <3>2
    <3>5. Parent(c) = d
      BY <2>1, <3>3, <3>4 DEF Tells
    <3>6. QED
      BY <1>1, <3>3, <3>5, PromisedNotOuter, ParentAbove
  <2>7. next[Parent(a)'] < next[x]
    BY <1>5, <1>7, <2>4, <2>6
  <2>8. QED
    BY <1>2, <1>6, <2>4, <2>5, <2>7 DEF InPlace
<1>8. CASE d \notin watched /\ place[d] = 0 /\ Claimed(d)
  <2>1. tree[d] \notin ToAdd
    BY <1>2, <1>8 DEF InWindow, ToAdd, Contains, ToSet
  <2>2. PICK p \in ToList : IsPrefix(p, tree[d])
    BY <1>8, <2>1 DEF Claimed
  <2>3. p \in Seq(Names) /\ tree'[d] \in Seq(Names) /\ tree'[x] \in Seq(Names)
    <3>1. ToList \subseteq Path
      <4>1. \A i \in DOMAIN todo : todo[i] \in Path
        BY LenProperties DEF BaseInv, TypeOK, DataTypeOK
      <4>2. WatchPath \in Path
        BY NamesAssumption DEF WatchPath, Path
      <4>3. QED
        BY <4>1, <4>2 DEF ToList, ToSet
    <3>2. x \in DOMAIN tree'
      BY DEF Promised
    <3>3. QED
      BY <1>1, <1>3, <2>2, <3>1, <3>2 DEF KernelTypeOK, Path
  <2>4. IsPrefix(p, tree'[x])
    BY <1>2, <1>3, <2>2, <2>3, PrefixTransitive
  <2>5. ToList' = ToList
    BY <1>3 DEF ToList
  <2>6. QED
    BY <1>8, <2>2, <2>4, <2>5 DEF InPlace, Claimed
<1>9. CASE /\ d \notin watched
           /\ \E c \in Promised :
                /\ d \in Subtree(c) /\ Parent(c) \in Promised
                /\ place[Parent(c)] < place[d] /\ Tells(Undecoded[place[d]], c)
  <2>1. InPlace(next, d)'
    BY <1>2, <1>5, KeptPlace
  <2>2. next[x] = next[d] /\ next[d] # 0
    <3>1. \A c \in Promised : place[c] \in 0 .. Len(Undecoded)
      OBVIOUS
    <3>2. QED
      BY <1>4, <1>5, <1>9, <3>1
  <2>3. PICK c \in Promised' :
          /\ d \in Subtree(c)' /\ Parent(c)' \in Promised'
          /\ next[Parent(c)'] < next[d] /\ Tells(Undecoded[next[d]], c)'
    BY <2>1, <2>2 DEF InPlace
  <2>4. x \in Subtree(c)'
    <3>1. \A y \in DOMAIN tree' : tree'[y] \in Seq(Names)
      BY <1>1 DEF KernelTypeOK, Path
    <3>2. x \in DOMAIN tree' /\ c \in DOMAIN tree'
      BY DEF Promised
    <3>3. QED
      BY <1>2, <1>3, <2>3, <3>1, <3>2, PrefixTransitive DEF Subtree
  <2>5. Tells(Undecoded[next[x]], c)'
    BY <2>2, <2>3 DEF Tells
  <2>6. QED
    BY <2>2, <2>3, <2>4, <2>5 DEF InPlace
<1>10. QED
  BY <1>5, <1>7, <1>8, <1>9 DEF InPlace, Right

\* The promise survives every step of another process: what stays keeps its place
\* and what arrives gets one.
LEMMA PromiseKept ==
  ASSUME BaseInv, BaseInv', CoverInv, TreeShape', NEW K, OthersPromise(K)
  PROVE  CoverInv'
<1>1. OutsideBlind'
  BY ArrivalOutside
<1>2. Reached'
  <2> SUFFICES ASSUME ~lost', pc' \notin Ended
               PROVE  \E next \in [Promised' -> 0 .. Len(Undecoded')] :
                        \A x \in Promised' : InPlace(next, x)'
    BY DEF Reached
  <2>1. ~lost /\ pc \notin Ended
    BY DEF OthersPromise, programVars
  <2>2. PICK place \in [Promised -> 0 .. Len(Undecoded)] : \A d \in Promised : InPlace(place, d)
    BY <2>1 DEF CoverInv, Reached
  <2>3. /\ Len(Undecoded) \in Nat /\ Len(Undecoded') \in Nat
        /\ Len(Undecoded) <= Len(Undecoded')
    BY UndecodedGrows DEF OthersPromise
  <2>4. \A x \in K : x \in Promised' <=> x \in Promised
    BY UndisturbedKept DEF OthersPromise
  <2>5. CASE DOMAIN tree' \subseteq K
    <3>1. \A x \in Promised' : x \in K /\ x \in Promised
      BY <2>4, <2>5 DEF Promised
    <3>2. [x \in Promised' |-> place[x]] \in [Promised' -> 0 .. Len(Undecoded')]
      <4>1. \A x \in Promised : place[x] \in 0 .. Len(Undecoded')
        BY <2>3
      <4>2. QED
        BY <3>1, <4>1
    <3>3. PICK next \in [Promised' -> 0 .. Len(Undecoded')] :
            \A x \in Promised' : next[x] = place[x]
      BY <3>2
    <3>4. \A x \in Promised' : InPlace(next, x)'
      BY <2>2, <2>4, <3>1, <3>3, KeptPlace
    <3>5. QED
      BY <3>4
  <2>6. CASE \E d \in DOMAIN tree, n \in Names, a \in DOMAIN tree' : Arrives(K, a, d, n)
    <3>1. PICK d \in DOMAIN tree, n \in Names, a \in DOMAIN tree' : Arrives(K, a, d, n)
      BY <2>6
    <3> DEFINE p == IF d \in watched THEN Len(Undecoded') ELSE place[d]
    <3>2. [x \in Promised' |-> IF x \in K THEN place[x] ELSE p]
            \in [Promised' -> 0 .. Len(Undecoded')]
      <4>1. \A x \in Promised : place[x] \in 0 .. Len(Undecoded')
        BY <2>3
      <4>2. \A x \in Promised' : x \notin K => d \in Promised
        BY <3>1, ArrivalPromised
      <4>3. \A x \in Promised' : x \notin K => p \in 0 .. Len(Undecoded')
        BY <2>3, <4>1, <4>2
      <4>4. QED
        BY <2>4, <4>1, <4>3
    <3>3. PICK next \in [Promised' -> 0 .. Len(Undecoded')] :
            \A x \in Promised' : next[x] = IF x \in K THEN place[x] ELSE p
      BY <3>2
    <3>4. /\ \A x \in K : x \in Promised => next[x] = place[x]
          /\ \A x \in Promised' : x \notin K => next[x] = p
      BY <2>4, <3>3
    <3>5. ASSUME NEW x \in Promised' PROVE InPlace(next, x)'
      <4>1. CASE x \in K
        BY <2>2, <2>4, <3>4, <4>1, KeptPlace
      <4>2. CASE x \notin K
        BY <2>2, <3>1, <3>4, <4>2, ArrivedPlace
      <4>3. QED
        BY <4>1, <4>2
    <3>6. QED
      BY <3>5
  <2>7. QED
    BY <2>5, <2>6 DEF OthersPromise
<1>3. QED
  BY <1>1, <1>2 DEF CoverInv

-----------------------------------------------------------------------------
(* Operations of other processes keep the promise.                          *)

\* The beginning of a sequence does not change when an element is appended.
LEMMA FirstOfAppend ==
  ASSUME NEW S, NEW s \in Seq(S), NEW e \in S, NEW k \in 0 .. Len(s)
  PROVE  SubSeq(Append(s, e), 1, k) = SubSeq(s, 1, k)
<1>1. /\ Append(s, e) \in Seq(S) /\ Len(s) \in Nat /\ Len(Append(s, e)) = Len(s) + 1
      /\ \A i \in 1 .. Len(s) : Append(s, e)[i] = s[i]
  BY AppendProperties, LenProperties
<1>2. k \in 0 .. Len(Append(s, e))
  BY <1>1
<1>3. /\ SubSeq(s, 1, k) \in Seq(S) /\ Len(SubSeq(s, 1, k)) = k
      /\ \A i \in 1 .. k : SubSeq(s, 1, k)[i] = s[i]
  BY FirstElements
<1>4. /\ SubSeq(Append(s, e), 1, k) \in Seq(S) /\ Len(SubSeq(Append(s, e), 1, k)) = k
      /\ \A i \in 1 .. k : SubSeq(Append(s, e), 1, k)[i] = Append(s, e)[i]
  BY <1>1, <1>2, FirstElements
<1>5. \A i \in 1 .. k : SubSeq(Append(s, e), 1, k)[i] = SubSeq(s, 1, k)[i]
  BY <1>1, <1>3, <1>4
<1>6. QED
  BY <1>3, <1>4, <1>5, SeqEqual

\* Unless the queue overflows, the last event of the queue is the one notified.
LEMMA NotifyQueues ==
  ASSUME NEW q \in Seq(Event), NEW d \in watched, NEW kind \in NamedKinds, NEW n \in Names,
         watched \subseteq Nat, NEW r, r = Notify(q, d, kind, n), ~Contains(r, Overflow)
  PROVE  r # <<>> /\ Last(r).wd = d /\ Last(r).name = <<n>>
<1> DEFINE e == [wd |-> d, kind |-> kind, name |-> <<n>>]
<1>1. e \in Event /\ e # Overflow
  BY DEF Event, Overflow, OverflowWd
<1>2. r = Push(q, e)
  BY DEF Notify
<1>3. e.wd = d /\ e.name = <<n>>
  OBVIOUS
<1> HIDE DEF e
<1>4. r # <<>> /\ Last(r) = e
  BY <1>1, <1>2, PushQueues DEF Queues
<1>5. QED
  BY <1>3, <1>4

\* What the steps of other processes do besides.
OthersNote ==
  UNCHANGED programVars /\ lost' = (lost \/ Contains(queue', Overflow))

\* A directory created is blind, or told of, or found.
LEMMA MkdirCover ==
  ASSUME BaseInv, BaseInv', CoverInv, OthersNote,
         NEW d \in DOMAIN tree, NEW n \in Names, Mkdir(d, n), NoteArrival(born, {born}, d)
  PROVE  CoverInv'
<1> DEFINE p == Append(tree[d], n)
           K == DOMAIN tree
<1>1. KernelTypeOK /\ KernelTypeOK' /\ TreeOK /\ TreeShape
  BY DEF BaseInv, TypeOK, CoverInv
<1>2. /\ QueueGrows(queue, queue', watched)
      /\ watched' = watched
      /\ DOMAIN tree' = DOMAIN tree \cup {born} /\ born \notin DOMAIN tree
      /\ \A x \in DOMAIN tree : tree'[x] = tree[x]
      /\ tree'[born] = p
  BY <1>1, MkdirKernel
<1>3. tree[d] \in Seq(Names) /\ p \in Seq(Names) /\ Len(p) = Len(tree[d]) + 1 /\ p # NoPath
      /\ IsPrefix(tree[d], p)
  BY <1>1, PathType, AppendProperties, PrefixAppend DEF NoPath
<1>4. \A x \in DOMAIN tree : ~IsPrefix(p, tree[x]) /\ tree[x] # p
  <2>1. ~IsDir(p)
    BY DEF Mkdir
  <2>2. p \in Path
    BY <1>3 DEF Path
  <2>3. QED
    BY <1>1, <2>1, <2>2, PrefixIsDir DEF IsDir, DirAt
<1>5. TreeShape'
  <2>1. Outer \in DOMAIN tree' /\ tree'[Outer] = NoPath /\ Outer \notin watched'
    BY <1>1, <1>2 DEF TreeShape
  <2>2. \A x, y \in DOMAIN tree' : tree'[x] = tree'[y] => x = y
    BY <1>1, <1>2, <1>4 DEF TreeShape
  <2>3. ASSUME NEW x \in DOMAIN tree', NEW k \in 0 .. Len(tree'[x])
        PROVE  \E y \in DOMAIN tree' : tree'[y] = SubSeq(tree'[x], 1, k)
    <3>1. ASSUME NEW y \in DOMAIN tree, NEW j \in 0 .. Len(tree[y])
          PROVE  \E z \in DOMAIN tree' : tree'[z] = SubSeq(tree[y], 1, j)
      BY <1>1, <1>2 DEF TreeShape, IsDir, DirAt
    <3>2. CASE x \in DOMAIN tree
      BY <1>2, <3>1, <3>2
    <3>3. CASE x = born /\ k = Len(p)
      BY <1>2, <1>3, <3>3, SubSeqFull
    <3>4. CASE x = born /\ k # Len(p)
      <4>1. k \in 0 .. Len(tree[d])
        BY <1>1, <1>2, <1>3, <3>4, PathType
      <4>2. SubSeq(p, 1, k) = SubSeq(tree[d], 1, k)
        BY <1>3, <4>1, FirstOfAppend
      <4>3. QED
        BY <1>2, <3>1, <3>4, <4>1, <4>2
    <3>5. QED
      BY <1>2, <3>2, <3>3, <3>4
  <2>4. QED
    BY <2>1, <2>2, <2>3 DEF TreeShape, IsDir, DirAt
<1>6. Undisturbed(K)
  BY <1>2, <1>4 DEF Undisturbed, NoteArrival
<1>7. Arrives(K, born, d, n)
  <2>1. d \in watched /\ ~lost' =>
          queue' # <<>> /\ Last(queue').wd = d /\ Last(queue').name = <<n>>
    <3>1. queue' = Notify(queue, d, "create", n) /\ "create" \in NamedKinds
      BY DEF Mkdir, NamedKinds
    <3>2. queue \in Seq(Event) /\ watched \subseteq Nat
      BY <1>1 DEF KernelTypeOK
    <3>3. SUFFICES ASSUME d \in watched, ~Contains(queue', Overflow)
                   PROVE  queue' # <<>> /\ Last(queue').wd = d /\ Last(queue').name = <<n>>
      BY DEF OthersNote
    <3>4. QED
      BY <3>1, <3>2, <3>3, NotifyQueues
  <2>2. IsPrefix(p, p)
    BY <1>3, LenProperties DEF IsPrefix
  <2>3. QED
    BY <1>2, <1>3, <2>1, <2>2 DEF Arrives, NoteArrival
<1>8. OthersPromise(K)
  BY <1>2, <1>6, <1>7 DEF OthersPromise, OthersNote, QueueGrows
<1>9. QED
  BY <1>5, <1>8, PromiseKept

\* A directory removed is promised no more, and nothing was below it.
LEMMA RmdirCover ==
  ASSUME BaseInv, BaseInv', CoverInv, OthersNote,
         NEW c \in DOMAIN tree, Rmdir(c), UNCHANGED blind
  PROVE  CoverInv'
<1> DEFINE K == DOMAIN tree \ {c}
<1>1. KernelTypeOK /\ KernelTypeOK' /\ TreeOK /\ TreeShape
  BY DEF BaseInv, TypeOK, CoverInv
<1>2. c # Outer /\ Subtree(c) = {c} /\ watched' = watched \ {c}
  BY DEF Rmdir
<1>3. /\ QueueGrows(queue, queue', watched)
      /\ DOMAIN tree' = DOMAIN tree \ {c}
      /\ \A x \in DOMAIN tree' : tree'[x] = tree[x]
  BY <1>1, <1>2, RmdirKernel DEF TreeOK
<1>4. \A x \in K : ~IsPrefix(tree[c], tree[x])
  BY <1>2 DEF Subtree
<1>5. TreeShape'
  <2>1. Outer \in DOMAIN tree' /\ tree'[Outer] = NoPath /\ Outer \notin watched'
    BY <1>1, <1>2, <1>3 DEF TreeShape
  <2>2. \A x, y \in DOMAIN tree' : tree'[x] = tree'[y] => x = y
    BY <1>1, <1>3 DEF TreeShape
  <2>3. ASSUME NEW x \in DOMAIN tree', NEW k \in 0 .. Len(tree'[x])
        PROVE  \E y \in DOMAIN tree' : tree'[y] = SubSeq(tree'[x], 1, k)
    <3>1. x \in DOMAIN tree /\ x # c /\ tree'[x] = tree[x] /\ k \in 0 .. Len(tree[x])
      BY <1>3
    <3>2. PICK y \in DOMAIN tree : tree[y] = SubSeq(tree[x], 1, k)
      BY <1>1, <3>1 DEF TreeShape, IsDir, DirAt
    <3>3. IsPrefix(tree[y], tree[x])
      <4>1. /\ tree[x] \in Seq(Names) /\ Len(SubSeq(tree[x], 1, k)) = k
            /\ \A i \in 1 .. k : SubSeq(tree[x], 1, k)[i] = tree[x][i]
        BY <1>1, <3>1, PathType, FirstElements
      <4>2. tree[y] \in Seq(Names) /\ Len(tree[x]) \in Nat
        BY <1>1, <3>1, PathType
      <4>3. /\ Len(tree[y]) = k /\ k <= Len(tree[x]) /\ tree[y] \in Seq(Names)
            /\ \A i \in 1 .. Len(tree[y]) : tree[y][i] = tree[x][i]
        BY <3>1, <3>2, <4>1, <4>2
      <4>4. QED
        BY <4>1, <4>3, PrefixElements
    <3>4. y # c
      BY <1>4, <3>1, <3>3
    <3>5. QED
      BY <1>3, <3>1, <3>2, <3>4
  <2>4. QED
    BY <2>1, <2>2, <2>3 DEF TreeShape, IsDir, DirAt
<1>6. Undisturbed(K)
  BY <1>2, <1>3, <1>4 DEF Undisturbed
<1>7. OthersPromise(K)
  BY <1>3, <1>6 DEF OthersPromise, OthersNote, QueueGrows
<1>8. QED
  BY <1>5, <1>7, PromiseKept

\* A change of a file changes no place.
LEMMA FileEventCover ==
  ASSUME BaseInv, BaseInv', CoverInv, OthersNote,
         NEW d \in DOMAIN tree, NEW n \in Names, NEW kind \in FileKinds,
         FileEvent(d, n, kind), UNCHANGED blind
  PROVE  CoverInv'
<1>1. KernelTypeOK /\ TreeShape
  BY DEF BaseInv, TypeOK, CoverInv
<1>2. QueueGrows(queue, queue', watched) /\ watched' = watched /\ tree' = tree
  BY <1>1, FileEventKernel
<1>3. TreeShape'
  BY <1>1, <1>2 DEF TreeShape, IsDir, DirAt
<1>4. Undisturbed(DOMAIN tree)
  BY <1>2 DEF Undisturbed
<1>5. OthersPromise(DOMAIN tree)
  BY <1>2, <1>4 DEF OthersPromise, OthersNote, QueueGrows
<1>6. QED
  BY <1>3, <1>5, PromiseKept

\* Path t is s with its beginning c replaced by p.
MovedBelow(t, p, s, c) ==
  /\ Len(t) = Len(p) + Len(s) - Len(c)
  /\ Len(c) \in Nat /\ Len(s) \in Nat /\ Len(p) \in Nat /\ Len(c) <= Len(s)
  /\ \A i \in 1 .. Len(p) : t[i] = p[i]
  /\ \A i \in Len(c) + 1 .. Len(s) : t[i - Len(c) + Len(p)] = s[i]
  /\ \A i \in 1 .. Len(c) : s[i] = c[i]

\* What a rename makes of path s below c.
Moves(t, p, s, c) == t = p \o SubSeq(s, Len(c) + 1, Len(s))

LEMMA MovedPath ==
  ASSUME NEW S, NEW c \in Seq(S), NEW s \in Seq(S), NEW p \in Seq(S), IsPrefix(c, s),
         NEW t, Moves(t, p, s, c)
  PROVE  t \in Seq(S) /\ IsPrefix(p, t) /\ MovedBelow(t, p, s, c)
<1> DEFINE r == SubSeq(s, Len(c) + 1, Len(s))
<1>1. Len(c) \in Nat /\ Len(s) \in Nat /\ Len(p) \in Nat
  BY LenProperties
<1>2. Len(c) <= Len(s) /\ \A i \in 1 .. Len(c) : s[i] = c[i]
  BY PrefixElements
<1>3. /\ r \in Seq(S) /\ Len(r) = Len(s) - Len(c)
      /\ \A i \in 1 .. Len(s) - Len(c) : r[i] = s[i + Len(c)]
  <2>1. \A i \in Len(c) + 1 .. Len(s) : s[i] \in S
    BY <1>1, ElementOfSeq
  <2>2. /\ r \in Seq(S)
        /\ Len(r) = IF Len(c) + 1 <= Len(s) THEN Len(s) - (Len(c) + 1) + 1 ELSE 0
        /\ \A i \in 1 .. Len(s) - (Len(c) + 1) + 1 : r[i] = s[(Len(c) + 1) + i - 1]
    BY <1>1, <2>1, SubSeqProperties
  <2>3. QED
    BY <1>1, <1>2, <2>2
<1>t. t = p \o r
  BY DEF Moves
<1> HIDE DEF r
<1>4. /\ t \in Seq(S) /\ Len(t) = Len(p) + Len(r)
      /\ \A i \in 1 .. Len(p) + Len(r) : t[i] = IF i <= Len(p) THEN p[i] ELSE r[i - Len(p)]
  <2>2. /\ p \o r \in Seq(S) /\ Len(p \o r) = Len(p) + Len(r)
        /\ \A i \in 1 .. Len(p) + Len(r) :
             (p \o r)[i] = IF i <= Len(p) THEN p[i] ELSE r[i - Len(p)]
    <3>1. r \in Seq(S)
      BY <1>3
    <3>2. QED
      BY <3>1, ConcatProperties
  <2>3. QED
    BY <1>t, <2>2, Zenon
<1>5. \A i \in 1 .. Len(p) : t[i] = p[i]
  <2>1. Len(p) \in Nat /\ Len(r) \in Nat
    BY <1>1, <1>2, <1>3
  <2>2. \A i \in 1 .. Len(p) : i \in 1 .. Len(p) + Len(r) /\ i <= Len(p)
    BY <2>1
  <2>3. QED
    BY <1>4, <2>2
<1>6. ASSUME NEW i \in Len(c) + 1 .. Len(s) PROVE t[i - Len(c) + Len(p)] = s[i]
  <2> DEFINE j == i - Len(c) + Len(p)
             l == i - Len(c)
  <2>1. /\ j \in 1 .. Len(p) + Len(r) /\ ~(j <= Len(p)) /\ j - Len(p) = l
        /\ l \in 1 .. Len(s) - Len(c) /\ l + Len(c) = i
    BY <1>1, <1>2, <1>3
  <2> HIDE DEF j, l
  <2>2. t[j] = r[l]
    BY <1>4, <2>1
  <2>3. r[l] = s[i]
    BY <1>3, <2>1
  <2>4. QED
    BY <2>2, <2>3 DEF j
<1>7. Len(t) = Len(p) + Len(s) - Len(c)
  BY <1>1, <1>3, <1>4
<1>8. IsPrefix(p, t)
  <2>1. t \in Seq(S) /\ Len(p) <= Len(t)
    BY <1>1, <1>2, <1>4, <1>7
  <2>2. \A i \in 1 .. Len(p) : p[i] = t[i]
    BY <1>5
  <2>3. QED
    BY <2>1, <2>2, PrefixElements
<1>9. QED
  BY <1>1, <1>2, <1>4, <1>5, <1>6, <1>7, <1>8 DEF MovedBelow

\* Moving is one to one, and moves what is above a path with it.
LEMMA MovedPaths ==
  ASSUME NEW S, NEW c \in Seq(S), NEW s \in Seq(S), NEW p \in Seq(S), IsPrefix(c, s),
         NEW u \in Seq(S), IsPrefix(c, u),
         NEW t, Moves(t, p, s, c),
         NEW v, Moves(v, p, u, c)
  PROVE  /\ t = v => s = u
         /\ IsPrefix(u, s) => v = SubSeq(t, 1, Len(p) + Len(u) - Len(c))
<1>0. /\ t \in Seq(S) /\ MovedBelow(t, p, s, c)
      /\ v \in Seq(S) /\ MovedBelow(v, p, u, c)
  BY MovedPath
<1>1. /\ t \in Seq(S) /\ Len(t) = Len(p) + Len(s) - Len(c)
      /\ Len(c) \in Nat /\ Len(s) \in Nat /\ Len(p) \in Nat /\ Len(c) <= Len(s)
      /\ \A i \in 1 .. Len(p) : t[i] = p[i]
      /\ \A i \in Len(c) + 1 .. Len(s) : t[i - Len(c) + Len(p)] = s[i]
      /\ \A i \in 1 .. Len(c) : s[i] = c[i]
  BY <1>0 DEF MovedBelow
<1>2. /\ v \in Seq(S) /\ Len(v) = Len(p) + Len(u) - Len(c)
      /\ Len(u) \in Nat /\ Len(c) <= Len(u)
      /\ \A i \in 1 .. Len(p) : v[i] = p[i]
      /\ \A i \in Len(c) + 1 .. Len(u) : v[i - Len(c) + Len(p)] = u[i]
      /\ \A i \in 1 .. Len(c) : u[i] = c[i]
  BY <1>0 DEF MovedBelow
<1>3. ASSUME t = v PROVE s = u
  <2>1. Len(s) = Len(u)
    BY <1>1, <1>2, <1>3
  <2>2. ASSUME NEW i \in 1 .. Len(s) PROVE s[i] = u[i]
    <3>1. CASE i <= Len(c)
      BY <1>1, <1>2, <3>1
    <3>2. CASE i > Len(c)
      <4>1. i \in Len(c) + 1 .. Len(s) /\ i \in Len(c) + 1 .. Len(u)
        BY <1>1, <2>1, <3>2
      <4>2. t[i - Len(c) + Len(p)] = s[i] /\ v[i - Len(c) + Len(p)] = u[i]
        BY <1>1, <1>2, <4>1
      <4>3. QED
        BY <1>3, <4>2
    <3>3. QED
      BY <1>1, <3>1, <3>2
  <2>3. QED
    BY <2>1, <2>2, SeqEqual
<1>4. ASSUME IsPrefix(u, s) PROVE v = SubSeq(t, 1, Len(p) + Len(u) - Len(c))
  <2> DEFINE k == Len(p) + Len(u) - Len(c)
             w == SubSeq(t, 1, k)
  <2>1. Len(u) <= Len(s) /\ \A i \in 1 .. Len(u) : u[i] = s[i]
    BY <1>4, PrefixElements
  <2>2. k \in 0 .. Len(t)
    BY <1>1, <1>2, <2>1
  <2>3. w \in Seq(S) /\ Len(w) = k /\ \A i \in 1 .. k : w[i] = t[i]
    BY <1>1, <2>2, FirstElements
  <2>4. ASSUME NEW i \in 1 .. k PROVE v[i] = t[i]
    <3>1. CASE i <= Len(p)
      BY <1>1, <1>2, <3>1
    <3>2. CASE i > Len(p)
      <4> DEFINE j == i - Len(p) + Len(c)
      <4>1. /\ j \in Len(c) + 1 .. Len(u) /\ j \in Len(c) + 1 .. Len(s)
            /\ j - Len(c) + Len(p) = i /\ j \in 1 .. Len(u)
        BY <1>1, <1>2, <2>1, <3>2
      <4> HIDE DEF j
      <4>2. t[j - Len(c) + Len(p)] = s[j] /\ v[j - Len(c) + Len(p)] = u[j] /\ u[j] = s[j]
        BY <1>1, <1>2, <2>1, <4>1
      <4>3. QED
        BY <4>1, <4>2
    <3>3. i <= Len(p) \/ i > Len(p)
      <4>1. i \in Int /\ Len(p) \in Int
        BY <1>1
      <4>2. QED
        BY <4>1
    <3>4. QED
      BY <3>1, <3>2, <3>3
  <2>5. QED
    BY <1>2, <2>3, <2>4, SeqEqual
<1>5. QED
  BY <1>3, <1>4

\* What is above the beginning of a path is above the path, at the same depth.
LEMMA FirstOfPrefix ==
  ASSUME NEW S, NEW s \in Seq(S), NEW t \in Seq(S), IsPrefix(s, t), NEW k \in 0 .. Len(s)
  PROVE  SubSeq(t, 1, k) = SubSeq(s, 1, k)
<1>1. Len(s) \in Nat /\ Len(t) \in Nat /\ Len(s) <= Len(t) /\ \A i \in 1 .. Len(s) : s[i] = t[i]
  BY LenProperties, PrefixElements
<1>2. k \in 0 .. Len(t)
  BY <1>1
<1>3. /\ SubSeq(s, 1, k) \in Seq(S) /\ Len(SubSeq(s, 1, k)) = k
      /\ \A i \in 1 .. k : SubSeq(s, 1, k)[i] = s[i]
  BY FirstElements
<1>4. /\ SubSeq(t, 1, k) \in Seq(S) /\ Len(SubSeq(t, 1, k)) = k
      /\ \A i \in 1 .. k : SubSeq(t, 1, k)[i] = t[i]
  BY <1>2, FirstElements
<1>5. \A i \in 1 .. k : SubSeq(t, 1, k)[i] = SubSeq(s, 1, k)[i]
  BY <1>1, <1>3, <1>4
<1>6. QED
  BY <1>3, <1>4, <1>5, SeqEqual

\* The first elements of a sequence are a prefix of it.
LEMMA FirstIsPrefix ==
  ASSUME NEW S, NEW s \in Seq(S), NEW k \in 0 .. Len(s)
  PROVE  /\ SubSeq(s, 1, k) \in Seq(S) /\ Len(SubSeq(s, 1, k)) = k
         /\ IsPrefix(SubSeq(s, 1, k), s)
<1> DEFINE t == SubSeq(s, 1, k)
<1>1. Len(s) \in Nat
  BY LenProperties
<1>2. t \in Seq(S) /\ Len(t) = k /\ \A i \in 1 .. k : t[i] = s[i]
  BY FirstElements
<1> HIDE DEF t
<1>3. Len(t) <= Len(s) /\ \A i \in 1 .. Len(t) : t[i] = s[i]
  BY <1>1, <1>2
<1>4. IsPrefix(t, s)
  BY <1>2, <1>3, PrefixElements
<1>5. QED
  BY <1>2, <1>4 DEF t

\* Of two prefixes of a sequence the shorter is a prefix of the longer.
LEMMA PrefixesNested ==
  ASSUME NEW S, NEW s \in Seq(S), NEW t \in Seq(S), NEW u \in Seq(S),
         IsPrefix(s, u), IsPrefix(t, u), Len(s) <= Len(t)
  PROVE  IsPrefix(s, t)
<1>1. /\ Len(s) \in Nat /\ Len(t) \in Nat
      /\ \A i \in 1 .. Len(s) : s[i] = u[i]
      /\ \A i \in 1 .. Len(t) : t[i] = u[i]
  BY LenProperties, PrefixElements
<1>2. \A i \in 1 .. Len(s) : s[i] = t[i]
  BY <1>1
<1>3. QED
  BY <1>2, PrefixElements

\* The paths after directory c, with what is below it, has moved to p in d.
Renamed(c, d, p) ==
  /\ p \in Seq(Names) /\ Len(p) \in Nat /\ Len(p) = Len(tree[d]) + 1
  /\ IsPrefix(tree[d], p) /\ c \in Subtree(c) /\ d \notin Subtree(c)
  /\ DOMAIN tree' = DOMAIN tree
  /\ \A x \in DOMAIN tree : ~IsPrefix(p, tree[x])
  /\ \A x \in DOMAIN tree \ Subtree(c) : tree'[x] = tree[x]
  /\ \A x \in Subtree(c) : /\ tree'[x] \in Seq(Names) /\ IsPrefix(p, tree'[x])
                           /\ MovedBelow(tree'[x], p, tree[x], tree[c])
  /\ \A x, y \in Subtree(c) :
       /\ tree'[x] = tree'[y] => tree[x] = tree[y]
       /\ IsPrefix(tree[y], tree[x]) =>
            tree'[y] = SubSeq(tree'[x], 1, Len(p) + Len(tree[y]) - Len(tree[c]))
  /\ tree'[c] = p

\* A rename does this (Inotify!Rename).
LEMMA RenamePaths ==
  ASSUME KernelTypeOK, TreeShape, NEW c \in DOMAIN tree, NEW d \in DOMAIN tree, NEW n \in Names,
         Rename(c, d, n)
  PROVE  Renamed(c, d, Append(tree[d], n))
<1>0. PICK p : p = Append(tree[d], n)
  OBVIOUS
<1>1. /\ tree' = [x \in DOMAIN tree |->
                    IF x \in Subtree(c)
                      THEN p \o SubSeq(tree[x], Len(tree[c]) + 1, Len(tree[x])) ELSE tree[x]]
      /\ d \notin Subtree(c) /\ ~IsDir(p)
  BY <1>0 DEF Rename
<1>2. /\ \A x \in DOMAIN tree : tree[x] \in Seq(Names)
      /\ \A x \in Subtree(c) : x \in DOMAIN tree /\ IsPrefix(tree[c], tree[x])
  BY PathType DEF Subtree
<1>3. p \in Seq(Names) /\ Len(p) \in Nat /\ Len(p) = Len(tree[d]) + 1 /\ IsPrefix(tree[d], p)
  BY <1>0, <1>2, AppendProperties, PrefixAppend, LenProperties
<1>4. DOMAIN tree' = DOMAIN tree /\ \A x \in DOMAIN tree \ Subtree(c) : tree'[x] = tree[x]
  BY <1>1
<1>5. \A x \in Subtree(c) : Moves(tree'[x], p, tree[x], tree[c])
  BY <1>1, <1>2 DEF Moves
<1>6. \A x \in DOMAIN tree : ~IsPrefix(p, tree[x])
  <2>1. p \in Path
    BY <1>3 DEF Path
  <2>2. QED
    BY <1>1, <2>1, PrefixIsDir DEF IsDir, DirAt
<1>7. ASSUME NEW x \in Subtree(c)
      PROVE  tree'[x] \in Seq(Names) /\ IsPrefix(p, tree'[x]) /\ MovedBelow(tree'[x], p, tree[x], tree[c])
  BY <1>2, <1>3, <1>5, MovedPath
<1>8. ASSUME NEW x \in Subtree(c), NEW y \in Subtree(c)
      PROVE  /\ tree'[x] = tree'[y] => tree[x] = tree[y]
             /\ IsPrefix(tree[y], tree[x]) =>
                  tree'[y] = SubSeq(tree'[x], 1, Len(p) + Len(tree[y]) - Len(tree[c]))
  <2>1. /\ tree[c] \in Seq(Names) /\ tree[x] \in Seq(Names) /\ tree[y] \in Seq(Names)
        /\ IsPrefix(tree[c], tree[x]) /\ IsPrefix(tree[c], tree[y])
    BY <1>2
  <2>2. Moves(tree'[x], p, tree[x], tree[c]) /\ Moves(tree'[y], p, tree[y], tree[c])
    BY <1>5
  <2>3. QED
    BY <1>3, <2>1, <2>2, MovedPaths
<1>9. c \in Subtree(c)
  BY SubtreeOrder
<1>10. tree'[c] = p
  <2>1. /\ tree'[c] \in Seq(Names) /\ Len(tree'[c]) = Len(p)
        /\ \A i \in 1 .. Len(p) : tree'[c][i] = p[i]
    <3>1. tree'[c] \in Seq(Names) /\ MovedBelow(tree'[c], p, tree[c], tree[c])
      BY <1>7, <1>9
    <3>2. /\ Len(tree'[c]) = Len(p) + Len(tree[c]) - Len(tree[c])
          /\ Len(tree[c]) \in Nat /\ \A i \in 1 .. Len(p) : tree'[c][i] = p[i]
      BY <3>1 DEF MovedBelow
    <3>3. QED
      BY <1>3, <3>1, <3>2
  <2>2. QED
    BY <1>3, <2>1, SeqEqual
<1>11. QED
  <2>1. Renamed(c, d, p)
    BY <1>1, <1>3, <1>4, <1>6, <1>7, <1>8, <1>9, <1>10 DEF Renamed
  <2>2. QED
    BY <1>0, <2>1

\* A rename moves a whole subtree to a place that was free.
LEMMA RenameShape ==
  ASSUME KernelTypeOK, TreeShape, NEW c \in DOMAIN tree, NEW d \in DOMAIN tree, NEW n \in Names,
         tree[c] # NoPath, Rename(c, d, n)
  PROVE  TreeShape'
<1>0. PICK p : p = Append(tree[d], n)
  OBVIOUS
<1>1. Renamed(c, d, p)
  BY <1>0, RenamePaths
<1> USE DEF Renamed
<1>2. /\ \A x \in DOMAIN tree : tree[x] \in Seq(Names) /\ Len(tree[x]) \in Nat
      /\ \A x \in DOMAIN tree : x \in Subtree(c) <=> IsPrefix(tree[c], tree[x])
      /\ Subtree(c) \subseteq DOMAIN tree
  BY PathType DEF Subtree
<1>3. Outer \in DOMAIN tree' /\ tree'[Outer] = NoPath /\ Outer \notin watched'
  <2>1. Outer \notin Subtree(c)
    <3>1. SUFFICES ASSUME IsPrefix(tree[c], tree[Outer]) PROVE FALSE
      BY <1>2 DEF TreeShape
    <3>2. Len(tree[c]) <= Len(tree[Outer]) /\ Len(tree[Outer]) = 0 /\ tree[c] \in Seq(Names)
          /\ Len(tree[c]) \in Nat
      BY <1>2, <3>1 DEF IsPrefix, TreeShape, NoPath
    <3>3. QED
      BY <3>2, EmptySeq DEF NoPath
  <2>2. QED
    BY <1>1, <2>1 DEF TreeShape, Rename
<1>4. ASSUME NEW x \in DOMAIN tree, NEW y \in DOMAIN tree, tree'[x] = tree'[y] PROVE x = y
  <2>1. x \in Subtree(c) <=> y \in Subtree(c)
    BY <1>1, <1>4
  <2>2. tree[x] = tree[y]
    BY <1>1, <1>4, <2>1
  <2>3. QED
    BY <2>2 DEF TreeShape
<1>5. ASSUME NEW x \in DOMAIN tree, x \notin Subtree(c), NEW k \in 0 .. Len(tree[x])
      PROVE  \E y \in DOMAIN tree' : tree'[y] = SubSeq(tree[x], 1, k)
  <2>1. PICK y \in DOMAIN tree : tree[y] = SubSeq(tree[x], 1, k)
    BY DEF TreeShape, IsDir, DirAt
  <2>2. IsPrefix(tree[y], tree[x])
    BY <1>2, <2>1, FirstIsPrefix
  <2>3. y \notin Subtree(c)
    BY <1>2, <1>5, <2>2, PrefixTransitive
  <2>4. QED
    BY <1>1, <2>1, <2>3
<1>6. ASSUME NEW x \in Subtree(c), NEW k \in 0 .. Len(tree'[x])
      PROVE  \E y \in DOMAIN tree' : tree'[y] = SubSeq(tree'[x], 1, k)
  <2>1. /\ x \in DOMAIN tree /\ Len(tree[c]) <= Len(tree[x]) /\ IsPrefix(tree[c], tree[x])
        /\ tree'[x] \in Seq(Names) /\ IsPrefix(p, tree'[x])
        /\ Len(tree'[x]) = Len(p) + Len(tree[x]) - Len(tree[c])
        /\ Len(tree[c]) \in Nat /\ Len(tree[x]) \in Nat
    BY <1>1, <1>2 DEF MovedBelow
  <2>2. CASE k <= Len(tree[d])
    <3>1. IsPrefix(tree[d], tree'[x])
      BY <1>1, <1>2, <2>1, PrefixTransitive
    <3>2. k \in 0 .. Len(tree[d])
      BY <1>2, <2>2
    <3>3. SubSeq(tree'[x], 1, k) = SubSeq(tree[d], 1, k)
      BY <1>2, <2>1, <3>1, <3>2, FirstOfPrefix
    <3>4. QED
      BY <1>1, <1>5, <3>2, <3>3
  <2>3. CASE k > Len(tree[d])
    <3> DEFINE j == Len(tree[c]) + k - Len(p)
    <3>1. /\ j \in 0 .. Len(tree[x]) /\ Len(tree[c]) <= j
          /\ Len(p) + j - Len(tree[c]) = k
      BY <1>1, <1>2, <2>1, <2>3
    <3> HIDE DEF j
    <3>2. PICK z \in DOMAIN tree : tree[z] = SubSeq(tree[x], 1, j)
      BY <2>1, <3>1 DEF TreeShape, IsDir, DirAt
    <3>3. Len(tree[z]) = j /\ IsPrefix(tree[z], tree[x])
      BY <1>2, <2>1, <3>1, <3>2, FirstIsPrefix
    <3>4. IsPrefix(tree[c], tree[z])
      BY <1>2, <2>1, <3>1, <3>3, PrefixesNested
    <3>5. z \in Subtree(c)
      BY <1>2, <3>4
    <3>6. tree'[z] = SubSeq(tree'[x], 1, k)
      BY <1>1, <3>1, <3>3, <3>5
    <3>7. QED
      BY <1>1, <3>6
  <2>4. QED
    BY <1>2, <2>2, <2>3
<1>7. \A x \in DOMAIN tree' : \A k \in 0 .. Len(tree'[x]) :
        \E y \in DOMAIN tree' : tree'[y] = SubSeq(tree'[x], 1, k)
  <2> SUFFICES ASSUME NEW x \in DOMAIN tree, NEW k \in 0 .. Len(tree'[x])
               PROVE  \E y \in DOMAIN tree' : tree'[y] = SubSeq(tree'[x], 1, k)
    BY <1>1
  <2>1. CASE x \in Subtree(c)
    BY <1>6, <2>1
  <2>2. CASE x \notin Subtree(c)
    <3>1. tree'[x] = tree[x]
      BY <1>1, <2>2
    <3>2. QED
      BY <1>5, <2>2, <3>1
  <2>3. QED
    BY <2>1, <2>2
<1>8. \A x, y \in DOMAIN tree' : tree'[x] = tree'[y] => x = y
  BY <1>1, <1>4
<1>9. QED
  BY <1>3, <1>7, <1>8 DEF TreeShape, IsDir, DirAt

\* What moves is blind, or told of, or found; what stays is not disturbed.
LEMMA RenameCover ==
  ASSUME BaseInv, BaseInv', CoverInv, OthersNote,
         NEW c \in DOMAIN tree, NEW d \in DOMAIN tree, NEW n \in Names,
         Rename(c, d, n), NoteArrival(c, Subtree(c), d)
  PROVE  CoverInv'
<1> DEFINE K == DOMAIN tree \ Subtree(c)
<1>1. KernelTypeOK /\ KernelTypeOK' /\ TreeOK /\ TreeShape
  BY DEF BaseInv, TypeOK, CoverInv
<1>2. tree[c] # NoPath
  BY <1>1 DEF Rename, TreeOK
<1>3. TreeShape'
  BY <1>1, <1>2, RenameShape
<1>4. PICK p : p = Append(tree[d], n) /\ Renamed(c, d, p)
  BY <1>1, RenamePaths
<1>5. QueueGrows(queue, queue', watched) /\ watched' = watched
  BY <1>1, <1>2, RenameKernel
<1>6. /\ \A x \in DOMAIN tree : tree[x] \in Seq(Names) /\ Len(tree[x]) \in Nat
      /\ \A x \in DOMAIN tree : x \in Subtree(c) <=> IsPrefix(tree[c], tree[x])
      /\ Subtree(c) \subseteq DOMAIN tree
  BY <1>1, PathType DEF Subtree
<1>7. Undisturbed(K)
  <2>1. /\ K \subseteq DOMAIN tree /\ K \subseteq DOMAIN tree'
        /\ \A x \in K : tree'[x] = tree[x]
    BY <1>4 DEF Renamed
  <2>2. \A x \in K : \A y \in DOMAIN tree : IsPrefix(tree[y], tree[x]) => y \in K
    BY <1>6, PrefixTransitive
  <2>3. \A x \in K : \A y \in DOMAIN tree' : IsPrefix(tree'[y], tree'[x]) => y \in K
    <3>1. SUFFICES ASSUME NEW x \in K, NEW y \in Subtree(c), IsPrefix(tree'[y], tree[x])
                   PROVE  FALSE
      BY <1>4, <2>1 DEF Renamed
    <3>2. p \in Seq(Names) /\ tree'[y] \in Seq(Names) /\ IsPrefix(p, tree'[y])
      BY <1>4 DEF Renamed
    <3>3. IsPrefix(p, tree[x])
      BY <1>6, <3>1, <3>2, PrefixTransitive
    <3>4. QED
      BY <1>4, <3>3 DEF Renamed
  <2>4. c \in Subtree(c)
    BY <1>4 DEF Renamed
  <2>5. \A x \in K : x \in blind' <=> x \in blind
    BY <2>4 DEF NoteArrival
  <2>6. QED
    BY <1>5, <2>1, <2>2, <2>3, <2>5 DEF Undisturbed
<1>8. Arrives(K, c, d, n)
  <2>1. d \in watched /\ ~lost' =>
          queue' # <<>> /\ Last(queue').wd = d /\ Last(queue').name = <<n>>
    <3>1. PICK q : q = Notify(queue, Parent(c), "moved_from", Last(tree[c]))
      OBVIOUS
    <3>2. queue' = Notify(q, d, "moved_to", n)
      BY <3>1 DEF Rename
    <3>3. q \in Seq(Event)
      <4>1. Last(tree[c]) \in Names /\ watched \subseteq Nat /\ queue \in Seq(Event)
        BY <1>1, <1>2, <1>6, ElementOfSeq, EmptySeq DEF Last, NoPath, KernelTypeOK
      <4>2. "moved_from" \in NamedKinds
        BY DEF NamedKinds
      <4>3. QED
        BY <3>1, <4>1, <4>2, NotifyGrows DEF QueueGrows
    <3>4. watched \subseteq Nat /\ "moved_to" \in NamedKinds
      BY <1>1 DEF KernelTypeOK, NamedKinds
    <3>5. SUFFICES ASSUME d \in watched, ~Contains(queue', Overflow)
                   PROVE  queue' # <<>> /\ Last(queue').wd = d /\ Last(queue').name = <<n>>
      BY DEF OthersNote
    <3>6. QED
      BY <3>2, <3>3, <3>4, <3>5, NotifyQueues
  <2>2. /\ d \in K /\ c \in DOMAIN tree' \ K /\ tree'[c] = Append(tree[d], n)
        /\ IsPrefix(tree[d], tree'[c])
        /\ \A x \in DOMAIN tree' \ K : IsPrefix(tree'[c], tree'[x])
    BY <1>4 DEF Renamed
  <2>3. c \in blind' \/ d \in watched \/ (Inside(d) /\ ~InWindow(d))
    BY DEF NoteArrival
  <2>4. QED
    BY <2>1, <2>2, <2>3 DEF Arrives
<1>9. c \in DOMAIN tree'
  BY <1>8 DEF Arrives
<1>10. OthersPromise(K)
  BY <1>5, <1>7, <1>8, <1>9 DEF OthersPromise, OthersNote, QueueGrows
<1>11. QED
  BY <1>3, <1>10, PromiseKept

\* No other process can break the promise.
LEMMA OthersCover == ASSUME BaseInv, BaseInv', CoverInv, Others PROVE CoverInv'
<1>1. OthersNote
  BY DEF Others, OthersNote
<1>2. CASE \E d \in DOMAIN tree, n \in Names : Mkdir(d, n) /\ NoteArrival(born, {born}, d)
  BY <1>1, <1>2, MkdirCover
<1>3. CASE \E c \in DOMAIN tree : Rmdir(c) /\ UNCHANGED blind
  BY <1>1, <1>3, RmdirCover
<1>4. CASE \E c, d \in DOMAIN tree, n \in Names : Rename(c, d, n) /\ NoteArrival(c, Subtree(c), d)
  BY <1>1, <1>4, RenameCover
<1>5. CASE \E d \in DOMAIN tree, n \in Names, kind \in FileKinds :
             FileEvent(d, n, kind) /\ UNCHANGED blind
  BY <1>1, <1>5, FileEventCover
<1>6. QED
  BY <1>2, <1>3, <1>4, <1>5 DEF Others

-----------------------------------------------------------------------------
(* The steps of the monitor keep it too.                                    *)

\* The first event not yet decoded tells of d, in a directory that is in place.
TellsNext(d) ==
  \E c \in Promised :
    /\ d \in Subtree(c) /\ Parent(c) \in Promised
    /\ Right(Parent(c)) \/ Claimed(Parent(c))
    /\ Tells(Undecoded[1], c)

\* A step that decodes the first k events, none or one, and keeps in place what
\* was, and what those events told of, unless a directory above is blind now: all
\* the others move up by k.
LEMMA MonitorCover ==
  ASSUME BaseInv, CoverInv, UNCHANGED <<tree, lost>>, blind \subseteq blind',
         Outer \notin watched',
         pc' \notin Ended => pc \notin Ended,
         NEW k \in {0, 1}, Undecoded \in Seq(Event), Undecoded' \in Seq(Event),
         Len(Undecoded) = Len(Undecoded') + k,
         \A i \in 1 .. Len(Undecoded') : Undecoded'[i] = Undecoded[i + k],
         pc' \notin Ended =>
           \A x \in Promised :
             ~BehindBlind(x)' /\ (Right(x) \/ Claimed(x) \/ (k = 1 /\ TellsNext(x)))
               => (Right(x) \/ Claimed(x))'
  PROVE  CoverInv'
<1>1. /\ \A x : Subtree(x)' = Subtree(x) /\ Parent(x)' = Parent(x)
      /\ \A x : Inside(x)' <=> Inside(x)
      /\ \A x : BehindBlind(x) => BehindBlind(x)'
  BY DEF Subtree, Parent, Inside, BehindBlind
<1>2. /\ Promised' \subseteq Promised
      /\ \A x \in Promised' : ~BehindBlind(x)'
      /\ \A x \in Promised : ~BehindBlind(x)' => x \in Promised'
  BY <1>1 DEF Promised
<1>3. ASSUME NEW y \in DOMAIN tree, NEW x \in Subtree(y), x \in Promised' PROVE ~BehindBlind(y)'
  <2>1. ASSUME BehindBlind(y)' PROVE FALSE
    <3>1. PICK b \in blind' \cap DOMAIN tree : y \in Subtree(b)
      BY <1>1, <2>1 DEF BehindBlind
    <3>2. x \in Subtree(b)
      BY <3>1, SubtreeOrder DEF BaseInv, TypeOK
    <3>3. BehindBlind(x)'
      BY <1>1, <3>1, <3>2 DEF BehindBlind
    <3>4. QED
      BY <1>2, <1>3, <3>3
  <2>2. QED
    BY <2>1
<1>4. ASSUME NEW c \in Promised, NEW x \in Subtree(c), x \in Promised',
             NEW y \in Promised, y = Parent(c)
      PROVE  c \in Promised' /\ y \in Promised'
  <2>1. KernelTypeOK /\ TreeOK /\ TreeShape
    BY DEF BaseInv, TypeOK, CoverInv
  <2>2. c \in DOMAIN tree /\ tree[c] # NoPath
    BY <2>1, PromisedNotOuter
  <2>3. y \in DOMAIN tree /\ c \in Subtree(y)
    BY <1>4, <2>1, <2>2, ParentAbove
  <2>4. x \in Subtree(y)
    BY <2>1, <2>3, SubtreeOrder
  <2>5. ~BehindBlind(c)' /\ ~BehindBlind(y)'
    BY <1>3, <1>4, <2>2, <2>3, <2>4
  <2>6. QED
    BY <1>2, <2>5
<1>5. TreeShape'
  BY DEF CoverInv, TreeShape, IsDir, DirAt
<1>6. OutsideBlind'
  BY <1>1 DEF CoverInv, OutsideBlind
<1>7. ASSUME ~lost', pc' \notin Ended
      PROVE  \E next \in [Promised' -> 0 .. Len(Undecoded')] : \A x \in Promised' : InPlace(next, x)'
  <2>1. PICK place \in [Promised -> 0 .. Len(Undecoded)] : \A x \in Promised : InPlace(place, x)
    BY <1>7 DEF CoverInv, Reached
  <2>2. /\ Len(Undecoded) \in Nat /\ Len(Undecoded') \in Nat
        /\ Len(Undecoded) = Len(Undecoded') + k /\ k \in Nat
    BY LenProperties
  <2> DEFINE f == [x \in Promised' |-> IF place[x] <= k THEN 0 ELSE place[x] - k]
  <2>3. \A x \in Promised : place[x] \in 0 .. Len(Undecoded)
    BY <2>1
  <2>4. f \in [Promised' -> 0 .. Len(Undecoded')]
    BY <1>2, <2>2, <2>3
  <2>5. PICK next \in [Promised' -> 0 .. Len(Undecoded')] :
          \A x \in Promised' : next[x] = IF place[x] <= k THEN 0 ELSE place[x] - k
    BY <2>4
  <2>6. ASSUME NEW x \in Promised' PROVE InPlace(next, x)'
    <3>1. x \in Promised /\ ~BehindBlind(x)' /\ place[x] \in 0 .. Len(Undecoded) /\ InPlace(place, x)
      BY <1>2, <2>1, <2>3
    <3>2. CASE place[x] = 0 /\ (Right(x) \/ Claimed(x))
      <4>1. next[x] = 0
        BY <2>2, <2>5, <3>2
      <4>2. (Right(x) \/ Claimed(x))'
        BY <1>7, <3>1, <3>2
      <4>3. QED
        BY <4>1, <4>2 DEF InPlace
    <3>3. CASE \E c \in Promised :
                 /\ x \in Subtree(c) /\ Parent(c) \in Promised
                 /\ place[Parent(c)] < place[x] /\ Tells(Undecoded[place[x]], c)
      <4>1. PICK c \in Promised :
              /\ x \in Subtree(c) /\ Parent(c) \in Promised
              /\ place[Parent(c)] < place[x] /\ Tells(Undecoded[place[x]], c)
        BY <3>3
      <4>2. PICK y \in Promised : y = Parent(c)
        BY <4>1
      <4>3. place[y] \in 0 .. Len(Undecoded) /\ place[y] < place[x] /\ InPlace(place, y)
        BY <2>1, <2>3, <4>1, <4>2
      <4>4. c \in Promised' /\ y \in Promised'
        BY <1>4, <4>1, <4>2
      <4>5. CASE place[x] <= k
        <5>1. k = 1 /\ place[x] = 1 /\ place[y] = 0 /\ next[x] = 0
          BY <2>2, <2>5, <3>1, <4>3, <4>5
        <5>2. \A z \in Promised : ~(place[z] < place[y])
          BY <2>2, <2>3, <5>1
        <5>3. Right(y) \/ Claimed(y)
          BY <4>3, <5>2 DEF InPlace
        <5>4. TellsNext(x)
          BY <4>1, <4>2, <5>1, <5>3 DEF TellsNext
        <5>5. (Right(x) \/ Claimed(x))'
          BY <1>7, <3>1, <5>1, <5>4
        <5>6. QED
          BY <5>1, <5>5 DEF InPlace
      <4>6. CASE place[x] > k
        <5>1. next[x] \in 1 .. Len(Undecoded') /\ next[x] + k = place[x] /\ next[y] < next[x]
          <6>1. next[x] = place[x] - k
            BY <2>2, <2>5, <3>1, <4>6
          <6>2. next[y] = IF place[y] <= k THEN 0 ELSE place[y] - k
            BY <2>5, <4>4
          <6>3. QED
            BY <2>2, <3>1, <4>3, <4>6, <6>1, <6>2
        <5>2. Undecoded'[next[x]] = Undecoded[place[x]]
          BY <5>1
        <5>3. Tells(Undecoded[next[x]], c)'
          <6>1. Undecoded'[next[x]].wd = Parent(c)' /\ Undecoded'[next[x]].name = <<Last(tree'[c])>>
            BY <1>1, <4>1, <5>2 DEF Tells
          <6>2. QED
            BY <6>1 DEF Tells
        <5>4. c \in Promised' /\ x \in Subtree(c)' /\ Parent(c)' \in Promised' /\ next[Parent(c)'] < next[x]
          BY <1>1, <4>1, <4>2, <4>4, <5>1
        <5>5. QED
          BY <5>3, <5>4 DEF InPlace
      <4>7. QED
        BY <2>2, <3>1, <4>5, <4>6
    <3>4. QED
      BY <3>1, <3>2, <3>3 DEF InPlace
  <2>7. QED
    BY <2>5, <2>6
<1>8. QED
  BY <1>5, <1>6, <1>7 DEF CoverInv, Reached

\* The line of events when nothing is decoded.
LEMMA UndecodedType ==
  ASSUME BaseInv
  PROVE  Undecoded \in Seq(Event) /\ Len(Undecoded) \in Nat
<1>1. batch \in Seq(Event) /\ queue \in Seq(Event)
  BY DEF BaseInv, TypeOK, DataTypeOK, KernelTypeOK
<1>2. (IF pc = "handle" \/ batch = <<>> THEN batch ELSE Tail(batch)) \in Seq(Event)
  BY <1>1, HeadTailProperties
<1>3. QED
  BY <1>1, <1>2, ConcatProperties, LenProperties DEF Undecoded

\* A step that decodes nothing.
LEMMA SameLineCover ==
  ASSUME BaseInv, CoverInv, UNCHANGED <<tree, lost>>, blind \subseteq blind',
         Outer \notin watched',
         pc' \notin Ended => pc \notin Ended, Undecoded' = Undecoded,
         pc' \notin Ended =>
           \A x \in Promised :
             ~BehindBlind(x)' /\ (Right(x) \/ Claimed(x)) => (Right(x) \/ Claimed(x))'
  PROVE  CoverInv'
<1>1. Undecoded \in Seq(Event) /\ Len(Undecoded) \in Nat
  BY UndecodedType
<1>2. PICK k \in {0, 1} : k = 0
  OBVIOUS
<1>3. /\ Len(Undecoded) = Len(Undecoded') + k
      /\ \A i \in 1 .. Len(Undecoded') : Undecoded'[i] = Undecoded[i + k]
  BY <1>1, <1>2
<1>4. pc' \notin Ended =>
        \A x \in Promised :
          ~BehindBlind(x)' /\ (Right(x) \/ Claimed(x) \/ (k = 1 /\ TellsNext(x)))
            => (Right(x) \/ Claimed(x))'
  BY <1>2
<1>5. QED
  BY <1>1, <1>3, <1>4, MonitorCover

\* Once the monitor has ended nothing is promised.
LEMMA EndedCover ==
  ASSUME CoverInv, UNCHANGED <<tree, watched, blind, lost>>, pc' \in Ended
  PROVE  CoverInv'
<1>1. TreeShape'
  BY DEF CoverInv, TreeShape, IsDir, DirAt
<1>2. OutsideBlind'
  BY DEF CoverInv, OutsideBlind, Inside, BehindBlind, Subtree
<1>3. QED
  BY <1>1, <1>2 DEF CoverInv, Reached

\* The steps of the main thread, which has read no event.
LEMMA MainCover == ASSUME BaseInv, CoverInv, Main PROVE CoverInv'
<1>1. CASE Construct /\ pc' # "init"
  BY <1>1, EndedCover DEF Construct, Throw, Ended, BaseInv, PcOK, kernelVars, history
<1>2. CASE (Construct /\ pc' = "init") \/ CallWatch \/ ReadAsync
  <2>1. /\ UNCHANGED <<tree, watched, queue, wd_map, batch, blind, lost>>
        /\ caller = "main" /\ pc' \notin Ended /\ pc \notin Ended
    BY <1>2 DEF Construct, CallWatch, ReadAsync, EnterWatch, kernelVars, history, BaseInv, PcOK,
                Ended
  <2>2. Outer \notin watched' /\ batch = <<>> /\ batch' = <<>>
    BY <2>1 DEF CoverInv, TreeShape, BaseInv, PcOK
  <2>3. Undecoded' = Undecoded
    BY <2>1, <2>2 DEF Undecoded
  <2>4. (\A p : ToSet(<<p>>) = {p}) /\ ToSet(<<>>) = {}
    BY DEF ToSet
  <2>5. ToList' = ToList /\ ToAdd' = ToAdd
    <3>1. CASE Construct /\ pc' = "init"
      BY <3>1 DEF ToList, ToAdd, Construct
    <3>2. CASE CallWatch
      BY <2>4, <3>2 DEF ToList, ToAdd, CallWatch, EnterWatch
    <3>3. CASE ReadAsync
      BY <3>3 DEF ToList, ToAdd, ReadAsync
    <3>4. QED
      BY <1>2, <3>1, <3>2, <3>3
  <2>6. \A x : Right(x) \/ Claimed(x) => (Right(x) \/ Claimed(x))'
    BY <2>1, <2>5 DEF Right, Claimed
  <2>7. QED
    BY <2>1, <2>2, <2>3, <2>6, SameLineCover
<1>3. QED
  BY <1>1, <1>2 DEF Main

\* What is below a directory, and not it, is below a directory in it.
LEMMA BelowChild ==
  ASSUME KernelTypeOK, TreeShape, NEW d \in DOMAIN tree, NEW p \in Path,
         IsPrefix(p, tree[d]), tree[d] # p
  PROVE  \E q \in Children(p) : IsPrefix(q, tree[d])
<1>1. p \in Seq(Names) /\ tree[d] \in Seq(Names) /\ Len(p) \in Nat /\ Len(tree[d]) \in Nat
  BY PathType, LenProperties DEF Path
<1>2. Len(p) <= Len(tree[d]) /\ SubSeq(tree[d], 1, Len(p)) = p
  <2>1. SubSeq(p, 1, Len(p)) = p
    BY <1>1, SubSeqFull
  <2>2. QED
    BY <2>1 DEF IsPrefix
<1>3. Len(p) < Len(tree[d])
  <2>1. Len(p) = Len(tree[d]) => tree[d] = p
    BY <1>1, <1>2, SubSeqFull
  <2>2. QED
    BY <1>1, <1>2, <2>1
<1>4. Len(p) + 1 \in 0 .. Len(tree[d])
  BY <1>1, <1>3
<1>5. PICK x \in DOMAIN tree : tree[x] = SubSeq(tree[d], 1, Len(p) + 1)
  BY <1>4 DEF TreeShape, IsDir, DirAt
<1>6. tree[x] \in Seq(Names) /\ Len(tree[x]) = Len(p) + 1 /\ IsPrefix(tree[x], tree[d])
  BY <1>1, <1>4, <1>5, FirstIsPrefix
<1>7. Front(tree[x]) = p
  <2>1. Len(p) \in 0 .. Len(tree[x]) /\ Len(tree[x]) - 1 = Len(p)
    BY <1>1, <1>6
  <2>2. SubSeq(tree[d], 1, Len(p)) = SubSeq(tree[x], 1, Len(p))
    BY <1>1, <1>6, <2>1, FirstOfPrefix
  <2>3. QED
    BY <1>2, <2>1, <2>2 DEF Front
<1>8. tree[x] # <<>>
  BY <1>1, <1>6, EmptySeq
<1>9. QED
  BY <1>6, <1>7, <1>8 DEF Children

\* A listing takes over the claim to what is below a directory
\* (common.cpp:139-166).
LEMMA ListDirCover == ASSUME BaseInv, CoverInv, ListDir PROVE CoverInv'
<1>1. KernelTypeOK /\ TreeShape /\ todo \in Seq(Path) /\ paths \in Seq(Path) /\ todo # <<>>
  BY DEF BaseInv, TypeOK, DataTypeOK, CoverInv, PcOK, ListDir
<1>2. /\ UNCHANGED <<tree, watched, queue, wd_map, batch, lost>>
      /\ pc = "scan" /\ paths' = Append(paths, Head(todo))
  BY DEF ListDir, kernelVars
<1>3. PICK found \in SUBSET Children(Head(todo)) :
        /\ \E entries \in SetToSeqs(found) : todo' = entries \o Tail(todo)
        /\ pc' = IF todo' = <<>> THEN "add" ELSE "scan"
        /\ blind' = blind \cup {d \in DOMAIN tree : tree[d] \in Children(Head(todo)) \ found}
  BY DEF ListDir
<1>4. PICK entries \in SetToSeqs(found) : todo' = entries \o Tail(todo)
  BY <1>3
<1>5. entries \in Seq(Path) /\ ToSet(entries) = found
  BY <1>1, Listing
<1>6. /\ Head(todo) \in Path /\ Tail(todo) \in Seq(Path)
      /\ ToSet(todo) = {Head(todo)} \cup ToSet(Tail(todo))
  BY <1>1, HeadTailProperties, TailElements
<1>7. /\ ToSet(todo') = found \cup ToSet(Tail(todo))
      /\ ToSet(paths') = ToSet(paths) \cup {Head(todo)}
  <2>1. ToSet(entries \o Tail(todo)) = ToSet(entries) \cup ToSet(Tail(todo))
    <3>1. entries \in Seq(Path) /\ Tail(todo) \in Seq(Path)
      BY <1>5, <1>6
    <3>2. QED
      BY <3>1, ConcatElements
  <2>2. ToSet(Append(paths, Head(todo))) = ToSet(paths) \cup {Head(todo)}
    <3>1. paths \in Seq(Path) /\ Head(todo) \in Path
      BY <1>1, <1>6
    <3>2. QED
      BY <3>1, AppendElements
  <2>3. QED
    BY <1>2, <1>4, <1>5, <2>1, <2>2
<1>8. ToList = ToSet(todo) /\ ToAdd = ToSet(paths) /\ ToList' = ToSet(todo') /\ ToAdd' = ToSet(paths')
  <2>1. ToSet(<<>>) = {}
    BY DEF ToSet
  <2>2. QED
    BY <1>2, <1>3, <2>1 DEF ToList, ToAdd
<1>9. Outer \notin watched' /\ pc' \notin Ended /\ pc \notin Ended /\ Undecoded' = Undecoded
  BY <1>1, <1>2, <1>3 DEF TreeShape, Ended, Undecoded
<1>10. ASSUME NEW x \in Promised, ~BehindBlind(x)', Right(x) \/ Claimed(x)
      PROVE  (Right(x) \/ Claimed(x))'
  <2>1. CASE Right(x)
    BY <1>2, <2>1 DEF Right
  <2>2. CASE tree[x] \in ToAdd \/ \E p \in ToSet(Tail(todo)) : IsPrefix(p, tree[x])
    BY <1>2, <1>7, <1>8, <2>2 DEF Claimed
  <2>3. CASE IsPrefix(Head(todo), tree[x])
    <3>1. CASE tree[x] = Head(todo)
      BY <1>2, <1>7, <1>8, <3>1 DEF Claimed
    <3>2. CASE tree[x] # Head(todo)
      <4>1. PICK q \in Children(Head(todo)) : IsPrefix(q, tree[x])
        BY <1>1, <1>6, <2>3, <3>2, BelowChild DEF Promised
      <4>2. q \in found
        <5>1. PICK b \in DOMAIN tree : tree[b] = q
          BY DEF Children
        <5>2. x \in DOMAIN tree /\ x \in Subtree(b)'
          BY <1>2, <4>1, <5>1 DEF Promised, Subtree
        <5>3. b \notin blind'
          BY <1>2, <1>10, <5>1, <5>2 DEF BehindBlind
        <5>4. QED
          BY <1>3, <5>1, <5>3
      <4>3. QED
        BY <1>2, <1>7, <1>8, <4>1, <4>2 DEF Claimed
    <3>3. QED
      BY <3>1, <3>2
  <2>4. QED
    BY <1>6, <1>8, <1>10, <2>1, <2>2, <2>3 DEF Claimed
<1>11. blind \subseteq blind'
  BY <1>3
<1>12. QED
  BY <1>2, <1>9, <1>10, <1>11, SameLineCover

\* What is claimed by its own path becomes right (linux_monitor.cpp:28-39).
LEMMA AddNextCover == ASSUME BaseInv, CoverInv, AddNext PROVE CoverInv'
<1>1. KernelTypeOK /\ TreeShape /\ paths \in Seq(Path) /\ paths # <<>>
  BY DEF BaseInv, TypeOK, DataTypeOK, CoverInv, PcOK, AddNext
<1>2. /\ UNCHANGED <<tree, queue, batch, blind, lost>>
      /\ pc = "add" /\ paths' = Tail(paths)
      /\ pc' = IF paths' # <<>> THEN "add" ELSE IF caller = "main" THEN "start" ELSE "callback"
  BY DEF AddNext, history
<1>3. PICK d \in DirAt(Head(paths)) : WatchPathOf(d)
  BY DEF AddNext
<1>4. /\ d \in DOMAIN tree /\ tree[d] = Head(paths)
      /\ watched' = watched \cup {d} /\ wd_map' = Put(wd_map, d, Head(paths))
  BY <1>3 DEF DirAt, WatchPathOf, AddWatch
<1>5. Head(paths) \in ToSet(paths) /\ ToSet(paths) = {Head(paths)} \cup ToSet(Tail(paths))
  BY <1>1, TailElements
<1>6. d # Outer
  BY <1>1, <1>4, <1>5 DEF BaseInv, PcOK, Pending, TreeShape
<1>7. ToList = {} /\ ToAdd = ToSet(paths)
  BY <1>2 DEF ToList, ToAdd
<1>8. ToSet(paths') \subseteq ToAdd'
  <2>1. ToSet(<<>>) = {}
    BY DEF ToSet
  <2>2. QED
    BY <1>2, <2>1 DEF ToAdd
<1>9. Outer \notin watched' /\ pc' \notin Ended /\ pc \notin Ended
  BY <1>1, <1>2, <1>4, <1>6 DEF TreeShape, Ended
<1>10. Undecoded' = Undecoded
  BY <1>2 DEF Undecoded
<1>11. ASSUME NEW x \in Promised, Right(x) \/ Claimed(x) PROVE (Right(x) \/ Claimed(x))'
  <2>1. x \in DOMAIN tree
    BY DEF Promised
  <2>2. CASE Right(x)
    <3>1. x \in DOMAIN wd_map /\ x \in watched /\ wd_map[x] = tree[x]
      BY <2>2 DEF Right, BaseInv, WatchesKnown
    <3>2. QED
      BY <1>2, <1>4, <3>1 DEF Right, Put
  <2>3. CASE x = d
    BY <1>2, <1>4, <2>3 DEF Right, Put
  <2>4. CASE x # d /\ Claimed(x)
    <3>1. tree[x] \in ToSet(paths) /\ tree[x] # Head(paths)
      BY <1>1, <1>4, <1>7, <2>1, <2>4 DEF Claimed, TreeShape
    <3>2. tree[x] \in ToAdd'
      BY <1>2, <1>5, <1>8, <3>1
    <3>3. QED
      BY <1>2, <3>2 DEF Claimed
  <2>5. QED
    BY <1>11, <2>2, <2>3, <2>4
<1>12. QED
  BY <1>2, <1>9, <1>10, <1>11, SameLineCover

\* A read moves the head of the line to the buffer (linux_monitor.cpp:50-58).
LEMMA ReadCover == ASSUME BaseInv, CoverInv, Read PROVE CoverInv'
<1>1. /\ UNCHANGED <<tree, watched, wd_map, blind, lost>>
      /\ pc = "read" /\ pc' = "handle" /\ batch = <<>> /\ queue \in Seq(Event)
  BY DEF Read, history, BaseInv, PcOK, TypeOK, KernelTypeOK
<1>2. batch' \o queue' = queue
  BY ReadSplits
<1>3. batch \o queue = queue
  BY <1>1, ConcatEmptySeq
<1>4. Undecoded' = Undecoded
  BY <1>1, <1>2, <1>3 DEF Undecoded
<1>5. Outer \notin watched' /\ pc' \notin Ended /\ pc \notin Ended
  BY <1>1 DEF CoverInv, TreeShape, Ended
<1>6. ToList = {} /\ ToAdd = {}
  BY <1>1 DEF ToList, ToAdd
<1>7. \A x : Right(x) \/ Claimed(x) => (Right(x) \/ Claimed(x))'
  BY <1>1, <1>6 DEF Right, Claimed
<1>8. QED
  BY <1>1, <1>4, <1>5, <1>7, SameLineCover

\* What an event told of is claimed once it is decoded: its directory is mapped to
\* its present path, so that the name completes it (linux_monitor.cpp:60, 99-102).
LEMMA HandleClaims ==
  ASSUME BaseInv, CoverInv, Handle,
         NEW c \in Promised, Parent(c) \in Promised, Right(Parent(c)), Tells(Head(batch), c)
  PROVE  pc' = "scan" /\ todo' = <<tree[c]>> /\ paths' = <<>>
<1> DEFINE e == Head(batch)
<1>1. KernelTypeOK /\ TreeOK /\ TreeShape
  BY DEF BaseInv, TypeOK, CoverInv
<1>2. c \in DOMAIN tree /\ tree[c] # NoPath /\ tree[c] \in Seq(Names) /\ Len(tree[c]) \in Nat
  BY <1>1, PromisedNotOuter, PathType
<1>3. /\ Parent(c) \in DOMAIN wd_map /\ wd_map[Parent(c)] = Front(tree[c])
      /\ e.wd = Parent(c) /\ e.name = <<Last(tree[c])>>
  BY <1>1, <1>2, ParentAbove DEF Right, BaseInv, WatchesKnown, Tells
<1>4. Lookup(e.wd) = Front(tree[c]) /\ NamesRead(e) = {<<Last(tree[c])>>}
  <2>1. Lookup(e.wd) = Front(tree[c])
    BY <1>3 DEF Lookup
  <2>2. e.name # <<>>
    <3>1. <<Last(tree[c])>> # <<>>
      OBVIOUS
    <3>2. QED
      BY <1>3, <3>1
  <2>3. NamesRead(e) = {e.name}
    BY <2>2 DEF NamesRead
  <2>4. QED
    BY <1>3, <2>1, <2>3
<1>5. fullpath' = Front(tree[c]) \o <<Last(tree[c])>>
  BY <1>4 DEF Handle, Decode
<1>6. Front(tree[c]) \o <<Last(tree[c])>> = tree[c]
  <2>1. Front(tree[c]) \in Seq(Names) /\ Last(tree[c]) \in Names
    <3>1. Len(tree[c]) > 0 /\ Len(tree[c]) - 1 \in 0 .. Len(tree[c])
      BY <1>2, EmptySeq DEF NoPath
    <3>2. QED
      BY <1>2, <3>1, FirstElements, ElementOfSeq DEF Front, Last
  <2>2. Append(Front(tree[c]), Last(tree[c])) = tree[c]
    <3> DEFINE s == tree[c]
               m == Len(s) - 1
    <3>1. Len(s) > 0 /\ m \in 0 .. Len(s) /\ m + 1 = Len(s)
      BY <1>2, EmptySeq DEF NoPath
    <3>2. Len(Front(s)) = m /\ \A i \in 1 .. m : Front(s)[i] = s[i]
      BY <1>2, <3>1, FirstElements DEF Front
    <3>3. /\ Append(Front(s), Last(s)) \in Seq(Names) /\ Len(Append(Front(s), Last(s))) = m + 1
          /\ \A i \in 1 .. m : Append(Front(s), Last(s))[i] = Front(s)[i]
          /\ Append(Front(s), Last(s))[m + 1] = Last(s)
      BY <2>1, <3>2, AppendProperties
    <3>4. Last(s) = s[m + 1]
      BY <3>1 DEF Last
    <3> HIDE DEF m
    <3>5. \A i \in 1 .. m + 1 : Append(Front(s), Last(s))[i] = s[i]
      <4>1. m \in Nat
        BY <1>2, <3>1
      <4>2. ASSUME NEW i \in 1 .. m + 1 PROVE i \in 1 .. m \/ i = m + 1
        BY <4>1
      <4>3. QED
        BY <3>2, <3>3, <3>4, <4>2
    <3>6. QED
      BY <1>2, <3>1, <3>3, <3>5, SeqEqual
  <2>3. QED
    BY <2>1, <2>2, AppendIsConcat
<1>7. fullpath' = tree[c] /\ tree' = tree
  BY <1>5, <1>6 DEF Handle, kernelVars
<1>8. IsWatchable
  BY <1>2, <1>7 DEF IsWatchable, IsDir, DirAt
<1>9. QED
  BY <1>7, <1>8 DEF Handle, EnterWatch

\* Decoding the first event moves the others up (linux_monitor.cpp:58-102).
LEMMA HandleCover == ASSUME BaseInv, CoverInv, Handle PROVE CoverInv'
<1>1. /\ UNCHANGED <<tree, watched, queue, batch, blind, lost>>
      /\ pc = "handle" /\ pc' \in {"scan", "callback"}
      /\ batch \in Seq(Event) /\ queue \in Seq(Event) /\ batch # <<>>
  BY DEF Handle, EnterWatch, kernelVars, BaseInv, PcOK, TypeOK, DataTypeOK, KernelTypeOK
<1>2. Outer \notin watched' /\ pc' \notin Ended /\ pc \notin Ended
  BY <1>1 DEF CoverInv, TreeShape, Ended
<1>3. Undecoded = batch \o queue /\ Undecoded' = Tail(batch) \o queue
  BY <1>1 DEF Undecoded
<1>4. /\ Undecoded \in Seq(Event) /\ Undecoded' \in Seq(Event)
      /\ Len(Undecoded) = Len(Undecoded') + 1
      /\ \A i \in 1 .. Len(Undecoded') : Undecoded'[i] = Undecoded[i + 1]
      /\ Undecoded[1] = Head(batch)
  BY <1>1, <1>3, TailOfConcat
<1>5. ToList = {} /\ ToAdd = {}
  BY <1>1 DEF ToList, ToAdd
<1>6. ASSUME NEW x \in Promised, Right(x) PROVE Right(x)'
  <2>1. x \in watched /\ x \in DOMAIN wd_map /\ wd_map[x] = tree[x]
    BY <1>6 DEF Right, BaseInv, WatchesKnown
  <2>2. wd_map'[x] = wd_map[x]
    BY <2>1 DEF Handle, Decode, Put, Lookup
  <2>3. QED
    BY <1>1, <2>1, <2>2 DEF Right
<1>7. \A x : ~Claimed(x)
  BY <1>5 DEF Claimed
<1>8. ASSUME NEW x \in Promised, TellsNext(x) PROVE Claimed(x)'
  <2>1. PICK c \in Promised :
          x \in Subtree(c) /\ Parent(c) \in Promised /\ Right(Parent(c)) /\ Tells(Head(batch), c)
    BY <1>4, <1>7, <1>8 DEF TellsNext
  <2>2. pc' = "scan" /\ todo' = <<tree[c]>>
    BY <2>1, HandleClaims
  <2>3. ToList' = {tree[c]}
    BY <2>2 DEF ToList, ToSet
  <2>4. IsPrefix(tree[c], tree[x])
    BY <2>1 DEF Subtree
  <2>5. QED
    BY <1>1, <2>3, <2>4 DEF Claimed
<1>9. \A x \in Promised : Right(x) \/ Claimed(x) \/ TellsNext(x) => (Right(x) \/ Claimed(x))'
  BY <1>6, <1>7, <1>8
<1>10. PICK k \in {0, 1} : k = 1
  OBVIOUS
<1>11. /\ Len(Undecoded) = Len(Undecoded') + k
       /\ \A i \in 1 .. Len(Undecoded') : Undecoded'[i] = Undecoded[i + k]
       /\ \A x \in Promised : Right(x) \/ Claimed(x) \/ (k = 1 /\ TellsNext(x))
                                => (Right(x) \/ Claimed(x))'
  BY <1>4, <1>9, <1>10
<1>12. QED
  BY <1>1, <1>2, <1>4, <1>11, MonitorCover

\* The event called back on was decoded before (linux_monitor.cpp:103-105).
LEMMA CallbackCover == ASSUME BaseInv, CoverInv, Callback PROVE CoverInv'
<1>1. /\ UNCHANGED <<tree, watched, queue, wd_map, todo, paths, blind, lost>>
      /\ pc = "callback" /\ batch # <<>>
  BY DEF Callback, kernelVars, history, BaseInv, PcOK
<1>2. CASE pc' \in Ended
  BY <1>1, <1>2, EndedCover
<1>3. CASE pc' \notin Ended
  <2>1. batch' = Tail(batch) /\ pc' = IF batch' = <<>> THEN "read" ELSE "handle"
    BY <1>3 DEF Callback, Throw, Ended
  <2>2. Undecoded' = Undecoded
    BY <1>1, <2>1 DEF Undecoded
  <2>3. Outer \notin watched' /\ pc \notin Ended
    BY <1>1 DEF CoverInv, TreeShape, Ended
  <2>4. ToList = {} /\ ToAdd = {}
    BY <1>1 DEF ToList, ToAdd
  <2>5. \A x : Right(x) \/ Claimed(x) => (Right(x) \/ Claimed(x))'
    BY <1>1, <2>4 DEF Right, Claimed
  <2>6. QED
    BY <1>1, <2>2, <2>3, <2>5, SameLineCover
<1>4. QED
  BY <1>2, <1>3

-----------------------------------------------------------------------------
(* The whole invariant, and what it promises.                               *)

\* At the start the only directory promised is the one watch will be called on.
LEMMA InitCover == Init => CoverInv
<1> SUFFICES ASSUME Init PROVE CoverInv
  OBVIOUS
<1>1. /\ DOMAIN tree = {Outer, Root} /\ tree[Outer] = <<>> /\ tree[Root] = WatchPath
      /\ Outer # Root /\ WatchPath \in Seq(Names) /\ watched = {} /\ queue = <<>>
      /\ pc = "new" /\ batch = <<>> /\ blind = {} /\ Len(WatchPath) = 1
  BY NamesAssumption DEF Init, KernelInit, Outer, Root, WatchPath
<1>2. TreeShape
  <2>1. WatchPath # <<>>
    BY <1>1
  <2>2. \A k \in 0 .. Len(tree[Outer]) : SubSeq(tree[Outer], 1, k) = tree[Outer]
    <3>1. <<>> \in Seq(Names) /\ Len(<<>>) = 0 /\ SubSeq(<<>>, 1, Len(<<>>)) = <<>>
      BY EmptySeq, SubSeqFull
    <3>2. QED
      BY <1>1, <3>1
  <2>3. \A k \in 0 .. Len(tree[Root]) : SubSeq(tree[Root], 1, k) \in {<<>>, WatchPath}
    <3>1. SubSeq(WatchPath, 1, 1) = WatchPath
      BY <1>1, SubSeqFull
    <3>2. SubSeq(WatchPath, 1, 0) = <<>>
      BY <1>1, FirstElements, EmptySeq
    <3>3. QED
      BY <1>1, <3>1, <3>2
  <2>4. QED
    BY <1>1, <2>1, <2>2, <2>3 DEF TreeShape, IsDir, DirAt, NoPath
<1>3. Root \in Subtree(Root) /\ IsPrefix(WatchPath, tree[Root])
  BY <1>1, PrefixAppend DEF Subtree
<1>4. Inside(Root)
  BY <1>1, <1>3 DEF Inside
<1>5. OutsideBlind
  BY <1>1, <1>4 DEF OutsideBlind
<1>6. Outer \notin Promised
  <2>1. BaseInv
    BY InitInv
  <2>2. QED
    BY <1>2, <2>1, PromisedNotOuter DEF BaseInv, TypeOK
<1>7. Reached
  <2>1. Len(Undecoded) \in Nat
    <3>1. BaseInv
      BY InitInv
    <3>2. QED
      BY <3>1, UndecodedType
  <2> DEFINE f == [d \in Promised |-> 0]
  <2>2. f \in [Promised -> 0 .. Len(Undecoded)]
    BY <2>1
  <2>3. Claimed(Root)
    BY <1>1, <1>3 DEF Claimed, ToList
  <2>4. \A d \in Promised : d = Root
    BY <1>1, <1>6 DEF Promised
  <2>5. \A d \in Promised : InPlace(f, d)
    BY <2>3, <2>4 DEF InPlace
  <2>6. QED
    BY <2>2, <2>5 DEF Reached
<1>8. QED
  BY <1>2, <1>5, <1>7 DEF CoverInv

\* Every step preserves the whole invariant.
LEMMA NextCover == Inv /\ [Next]_vars => Inv'
<1> SUFFICES ASSUME Inv, [Next]_vars PROVE Inv'
  OBVIOUS
<1>1. BaseInv /\ BaseInv' /\ CoverInv
  BY NextInv DEF Inv
<1> SUFFICES CoverInv'
  BY <1>1 DEF Inv
<1>2. CASE Main
  BY <1>1, <1>2, MainCover
<1>3. CASE ListDir \/ AddNext
  BY <1>1, <1>3, ListDirCover, AddNextCover
<1>4. CASE OpendirFails \/ AddWatchFails \/ ReadFails \/ HandleFails \/ Destroy
  <2>1. UNCHANGED <<tree, watched, blind, lost>>
    BY <1>4 DEF OpendirFails, AddWatchFails, ReadFails, HandleFails, Destroy, kernelVars, history
  <2>2. pc' \in Ended
    BY <1>4 DEF OpendirFails, AddWatchFails, ReadFails, HandleFails, Destroy, Throw, Ended
  <2>3. QED
    BY <1>1, <2>1, <2>2, EndedCover
<1>5. CASE Reader
  BY <1>1, <1>5, ReadCover, HandleCover, CallbackCover DEF Reader
<1>6. CASE Others
  BY <1>1, <1>6, OthersCover
<1>7. CASE UNCHANGED vars
  <2>1. UNCHANGED <<tree, watched, queue, wd_map, pc, batch, todo, paths, blind, lost>>
    BY <1>7 DEF vars, kernelVars, programVars, history
  <2>2. Undecoded' = Undecoded /\ ToList' = ToList /\ ToAdd' = ToAdd
    BY <2>1 DEF Undecoded, ToList, ToAdd
  <2>3. \A x : Right(x) \/ Claimed(x) => (Right(x) \/ Claimed(x))'
    BY <2>1, <2>2 DEF Right, Claimed
  <2>4. Outer \notin watched'
    BY <1>1, <2>1 DEF CoverInv, TreeShape
  <2>5. QED
    BY <1>1, <2>1, <2>2, <2>3, <2>4, SameLineCover
<1>8. QED
  BY <1>1, <1>2, <1>3, <1>4, <1>5, <1>6, <1>7 DEF Next, Watch, Inv

\* In every state of the monitor each directory promised is watched under its
\* present path, or about to be, or told of by an event that will be decoded
\* rightly (linux_monitor.cpp:14-110).
THEOREM Invariance == Spec => []Inv
<1>1. Init => Inv
  BY InitInv, InitCover DEF Inv
<1>2. QED
  BY <1>1, NextCover, PTL DEF Spec

\* Nothing left to read: every directory promised is watched, under its path.
LEMMA QuietRight == ASSUME Inv, Quiet, ~lost PROVE \A d \in Promised : Right(d)
<1>1. pc = "read" /\ queue = <<>> /\ batch = <<>> /\ pc \notin Ended
  BY DEF Quiet, Inv, BaseInv, PcOK, Ended
<1>2. Len(Undecoded) = 0
  <2>1. <<>> \in Seq(Event) /\ <<>> \o <<>> = <<>> /\ Len(<<>>) = 0
    BY EmptySeq, ConcatEmptySeq
  <2>2. QED
    BY <1>1, <2>1 DEF Undecoded
<1>3. PICK place \in [Promised -> 0 .. Len(Undecoded)] : \A d \in Promised : InPlace(place, d)
  BY <1>1 DEF Inv, CoverInv, Reached
<1>4. \A d \in Promised : place[d] = 0
  BY <1>2, <1>3
<1>5. \A d : ~Claimed(d)
  BY <1>1 DEF Claimed, ToList, ToAdd
<1>6. QED
  BY <1>3, <1>4, <1>5 DEF InPlace

\* Whatever other processes did to the tree, a monitor that has caught up watches
\* all of it that neither the window of linux_monitor.cpp:28-32 nor a failed readdir
\* (common.cpp:141) hid from it.
THEOREM CoveredHolds == Spec => []Covered
<1>1. Inv => Covered
  BY QuietRight DEF Covered, Promised, Right
<1>2. QED
  BY <1>1, Invariance, PTL

\* And it has followed every rename: the map gives every directory watched the path
\* it has now (linux_monitor.cpp:38, 60, 99-102).
THEOREM PathsCurrentHolds == Spec => []PathsCurrent
<1>1. ASSUME Inv PROVE PathsCurrent
  <2>1. \A d : Inside(d) => d \in DOMAIN tree
    BY DEF Inside, Subtree
  <2>2. QED
    BY <1>1, <2>1, QuietRight DEF PathsCurrent, Promised, Right
<1>2. QED
  BY <1>1, Invariance, PTL
=============================================================================
