--------------------------- MODULE WinMonitorProofs ---------------------------
(***************************************************************************)
(* Proofs about WinMonitor for buffers of any size and any number of       *)
(* changes: the order of the calls of the callback, and the safety of      *)
(* ChangeSignal.                                                           *)
(***************************************************************************)
EXTENDS WinMonitor, SequenceTheorems, TLAPS

-----------------------------------------------------------------------------
(* Sequences.                                                               *)

\* Appending to the second of two sequences in a row.
LEMMA ConcatAppend ==
  ASSUME NEW S, NEW s \in Seq(S), NEW t \in Seq(S), NEW e \in S
  PROVE  s \o Append(t, e) = Append(s \o t, e)
<1>1. <<e>> \in Seq(S) /\ s \o t \in Seq(S)
  BY ConcatProperties
<1>2. Append(t, e) = t \o <<e>> /\ Append(s \o t, e) = (s \o t) \o <<e>>
  BY <1>1, AppendIsConcat
<1>3. QED
  BY <1>1, <1>2, ConcatAssociative

\* The first element of one sequence moved to the end of another in front.
LEMMA MoveHead ==
  ASSUME NEW S, NEW s \in Seq(S), NEW t \in Seq(S), t # <<>>
  PROVE  Append(s, Head(t)) \o Tail(t) = s \o t
<1>1. Len(t) \in Nat /\ 1 \in 1 .. Len(t) /\ Len(t) \in 1 .. Len(t) /\ Head(t) = t[1]
  BY EmptySeq
<1>2. t = <<Head(t)>> \o Tail(t)
  BY <1>1, SubSeqRecursiveFirst, SubSeqFull, TailIsSubSeq
<1>3. Head(t) \in S /\ Tail(t) \in Seq(S) /\ <<Head(t)>> \in Seq(S)
  BY HeadTailProperties
<1>4. Append(s, Head(t)) = s \o <<Head(t)>>
  BY <1>3, AppendIsConcat
<1>5. (s \o <<Head(t)>>) \o Tail(t) = s \o (<<Head(t)>> \o Tail(t))
  BY <1>3, ConcatAssociative
<1>6. QED
  BY <1>2, <1>4, <1>5

-----------------------------------------------------------------------------
(* Sequences of changes.                                                    *)

\* Of the first n changes, some, each once and in their order; 0 stands for those
\* that were thrown away.
Ordered(s, n) ==
  /\ \A i \in DOMAIN s : s[i] <= n
  /\ \A i, j \in DOMAIN s : i < j /\ s[i] # 0 /\ s[j] # 0 => s[i] < s[j]

\* The next change comes last.
LEMMA OrderedAppend ==
  ASSUME NEW s \in Seq(Nat), NEW n \in Nat, Ordered(s, n)
  PROVE  Ordered(Append(s, n + 1), n + 1)
<1>1. Len(s) \in Nat /\ DOMAIN s = 1 .. Len(s) /\ \A i \in 1 .. Len(s) : s[i] \in Nat
  BY LenProperties, ElementOfSeq
<1>2. /\ DOMAIN Append(s, n + 1) = 1 .. Len(s) + 1 /\ Append(s, n + 1)[Len(s) + 1] = n + 1
      /\ \A i \in 1 .. Len(s) : Append(s, n + 1)[i] = s[i]
  BY <1>1, AppendProperties, LenProperties
<1>3. \A i \in 1 .. Len(s) + 1 : i = Len(s) + 1 \/ i \in 1 .. Len(s)
  BY <1>1
<1>4. \A i \in 1 .. Len(s) : s[i] <= n
  BY <1>1 DEF Ordered
<1>5. \A i \in 1 .. Len(s) + 1 : Append(s, n + 1)[i] <= n + 1
  BY <1>1, <1>2, <1>3, <1>4
<1>6. ASSUME NEW i \in 1 .. Len(s) + 1, NEW j \in 1 .. Len(s) + 1, i < j,
             Append(s, n + 1)[i] # 0, Append(s, n + 1)[j] # 0
      PROVE  Append(s, n + 1)[i] < Append(s, n + 1)[j]
  <2>1. i \in 1 .. Len(s) /\ Append(s, n + 1)[i] = s[i]
    BY <1>1, <1>2, <1>6
  <2>2. CASE j = Len(s) + 1
    BY <1>1, <1>2, <1>4, <2>1, <2>2
  <2>3. CASE j \in 1 .. Len(s)
    BY <1>1, <1>2, <1>6, <2>1, <2>3 DEF Ordered
  <2>4. QED
    BY <1>3, <2>2, <2>3
<1>7. QED
  BY <1>2, <1>5, <1>6 DEF Ordered

\* What comes first is in order without the rest.
LEMMA OrderedFirst ==
  ASSUME NEW s \in Seq(Nat), NEW t \in Seq(Nat), NEW n \in Nat, Ordered(s \o t, n)
  PROVE  Ordered(s, n)
<1>1. Len(s) \in Nat /\ Len(t) \in Nat /\ DOMAIN s = 1 .. Len(s)
  BY LenProperties
<1>2. /\ DOMAIN (s \o t) = 1 .. Len(s) + Len(t)
      /\ \A i \in 1 .. Len(s) : i \in 1 .. Len(s) + Len(t) /\ (s \o t)[i] = s[i]
  BY <1>1, ConcatProperties, LenProperties
<1>3. QED
  BY <1>1, <1>2 DEF Ordered

\* A call that stands for no change, between two others.
LEMMA OrderedZero ==
  ASSUME NEW s \in Seq(Nat), NEW t \in Seq(Nat), NEW n \in Nat, Ordered(s \o t, n)
  PROVE  Ordered(Append(s, 0) \o t, n)
<1> DEFINE r == Append(s, 0) \o t
           k(i) == IF i <= Len(s) THEN i ELSE i - 1
<1>1. Len(s) \in Nat /\ Len(t) \in Nat
  BY LenProperties
<1>2. /\ Append(s, 0) \in Seq(Nat) /\ Len(Append(s, 0)) = Len(s) + 1
      /\ Append(s, 0)[Len(s) + 1] = 0 /\ \A i \in 1 .. Len(s) : Append(s, 0)[i] = s[i]
  BY AppendProperties
<1>3. /\ DOMAIN (s \o t) = 1 .. Len(s) + Len(t)
      /\ \A i \in 1 .. Len(s) + Len(t) :
           (s \o t)[i] = IF i <= Len(s) THEN s[i] ELSE t[i - Len(s)]
  BY ConcatProperties, LenProperties
<1>4. /\ DOMAIN r = 1 .. Len(s) + Len(t) + 1
      /\ \A i \in 1 .. Len(s) + Len(t) + 1 :
           r[i] = IF i <= Len(s) + 1 THEN Append(s, 0)[i] ELSE t[i - (Len(s) + 1)]
  BY <1>2, ConcatProperties, LenProperties
<1>5. \A i \in 1 .. Len(s) + Len(t) + 1 :
        i # Len(s) + 1 => k(i) \in 1 .. Len(s) + Len(t) /\ r[i] = (s \o t)[k(i)]
  BY <1>1, <1>2, <1>3, <1>4
<1>6. r[Len(s) + 1] = 0
  BY <1>1, <1>2, <1>4
<1>7. \A i, j \in 1 .. Len(s) + Len(t) + 1 :
        i < j /\ i # Len(s) + 1 /\ j # Len(s) + 1 => k(i) < k(j)
  BY <1>1
<1> DEFINE u == s \o t
           m == Len(s) + Len(t)
<1>8. /\ \A i \in 1 .. m : u[i] <= n
      /\ \A i, j \in 1 .. m : i < j /\ u[i] # 0 /\ u[j] # 0 => u[i] < u[j]
  BY <1>3 DEF Ordered
<1>9. 0 <= n /\ DOMAIN r = 1 .. m + 1
  BY <1>1, <1>4
<1>10. /\ \A i \in 1 .. m + 1 : i # Len(s) + 1 => k(i) \in 1 .. m /\ r[i] = u[k(i)]
       /\ \A i, j \in 1 .. m + 1 : i < j /\ i # Len(s) + 1 /\ j # Len(s) + 1 => k(i) < k(j)
  BY <1>1, <1>5, <1>7
<1> HIDE DEF r, k, u, m
<1>11. \A i \in DOMAIN r : r[i] <= n
  BY <1>6, <1>8, <1>9, <1>10
<1>12. ASSUME NEW i \in DOMAIN r, NEW j \in DOMAIN r, i < j, r[i] # 0, r[j] # 0
       PROVE  r[i] < r[j]
  <2>1. i # Len(s) + 1 /\ j # Len(s) + 1
    BY <1>6, <1>12
  <2>2. k(i) \in 1 .. m /\ k(j) \in 1 .. m /\ k(i) < k(j) /\ r[i] = u[k(i)] /\ r[j] = u[k(j)]
    BY <1>9, <1>10, <1>12, <2>1
  <2>3. QED
    BY <1>8, <1>12, <2>2
<1>13. QED
  BY <1>11, <1>12 DEF Ordered, r

\* All changes so far.
LEMMA NumbersSeq ==
  ASSUME NEW n \in Nat
  PROVE  Numbers(n) \in Seq(Nat) /\ Len(Numbers(n)) = n /\ \A i \in 1 .. n : Numbers(n)[i] = i
<1>1. Numbers(n) \in [1 .. n -> Nat] /\ \A i \in 1 .. n : Numbers(n)[i] = i
  BY DEF Numbers
<1>2. Numbers(n) \in Seq(Nat)
  BY <1>1, SeqDef
<1>3. Len(Numbers(n)) \in Nat /\ 1 .. Len(Numbers(n)) = 1 .. n
  BY <1>1, <1>2, LenProperties
<1>4. QED
  BY <1>1, <1>2, <1>3

\* And the next.
LEMMA NumbersAppend ==
  ASSUME NEW n \in Nat
  PROVE  Append(Numbers(n), n + 1) = Numbers(n + 1)
<1>1. Numbers(n) \in Seq(Nat) /\ Len(Numbers(n)) = n /\ \A i \in 1 .. n : Numbers(n)[i] = i
  BY NumbersSeq
<1>2. /\ Numbers(n + 1) \in Seq(Nat) /\ Len(Numbers(n + 1)) = n + 1
      /\ \A i \in 1 .. n + 1 : Numbers(n + 1)[i] = i
  BY NumbersSeq
<1>3. /\ Append(Numbers(n), n + 1) \in Seq(Nat) /\ Len(Append(Numbers(n), n + 1)) = n + 1
      /\ \A i \in 1 .. n + 1 : Append(Numbers(n), n + 1)[i] = i
  <2>1. /\ \A i \in 1 .. n : Append(Numbers(n), n + 1)[i] = Numbers(n)[i]
        /\ Append(Numbers(n), n + 1)[n + 1] = n + 1
    BY <1>1, AppendProperties
  <2>2. QED
    BY <1>1, <2>1, AppendProperties
<1>4. QED
  BY <1>2, <1>3, SeqEqual

-----------------------------------------------------------------------------
(* The steps preserve the invariant.                                        *)

\* What is left in the buffer is a sequence of changes.
LEMMA RestTyped == ASSUME Inv PROVE Rest \in Seq(Nat) /\ told \o Rest \in Seq(Nat) /\ AllNumbers \in Seq(Nat)
<1>1. /\ lpBuffer \in Seq(Nat) /\ info \in Nat /\ told \in Seq(Nat) /\ queue \in Seq(Nat)
      /\ Len(lpBuffer) \in Nat
  BY LenProperties DEF Inv, TypeOK, Changes
<1>2. pc = "routine" => info >= 1
  <2>1. pc = "routine" => info \in 1 .. Len(lpBuffer) \/ info = 1
    BY DEF Inv, BufferOK
  <2>2. QED
    BY <1>1, <2>1
<1>3. pc = "callback" => info + 1 >= 1
  BY <1>1
<1>4. \A m \in Nat : m >= 1 => SubSeq(lpBuffer, m, Len(lpBuffer)) \in Seq(Nat)
  BY <1>1, SubSeqProperties, ElementOfSeq
<1>5. Rest \in Seq(Nat)
  <2>1. pc = "routine" => SubSeq(lpBuffer, info, Len(lpBuffer)) \in Seq(Nat)
    BY <1>1, <1>2, <1>4
  <2>2. pc = "callback" => SubSeq(lpBuffer, info + 1, Len(lpBuffer)) \in Seq(Nat)
    BY <1>1, <1>3, <1>4
  <2>3. <<>> \in Seq(Nat)
    BY EmptySeq
  <2>4. QED
    BY <1>1, <2>1, <2>2, <2>3 DEF Rest
<1>6. QED
  BY <1>1, <1>5, ConcatProperties DEF AllNumbers

\* The order of the calls follows from that of everything told and to be told.
LEMMA OrderInv ==
  ASSUME TypeOK', Rest' \in Seq(Nat), OneAtATime', BufferOK',
         Ordered(told' \o Rest' \o queue', changes'),
         ~lost' /\ ~gone' => told' \o Rest' \o queue' = Numbers(changes'),
         CallsPaid'
  PROVE  Inv'
<1>1. told' \in Seq(Nat) /\ queue' \in Seq(Nat) /\ changes' \in Nat
  BY DEF TypeOK, Changes
<1>2. told' \o Rest' \in Seq(Nat)
  BY <1>1, ConcatProperties
<1>3. Ordered(told' \o Rest', changes')
  BY <1>1, <1>2, OrderedFirst
<1>4. Ordered(told', changes')
  BY <1>1, <1>3, OrderedFirst
<1>5. InOrder'
  BY DEF InOrder, Ordered, AllNumbers
<1>6. ToldInOrder'
  BY <1>4 DEF ToldInOrder, Ordered
<1>7. QED
  BY <1>5, <1>6 DEF Inv

\* What is owed besides the records is a whole number.
LEMMA ExtraType == Extra \in Int /\ Extra' \in Int
  BY DEF Extra, One

\* A step that tells nothing, loses nothing and owes no further call.
LEMMA SameNumbers ==
  ASSUME Inv, TypeOK', Rest' \in Seq(Nat), OneAtATime', BufferOK',
         told' \o Rest' \o queue' = AllNumbers, UNCHANGED <<changes, lost>>, gone => gone',
         Extra' <= Extra
  PROVE  Inv'
<1>1. Ordered(AllNumbers, changes)
  BY DEF Inv, InOrder, Ordered
<1>2. ~lost /\ ~gone => AllNumbers = Numbers(changes)
  BY DEF Inv, ToldInOrder, AllNumbers
<1>3. gone \in BOOLEAN /\ gone' \in BOOLEAN
  BY DEF Inv, TypeOK
<1>4. CallsPaid'
  <2>1. Len(AllNumbers) \in Nat /\ changes \in Nat
    BY RestTyped, LenProperties DEF Inv, TypeOK
  <2>2. AllNumbers' = AllNumbers
    BY DEF AllNumbers
  <2>3. Len(AllNumbers) + Extra <= changes
    BY DEF Inv, CallsPaid
  <2>4. Len(AllNumbers) + Extra' <= changes
    BY <2>1, <2>3, ExtraType
  <2>5. QED
    BY <2>2, <2>4 DEF CallsPaid
<1>5. QED
  BY <1>1, <1>2, <1>3, <1>4, OrderInv

\* A change comes after all others, or is thrown away with those that wait.
LEMMA ChangeInv == ASSUME Inv, Change PROVE Inv'
<1>1. /\ changes' = changes + 1 /\ ~gone /\ pc \notin {"new", "threw"}
      /\ UNCHANGED <<armed, apc, gone, pc, lpBuffer, info, told, seen>>
  BY DEF Change
<1>2. /\ queue \in Seq(Nat) /\ told \in Seq(Nat) /\ changes \in Nat /\ seen \in 0 .. changes
      /\ Ordered(AllNumbers, changes)
      /\ Rest \in Seq(Nat) /\ told \o Rest \in Seq(Nat) /\ AllNumbers \in Seq(Nat)
  BY RestTyped DEF Inv, TypeOK, Changes, InOrder, Ordered
<1>3. Rest' = Rest
  BY <1>1 DEF Rest
<1>4. OneAtATime'
  BY <1>1 DEF Inv, OneAtATime
<1> DEFINE unread == One((apc \/ pc = "routine") /\ lpBuffer = <<>>)
           paid == One(gone /\ ~armed)
<1>5. /\ Len(AllNumbers) \in Nat /\ unread \in Int /\ paid \in Int /\ One(overflow) \in 0 .. 1
      /\ Len(AllNumbers) + (One(overflow) + unread - paid) <= changes
      /\ Extra' = One(overflow') + unread - paid
  BY <1>1, <1>2, LenProperties DEF Inv, CallsPaid, Extra, One
<1> HIDE DEF unread, paid
<1>6. CASE Len(queue) < KernelCap /\ ~overflow
  <2>1. queue' = Append(queue, changes + 1) /\ UNCHANGED <<overflow, lost>> /\ overflow = FALSE
    BY <1>1, <1>6 DEF Change, Inv, TypeOK
  <2>2. TypeOK'
    <3>1. queue' \in Seq(Nat) /\ changes' \in Nat /\ seen' \in 0 .. changes'
      BY <1>1, <1>2, <2>1, AppendProperties
    <3>2. QED
      BY <1>1, <2>1, <3>1 DEF Inv, TypeOK, Changes
  <2>3. BufferOK'
    BY <1>1, <2>1 DEF Inv, BufferOK
  <2>4. told' \o Rest' \o queue' = Append(AllNumbers, changes + 1)
    <3>1. (told \o Rest) \o Append(queue, changes + 1) = Append((told \o Rest) \o queue, changes + 1)
      <4>1. told \o Rest \in Seq(Nat) /\ queue \in Seq(Nat) /\ changes + 1 \in Nat
        BY <1>2
      <4>2. \A s, t \in Seq(Nat) : \A e \in Nat : s \o Append(t, e) = Append(s \o t, e)
        BY ConcatAppend
      <4>3. QED
        BY <4>1, <4>2
    <3>2. QED
      BY <1>1, <1>3, <2>1, <3>1 DEF AllNumbers
  <2>5. Ordered(told' \o Rest' \o queue', changes')
    BY <1>1, <1>2, <2>4, OrderedAppend
  <2>6. ~lost' /\ ~gone' => told' \o Rest' \o queue' = Numbers(changes')
    <3>1. ~lost /\ ~gone => AllNumbers = Numbers(changes)
      BY DEF Inv, ToldInOrder, AllNumbers
    <3>2. QED
      BY <1>1, <1>2, <2>1, <2>4, <3>1, NumbersAppend
  <2>7. CallsPaid'
    <3>1. Len(AllNumbers') = Len(AllNumbers) + 1
      BY <1>1, <1>2, <2>4, AppendProperties DEF AllNumbers
    <3>2. QED
      BY <1>1, <1>2, <1>5, <2>1, <3>1 DEF CallsPaid
  <2>8. QED
    BY <1>2, <1>3, <1>4, <2>2, <2>3, <2>5, <2>6, <2>7, OrderInv
<1>7. CASE ~(Len(queue) < KernelCap /\ ~overflow)
  <2>1. queue' = <<>> /\ overflow' = TRUE /\ lost' = TRUE
    BY <1>1, <1>7 DEF Change
  <2>2. TypeOK'
    <3>1. queue' \in Seq(Nat) /\ changes' \in Nat /\ seen' \in 0 .. changes'
      BY <1>1, <1>2, <2>1, EmptySeq
    <3>2. QED
      BY <1>1, <2>1, <3>1 DEF Inv, TypeOK, Changes
  <2>3. BufferOK'
    BY <1>1, <2>1 DEF Inv, BufferOK
  <2>4. told' \o Rest' \o queue' = told \o Rest
    BY <1>1, <1>2, <1>3, <2>1, ConcatEmptySeq
  <2>5. Ordered(told \o Rest, changes)
    BY <1>2, OrderedFirst DEF AllNumbers
  <2>6. Ordered(told \o Rest, changes + 1)
    <3>1. \A i \in DOMAIN (told \o Rest) : (told \o Rest)[i] \in Nat
      BY <1>2, LenProperties, ElementOfSeq
    <3>2. \A i \in DOMAIN (told \o Rest) : (told \o Rest)[i] <= changes
      BY <2>5 DEF Ordered
    <3>3. \A i \in DOMAIN (told \o Rest) : (told \o Rest)[i] <= changes + 1
      BY <1>2, <3>1, <3>2
    <3>4. QED
      BY <2>5, <3>3 DEF Ordered
  <2>7. CallsPaid'
    <3>1. /\ Len(told \o Rest) \in Nat /\ Len(queue) \in Nat
          /\ Len(AllNumbers) = Len(told \o Rest) + Len(queue)
      BY <1>2, LenProperties, ConcatProperties DEF AllNumbers
    <3>2. AllNumbers' = told \o Rest /\ One(overflow') = 1
      BY <2>1, <2>4 DEF AllNumbers, One
    <3>3. QED
      BY <1>1, <1>2, <1>5, <3>1, <3>2 DEF CallsPaid
  <2>8. QED
    BY <1>1, <1>2, <1>3, <1>4, <2>1, <2>2, <2>3, <2>4, <2>6, <2>7, OrderInv
<1>8. QED
  BY <1>6, <1>7

\* A read takes all that waits, into a buffer that is empty (monitor.cpp:62-65).
LEMMA CompleteInv == ASSUME Inv, Complete PROVE Inv'
<1>1. /\ armed = TRUE /\ (queue # <<>> \/ overflow \/ gone)
      /\ queue' = <<>> /\ overflow' = FALSE /\ armed' = FALSE /\ apc' = TRUE
      /\ lpBuffer' = IF queue = <<>> THEN lpBuffer ELSE queue
      /\ UNCHANGED <<gone, pc, info, changes, told, seen, lost>>
  BY DEF Complete, history, Inv, TypeOK
<1>2. /\ queue \in Seq(Nat) /\ told \in Seq(Nat)
      /\ Rest \in Seq(Nat) /\ told \o Rest \in Seq(Nat) /\ AllNumbers \in Seq(Nat)
  BY RestTyped DEF Inv, TypeOK, Changes
<1>3. apc = FALSE /\ pc = "caller" /\ lpBuffer = <<>>
  BY <1>1 DEF Inv, OneAtATime, TypeOK
<1>4. lpBuffer' = queue /\ Rest = <<>> /\ Rest' = queue
  BY <1>1, <1>3 DEF Rest
<1>5. TypeOK'
  BY <1>1, <1>2, <1>4, EmptySeq DEF Inv, TypeOK, Changes
<1>6. OneAtATime'
  BY <1>1, <1>3 DEF OneAtATime
<1>7. BufferOK'
  BY <1>1, <1>3, <1>4 DEF Inv, BufferOK
<1>8. told' \o Rest' \o queue' = AllNumbers
  <2>1. (told \o queue) \o <<>> = told \o queue /\ (told \o <<>>) \o queue = told \o queue
    BY <1>2, ConcatProperties, ConcatEmptySeq
  <2>2. QED
    BY <1>1, <1>4, <2>1 DEF AllNumbers
<1>9. Extra' <= Extra
  <2>1. overflow => queue = <<>>
    BY DEF Inv, BufferOK
  <2>2. Extra = One(overflow)
    BY <1>1, <1>3 DEF Extra, One
  <2>3. Extra' = One(queue = <<>>) - One(gone)
    BY <1>1, <1>4 DEF Extra, One
  <2>4. QED
    BY <1>1, <2>1, <2>2, <2>3 DEF One
<1>10. QED
  BY <1>1, <1>2, <1>4, <1>5, <1>6, <1>7, <1>8, <1>9, SameNumbers

\* The directory is deleted.
LEMMA DeleteInv == ASSUME Inv, Delete PROVE Inv'
<1>1. /\ gone' = TRUE
      /\ UNCHANGED <<queue, overflow, armed, apc, pc, lpBuffer, info, changes, told, seen, lost>>
  BY DEF Delete, history
<1>2. Rest' = Rest /\ Rest \in Seq(Nat)
  BY <1>1, RestTyped DEF Rest
<1>3. TypeOK' /\ OneAtATime' /\ BufferOK'
  BY <1>1 DEF Inv, TypeOK, OneAtATime, BufferOK, Delete
<1>4. Extra' <= Extra
  BY <1>1 DEF Extra, One
<1>5. QED
  BY <1>1, <1>2, <1>3, <1>4, SameNumbers DEF AllNumbers

\* The first read and the next, and those that the system refuses: nothing is left
\* to be told in the buffer (monitor.cpp:58-70).
LEMMA ReadInv ==
  ASSUME Inv, ReadAsync \/ ReadAsyncFails \/ Rearm \/ RearmFails
  PROVE  Inv'
<1>1. /\ pc \in {"new", "rearm"} /\ lpBuffer' \in {<<>>, lpBuffer}
      /\ \/ pc' = "caller" /\ armed' = TRUE /\ lpBuffer' = <<>> /\ (pc = "new" \/ ~gone)
         \/ pc' = "threw" /\ armed' = armed
      /\ UNCHANGED <<queue, overflow, apc, gone, info, changes, told, seen, lost>>
  BY DEF ReadAsync, ReadAsyncFails, Rearm, RearmFails, ReadDirectoryChanges,
         ReadDirectoryChangesFails, ZeroMemory, kernelVars, history
<1>2. apc = FALSE /\ armed = FALSE
  BY <1>1 DEF Inv, OneAtATime, BufferOK, TypeOK
<1>3. Rest = <<>> /\ Rest' = <<>> /\ <<>> \in Seq(Nat)
  BY <1>1, <1>2, EmptySeq DEF Rest
<1>4. TypeOK'
  BY <1>1, <1>3 DEF Inv, TypeOK, Changes
<1>5. OneAtATime' /\ BufferOK'
  BY <1>1, <1>2 DEF Inv, OneAtATime, BufferOK
<1>6. Extra' <= Extra
  <2>1. pc = "new" => ~gone
    BY DEF Inv, BufferOK
  <2>2. QED
    BY <1>1, <1>2, <2>1 DEF Extra, One
<1>7. QED
  BY <1>1, <1>3, <1>4, <1>5, <1>6, SameNumbers DEF AllNumbers

\* The routine starts at the first record.
LEMMA EnterRoutineInv == ASSUME Inv, EnterRoutine PROVE Inv'
<1>1. /\ apc = TRUE /\ apc' = FALSE /\ pc' = "routine" /\ info' = 1
      /\ UNCHANGED <<queue, overflow, armed, gone, lpBuffer, changes, told, seen, lost>>
  BY DEF EnterRoutine, history, Inv, TypeOK
<1>2. lpBuffer \in Seq(Nat) /\ Len(lpBuffer) \in Nat /\ (lpBuffer # <<>> => 1 \in 1 .. Len(lpBuffer))
  BY LenProperties, EmptySeq DEF Inv, TypeOK, Changes
<1>3. Rest = lpBuffer /\ Rest' = lpBuffer
  BY <1>1, <1>2, SubSeqFull DEF Rest
<1>4. armed = FALSE
  BY <1>1 DEF Inv, OneAtATime, TypeOK
<1>5. TypeOK'
  BY <1>1 DEF Inv, TypeOK
<1>6. OneAtATime' /\ BufferOK'
  BY <1>1, <1>2, <1>4 DEF Inv, OneAtATime, BufferOK
<1>7. Extra' <= Extra
  BY <1>1 DEF Extra, One
<1>8. QED
  BY <1>1, <1>2, <1>3, <1>5, <1>6, <1>7, SameNumbers DEF AllNumbers

\* The record is told; a buffer of zeros is told as one record of no change, and then
\* some change was thrown away or the directory was deleted (monitor.cpp:18-25).
LEMMA CallbackInv == ASSUME Inv, Callback PROVE Inv'
<1>1. /\ pc = "routine" /\ pc' = "callback" /\ told' = Append(told, Record) /\ seen' = changes
      /\ UNCHANGED <<queue, overflow, armed, apc, gone, lpBuffer, info, changes, lost>>
  BY DEF Callback, kernelVars
<1>2. /\ queue \in Seq(Nat) /\ told \in Seq(Nat) /\ lpBuffer \in Seq(Nat) /\ Len(lpBuffer) \in Nat
      /\ changes \in Nat /\ apc = FALSE /\ armed = FALSE /\ info \in Nat
      /\ info \in 1 .. Len(lpBuffer) \/ (lpBuffer = <<>> /\ info = 1)
      /\ lpBuffer = <<>> => lost \/ gone
  BY <1>1, LenProperties DEF Inv, TypeOK, Changes, BufferOK, OneAtATime
<1>3. OneAtATime' /\ BufferOK'
  BY <1>1, <1>2 DEF Inv, OneAtATime, BufferOK
<1>4. /\ Rest = SubSeq(lpBuffer, info, Len(lpBuffer))
      /\ Rest' = SubSeq(lpBuffer, info + 1, Len(lpBuffer))
  BY <1>1, <1>2 DEF Rest
<1>5. Rest \in Seq(Nat) /\ told \o Rest \in Seq(Nat)
  BY RestTyped
<1>6. ASSUME Record \in Nat PROVE TypeOK'
  <2>1. told' \in Seq(Nat) /\ seen' \in 0 .. changes'
    BY <1>1, <1>2, <1>6, AppendProperties
  <2>2. QED
    BY <1>1, <2>1 DEF Inv, TypeOK, Changes
<1>7. CASE lpBuffer # <<>>
  <2>1. info \in 1 .. Len(lpBuffer) /\ Record = lpBuffer[info] /\ Record \in Nat
    BY <1>2, <1>7, ElementOfSeq DEF Record
  <2>2. Rest # <<>> /\ Head(Rest) = Record /\ Tail(Rest) = Rest'
    <3>1. Len(lpBuffer) \in info .. Len(lpBuffer)
      BY <1>2, <2>1
    <3>2. Head(Rest) = Record /\ Tail(Rest) = Rest'
      BY <1>2, <1>4, <2>1, <3>1, HeadTailOfSubSeq
    <3>3. \A i \in info .. Len(lpBuffer) : lpBuffer[i] \in Nat
      BY <1>2, <2>1, ElementOfSeq
    <3>4. Len(Rest) = Len(lpBuffer) - info + 1
      BY <1>2, <1>4, <2>1, <3>3, SubSeqProperties
    <3>5. Rest # <<>>
      BY <1>2, <2>1, <3>4, EmptySeq
    <3>6. QED
      BY <3>2, <3>5
  <2>3. told' \o Rest' = told \o Rest /\ Rest' \in Seq(Nat)
    BY <1>1, <1>2, <1>5, <2>2, MoveHead, HeadTailProperties
  <2>4. Extra' <= Extra
    BY <1>1, <1>7 DEF Extra, One
  <2>5. QED
    BY <1>1, <1>3, <1>6, <2>1, <2>3, <2>4, SameNumbers DEF AllNumbers
<1>8. CASE lpBuffer = <<>>
  <2>1. Record = 0 /\ info = 1 /\ Len(lpBuffer) = 0
    BY <1>2, <1>8, EmptySeq DEF Record
  <2>2. Rest = <<>> /\ Rest' = <<>> /\ <<>> \in Seq(Nat)
    BY <1>4, <2>1, SubSeqEmpty, EmptySeq
  <2>3. AllNumbers = told \o queue /\ told' \o Rest' \o queue' = Append(told, 0) \o queue
    BY <1>1, <1>2, <2>1, <2>2, ConcatEmptySeq, AppendProperties DEF AllNumbers
  <2>4. Ordered(told \o queue, changes)
    BY <2>3 DEF Inv, InOrder, Ordered
  <2>5. Ordered(Append(told, 0) \o queue, changes)
    BY <1>2, <2>4, OrderedZero
  <2>6. CallsPaid'
    <3>1. Len(AllNumbers) \in Nat /\ Len(AllNumbers') = Len(AllNumbers) + 1
      <4>1. /\ Append(told, 0) \in Seq(Nat) /\ Len(Append(told, 0)) = Len(told) + 1
            /\ Len(told) \in Nat /\ Len(queue) \in Nat
        BY <1>2, AppendProperties, LenProperties
      <4>2. /\ Len(told \o queue) = Len(told) + Len(queue)
            /\ Len(Append(told, 0) \o queue) = Len(told) + 1 + Len(queue)
        BY <1>2, <4>1, ConcatProperties
      <4>3. AllNumbers' = Append(told, 0) \o queue
        BY <2>3 DEF AllNumbers
      <4>4. QED
        BY <2>3, <4>1, <4>2, <4>3
    <3>2. Extra' = Extra - 1
      BY <1>1, <1>2, <1>8 DEF Extra, One
    <3>3. Len(AllNumbers) + Extra <= changes
      BY DEF Inv, CallsPaid
    <3>4. QED
      BY <1>1, <1>2, <3>1, <3>2, <3>3, ExtraType DEF CallsPaid
  <2>7. QED
    BY <1>1, <1>2, <1>3, <1>6, <1>8, <2>1, <2>2, <2>3, <2>5, <2>6, OrderInv
<1>9. QED
  BY <1>7, <1>8

\* The routine goes to the next record, or has none left (monitor.cpp:49-58).
LEMMA MoreInv == ASSUME Inv, NextRecord \/ LastRecord PROVE Inv'
<1>1. /\ pc = "callback"
      /\ \/ pc' = "routine" /\ info' = info + 1 /\ info < Len(lpBuffer)
         \/ pc' = "rearm" /\ info' = info /\ ~(info < Len(lpBuffer))
      /\ UNCHANGED <<queue, overflow, armed, apc, gone, lpBuffer, changes, told, seen, lost>>
  BY DEF NextRecord, LastRecord, More, kernelVars, history
<1>2. /\ lpBuffer \in Seq(Nat) /\ Len(lpBuffer) \in Nat /\ (lpBuffer = <<>> => Len(lpBuffer) = 0)
      /\ info \in Nat /\ info >= 1 /\ apc = FALSE /\ armed = FALSE
  BY <1>1, LenProperties, EmptySeq DEF Inv, TypeOK, Changes, BufferOK, OneAtATime
<1>3. Rest' = Rest /\ Rest \in Seq(Nat)
  <2>1. Rest = SubSeq(lpBuffer, info + 1, Len(lpBuffer)) /\ Rest \in Seq(Nat)
    BY <1>1, <1>2, RestTyped DEF Rest
  <2>2. ~(info < Len(lpBuffer)) => SubSeq(lpBuffer, info + 1, Len(lpBuffer)) = <<>>
    BY <1>2, SubSeqEmpty
  <2>3. QED
    BY <1>1, <1>2, <2>1, <2>2 DEF Rest
<1>4. TypeOK'
  BY <1>1, <1>2 DEF Inv, TypeOK
<1>5. OneAtATime' /\ BufferOK'
  BY <1>1, <1>2 DEF Inv, OneAtATime, BufferOK
<1>6. Extra' <= Extra
  <2>1. pc' = "routine" => lpBuffer # <<>>
    BY <1>1, <1>2
  <2>2. QED
    BY <1>1, <1>2, <2>1 DEF Extra, One
<1>7. QED
  BY <1>1, <1>3, <1>4, <1>5, <1>6, SameNumbers DEF AllNumbers

-----------------------------------------------------------------------------
(* The order of the calls.                                                  *)

\* Nothing is read, and nothing told, at first.
LEMMA InitInv == Init => Inv
<1> SUFFICES ASSUME Init PROVE Inv
  OBVIOUS
<1>1. <<>> \in Seq(Nat) /\ told = <<>> /\ queue = <<>> /\ Rest = <<>> /\ changes = 0
  BY EmptySeq DEF Init, Rest
<1>2. AllNumbers = <<>> /\ DOMAIN AllNumbers = {}
  BY <1>1, ConcatEmptySeq DEF AllNumbers
<1>3. Numbers(0) = <<>>
  BY NumbersSeq, EmptySeq
<1>4. TypeOK
  <2>1. queue \in Changes /\ lpBuffer \in Changes /\ told \in Changes
    BY <1>1 DEF Init, Changes
  <2>2. {overflow, armed, apc, gone, lost} \subseteq BOOLEAN
    BY DEF Init
  <2>3. QED
    BY <2>1, <2>2 DEF Init, TypeOK
<1>5. OneAtATime /\ BufferOK
  BY DEF Init, OneAtATime, BufferOK
<1>6. InOrder /\ ToldInOrder
  BY <1>1, <1>2, <1>3 DEF InOrder, ToldInOrder, AllNumbers
<1>7. CallsPaid
  BY <1>1, <1>2, EmptySeq DEF Init, CallsPaid, Extra, One
<1>8. QED
  BY <1>4, <1>5, <1>6, <1>7 DEF Inv

\* Every step preserves the invariant.
LEMMA NextInv == Inv /\ [Next]_vars => Inv'
<1> SUFFICES ASSUME Inv, [Next]_vars PROVE Inv'
  OBVIOUS
<1>1. CASE Next
  BY <1>1, ChangeInv, CompleteInv, DeleteInv, ReadInv, EnterRoutineInv, CallbackInv, MoreInv
     DEF Next, Routine
<1>2. CASE UNCHANGED vars
  <2>1. /\ UNCHANGED <<queue, overflow, armed, apc, gone, pc, lpBuffer, info>>
        /\ UNCHANGED <<changes, told, seen, lost>>
    BY <1>2 DEF vars, kernelVars, history
  <2>2. Rest' = Rest /\ Rest \in Seq(Nat)
    BY <2>1, RestTyped DEF Rest
  <2>3. TypeOK' /\ OneAtATime' /\ BufferOK'
    BY <2>1 DEF Inv, TypeOK, OneAtATime, BufferOK
  <2>4. Extra' <= Extra
    BY <2>1 DEF Extra, One
  <2>5. QED
    BY <2>1, <2>2, <2>3, <2>4, SameNumbers DEF AllNumbers
<1>3. QED
  BY <1>1, <1>2

\* No read is outstanding while the routine is at a record or in an alertable wait of
\* the callback, so that the kernel never writes the buffer under it, and it always
\* has a record to read unless changes were thrown away; and the calls of the callback,
\* made and to come, are no more than the changes, but one for the deletion
\* (monitor.cpp:18-58).
THEOREM Invariance == Spec => []Inv
<1>1. QED
  BY InitInv, NextInv, PTL DEF Spec

\* The callback is called for each change once, in the order they occurred; when
\* changes were thrown away, for the others, each at most once and in that order
\* still (monitor.cpp:20-58, 64).
THEOREM ToldInOrderHolds == Spec => []ToldInOrder
<1>1. Inv => ToldInOrder
  BY DEF Inv
<1>2. QED
  BY <1>1, Invariance, PTL

-----------------------------------------------------------------------------
(* The monitor implements ChangeSignal, apart from its fairness.            *)

\* A monitor that reads nothing yet has called nobody.
LEMMA SignalInit == Init => Signals!SignalInit
<1>1. Len(<<>>) = 0
  BY EmptySeq
<1>2. QED
  BY <1>1 DEF Init, Signals!SignalInit

\* A call is paid for before it is made: by its record, or by what a buffer of zeros
\* stands for (monitor.cpp:18-25).
LEMMA CallbackPaid ==
  ASSUME Inv, Callback
  PROVE  Len(told) < IF gone THEN changes + 1 ELSE changes
<1>1. /\ pc = "routine" /\ apc = FALSE /\ armed = FALSE /\ changes \in Nat
      /\ info \in 1 .. Len(lpBuffer) \/ (lpBuffer = <<>> /\ info = 1)
      /\ lpBuffer \in Seq(Nat) /\ Len(lpBuffer) \in Nat /\ info \in Nat
      /\ told \in Seq(Nat) /\ Len(told) \in Nat /\ queue \in Seq(Nat) /\ Len(queue) \in Nat
  BY LenProperties DEF Callback, Inv, TypeOK, Changes, BufferOK, OneAtATime
<1>2. Rest = SubSeq(lpBuffer, info, Len(lpBuffer)) /\ Rest \in Seq(Nat) /\ Len(Rest) \in Nat
  BY <1>1, RestTyped, LenProperties DEF Rest
<1>3. Len(AllNumbers) = Len(told) + Len(Rest) + Len(queue)
  <2>1. told \o Rest \in Seq(Nat) /\ Len(told \o Rest) = Len(told) + Len(Rest)
    BY <1>1, <1>2, RestTyped, ConcatProperties
  <2>2. Len((told \o Rest) \o queue) = Len(told \o Rest) + Len(queue)
    BY <1>1, <2>1, ConcatProperties
  <2>3. QED
    BY <2>1, <2>2 DEF AllNumbers
<1> DEFINE zeros == One(lpBuffer = <<>>)
           deletion == One(gone)
           thrown == One(overflow)
<1>4. Extra = thrown + zeros - deletion
  BY <1>1 DEF Extra, One
<1>5. zeros \in 0 .. 1 /\ deletion \in 0 .. 1 /\ thrown \in 0 .. 1
  BY DEF One
<1>6. Len(Rest) + zeros >= 1
  <2>1. CASE lpBuffer = <<>>
    <3>1. zeros = 1
      BY <2>1 DEF One
    <3>2. QED
      BY <1>2, <3>1
  <2>2. CASE lpBuffer # <<>>
    <3>1. info \in 1 .. Len(lpBuffer)
      BY <1>1, <2>2
    <3>2. \A i \in info .. Len(lpBuffer) : lpBuffer[i] \in Nat
      BY <1>1, <3>1, ElementOfSeq
    <3>3. Len(Rest) = Len(lpBuffer) - info + 1
      BY <1>1, <1>2, <3>1, <3>2, SubSeqProperties
    <3>4. QED
      BY <1>1, <1>2, <1>5, <3>1, <3>3
  <2>3. QED
    BY <2>1, <2>2
<1>7. Len(AllNumbers) + Extra <= changes
  BY DEF Inv, CallsPaid
<1> HIDE DEF zeros, deletion, thrown
<1>8. Len(told) < changes + deletion
  <2>1. Len(told) + Len(Rest) + Len(queue) + (thrown + zeros - deletion) <= changes
    BY <1>3, <1>4, <1>7
  <2>2. /\ Len(told) \in Nat /\ Len(Rest) \in Nat /\ Len(queue) \in Nat /\ changes \in Nat
        /\ thrown \in Nat /\ zeros \in Nat /\ deletion \in Nat
    BY <1>1, <1>2, <1>5
  <2>3. QED
    BY <2>1, <2>2, <1>6
<1>9. QED
  BY <1>1, <1>8 DEF deletion, One

\* A change, the deletion and a call of the callback are what they are for the user,
\* and a refused read is the end; all else the user does not see.
LEMMA SignalStep == Inv /\ [Next]_vars => [Signals!SignalNext]_(Signals!signalVars)
<1> SUFFICES ASSUME Inv, [Next]_vars
             PROVE  Signals!SignalNext \/ UNCHANGED Signals!signalVars
  OBVIOUS
<1> USE DEF Signals!SignalNext
<1>1. CASE Change
  BY <1>1 DEF Change, Signals!Change
<1>2. CASE Delete
  BY <1>2 DEF Delete, history, Signals!Delete
<1>3. CASE Callback
  <2>1. /\ pc = "routine" /\ pc' = "callback" /\ told' = Append(told, Record)
        /\ seen' = changes /\ UNCHANGED <<gone, changes>>
    BY <1>3 DEF Callback, kernelVars
  <2>2. Len(told') = Len(told) + 1
    <3>1. pc = "routine" => info \in 1 .. Len(lpBuffer) \/ lpBuffer = <<>>
      BY DEF Inv, BufferOK
    <3>2. lpBuffer \in Seq(Nat) /\ told \in Seq(Nat)
      BY DEF Inv, TypeOK, Changes
    <3>3. Record \in Nat
      BY <2>1, <3>1, <3>2, ElementOfSeq DEF Record
    <3>4. QED
      BY <2>1, <3>2, <3>3, AppendProperties
  <2>3. Len(told) < IF gone THEN changes + 1 ELSE changes
    BY <1>3, CallbackPaid
  <2>4. QED
    BY <2>1, <2>2, <2>3 DEF Signals!Signal
<1>4. CASE ReadAsyncFails \/ RearmFails
  <2>1. /\ pc # "threw" /\ pc' = "threw" /\ UNCHANGED <<gone, told, seen, changes>>
    BY <1>4 DEF ReadAsyncFails, RearmFails, ReadDirectoryChangesFails, kernelVars, history
  <2>2. QED
    BY <2>1 DEF Signals!Stop
<1>5. CASE Complete \/ ReadAsync \/ EnterRoutine \/ NextRecord \/ LastRecord \/ Rearm
  <2>1. UNCHANGED <<gone, told, seen, changes>> /\ (pc # "threw") = (pc' # "threw")
    BY <1>5 DEF Complete, ReadAsync, EnterRoutine, NextRecord, LastRecord, Rearm,
                ReadDirectoryChanges, kernelVars, history
  <2>2. QED
    BY <2>1 DEF Signals!signalVars
<1>6. CASE UNCHANGED vars
  BY <1>6 DEF vars, kernelVars, history, Signals!signalVars
<1>7. QED
  BY <1>1, <1>2, <1>3, <1>4, <1>5, <1>6 DEF Next, Routine

\* The monitor implements the safety of ChangeSignal: the callback is called no more
\* often than there were changes, but for one call for the deletion of the directory,
\* and never once a read has been refused (monitor.cpp:18-70).
THEOREM SignalSafety == Spec => Signals!SignalSpec
<1>1. QED
  BY SignalInit, SignalStep, Invariance, PTL DEF Spec, Signals!SignalSpec
===============================================================================
