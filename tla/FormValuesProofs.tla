--------------------------- MODULE FormValuesProofs ---------------------------
(***************************************************************************)
(* Proofs about FormValues for any number of variables, blocks and         *)
(* addresses, and for any texts.                                           *)
(***************************************************************************)
EXTENDS FormValues, FiniteSetTheorems, SequenceTheorems, TLAPS

\* The blocks of the heap, the values, and who owns which block.
ObjectsOK ==
  /\ heap \in [Addrs -> Texts \cup {Free}]
  /\ val \in [Slots -> [vt : 0 .. 2, int : Ints \cup {0}, str : Addrs \cup {Null}]]
  /\ \A s \in Slots : val[s].vt = 1 => val[s].int \in Ints
  /\ own \subseteq Addrs /\ lost \subseteq Addrs
  /\ meant \in [Slots -> Texts \cup {Null}]
  /\ Owned /\ ValuesOK /\ bad = FALSE

\* The buffers, the names of the blocks, and where the calls are.
CallsOK ==
  /\ names \in [Blocks -> Addrs \cup {Null}] /\ named \in [Blocks -> Texts \cup {Null}]
  /\ pc \in {"idle", "data_block", "destroy", "add", "encode", "post", "str", "part", "next",
             "crashed"}
  /\ block \in Blocks \cup {Null} /\ todo \in Seq(Blocks)
  /\ text \in Addrs \cup {Null}

\* What str() has lost.
LostOK == IsFiniteSet(lost) /\ printed \in Nat /\ LostAreInts

\* The invariant in its parts, before a step.
LEMMA InvParts == Inv => ObjectsOK /\ CallsOK /\ LostOK /\ StepOK
  BY DEF Inv, TypeOK, ObjectsOK, CallsOK, LostOK

\* And after it.
LEMMA PartsInv == ASSUME ObjectsOK', CallsOK', LostOK', StepOK' PROVE Inv'
<1>1. TypeOK'
  BY DEF TypeOK, ObjectsOK, CallsOK, LostOK
<1>2. QED
  BY <1>1 DEF Inv, ObjectsOK, LostOK

-----------------------------------------------------------------------------
(* The heap and the values.                                                 *)

\* A pointer that something owns leads to a text.
LEMMA OwnedText ==
  ASSUME ObjectsOK, NEW p \in Addrs, p \in own \/ p \in lost \/ \E s \in Slots : val[s].str = p
  PROVE  heap[p] \in Texts /\ heap[p] # Free /\ heap[p] # Null
  BY NullAssumption DEF ObjectsOK, Owned

\* Slot s has another value, the others are as they were.
SlotSet(s, v, m) == val' = [val EXCEPT ![s] = v] /\ meant' = [meant EXCEPT ![s] = m]

\* The slots other than s, the caller's buffers and what str() has made are as they were.
Frame(s) ==
  /\ \A x \in Slots \ {s} : val'[x] = val[x] /\ meant'[x] = meant[x]
  /\ \A a \in own : heap'[a] = heap[a]

\* A value is made, with a block of its own or with none.
LEMMA SlotMade ==
  ASSUME ObjectsOK, NEW s \in Slots, ~Live(s), bad' = FALSE, UNCHANGED <<own, lost>>,
         NEW v \in [vt : 1 .. 2, int : Ints \cup {0}, str : Addrs \cup {Null}],
         NEW m \in Texts \cup {Null}, SlotSet(s, v, m),
         v.vt = 1 => v.int \in Ints /\ v.str = Null /\ m = Decimal[v.int],
         \/ v.str = Null /\ heap' = heap /\ (v.vt = 2 => m = Null)
         \/ v.str \in Addrs /\ m \in Texts /\ New(v.str, m)
  PROVE  ObjectsOK' /\ Frame(s) /\ Live(s)'
<1> USE DEF ObjectsOK
<1>1. /\ val' = [val EXCEPT ![s] = v] /\ meant' = [meant EXCEPT ![s] = m]
      /\ val'[s] = v /\ meant'[s] = m
      /\ \A x \in Slots \ {s} : val'[x] = val[x] /\ meant'[x] = meant[x]
  BY DEF SlotSet
<1>2. val[s].str = Null
  BY DEF Live, ValuesOK
<1>3. /\ heap' \in [Addrs -> Texts \cup {Free}]
      /\ \A a \in Addrs : a # v.str => heap'[a] = heap[a]
      /\ v.str # Null => v.str \in Addrs /\ heap[v.str] = Free /\ heap'[v.str] = m /\ m \in Texts
  BY NullAssumption DEF New
<1>4. \A x \in Slots : val[x].str # v.str \/ v.str = Null
  BY <1>3 DEF Owned
<1>5. v.str \notin own \cup lost
  BY <1>3, NullAssumption DEF Owned
<1>6. Owned'
  <2>1. \A x, y \in Slots : x # y /\ val'[x].str = val'[y].str => val'[x].str = Null
    BY <1>1, <1>4 DEF Owned
  <2>2. \A x \in Slots : val'[x].str \notin own \cup lost
    BY <1>1, <1>5 DEF Owned
  <2>3. ASSUME NEW a \in Addrs
        PROVE  heap'[a] # Free <=> a \in own \cup lost \cup {val'[x].str : x \in Slots}
    <3>1. CASE a = v.str
      BY <1>1, <1>3, <3>1, NullAssumption
    <3>2. CASE a # v.str
      <4>1. a \in {val'[x].str : x \in Slots} <=> a \in {val[x].str : x \in Slots}
        BY <1>1, <1>2, <3>2, NullAssumption
      <4>2. QED
        BY <1>3, <3>2, <4>1 DEF Owned
    <3>3. QED
      BY <3>1, <3>2
  <2>4. QED
    BY <2>1, <2>2, <2>3 DEF Owned
<1>7. ValuesOK'
  <2>1. ASSUME NEW x \in Slots \ {s}
        PROVE  /\ val'[x].vt # 2 => val'[x].str = Null
               /\ val'[x].vt = 1 => meant'[x] = Decimal[val'[x].int]
               /\ val'[x].vt = 2 =>
                    meant'[x] = IF val'[x].str = Null THEN Null ELSE heap'[val'[x].str]
    <3>1. val[x].str # Null => val[x].str \in Addrs /\ val[x].str # v.str
      BY <1>3, <1>4
    <3>2. val[x].str # Null => heap'[val[x].str] = heap[val[x].str]
      BY <1>3, <3>1
    <3>3. QED
      BY <1>1, <3>2 DEF ValuesOK, TextAt
  <2>2. /\ v.vt # 2 => v.str = Null
        /\ v.vt = 1 => m = Decimal[v.int]
        /\ v.vt = 2 => m = IF v.str = Null THEN Null ELSE heap'[v.str]
    <3>1. v.vt \in {1, 2}
      OBVIOUS
    <3>2. QED
      BY <1>3, <3>1, NullAssumption
  <2>3. QED
    BY <1>1, <2>1, <2>2 DEF ValuesOK, TextAt
<1>8. /\ val' \in [Slots -> [vt : 0 .. 2, int : Ints \cup {0}, str : Addrs \cup {Null}]]
      /\ \A x \in Slots : val'[x].vt = 1 => val'[x].int \in Ints
      /\ meant' \in [Slots -> Texts \cup {Null}]
  BY <1>1
<1>9. Frame(s)
  BY <1>1, <1>3, <1>5 DEF Frame
<1>10. QED
  BY <1>1, <1>3, <1>6, <1>7, <1>8, <1>9 DEF Live

\* value(const char *) copies a buffer of the caller (http.cpp:22-25).
LEMMA ConstructStringMade ==
  ASSUME ObjectsOK, NEW s \in Slots, ~Live(s), NEW p \in own \cup {Null},
         ConstructString(s, p), UNCHANGED <<own, lost>>
  PROVE  ObjectsOK' /\ Frame(s) /\ Live(s)'
<1>1. PICK q \in Addrs \cup {Null} :
        /\ StrCpy(p, q)
        /\ val' = [val EXCEPT ![s] = AString(q)]
        /\ meant' = [meant EXCEPT ![s] = IF p = Null THEN Null ELSE heap[p]]
  BY DEF ConstructString
<1>2. p # Null => p \in Addrs /\ heap[p] \in Texts /\ heap[p] # Free
  BY OwnedText DEF ObjectsOK
<1>3. PICK v : v = AString(q)
  OBVIOUS
<1>4. PICK m : m = IF p = Null THEN Null ELSE heap[p]
  OBVIOUS
<1>5. /\ v \in [vt : 1 .. 2, int : Ints \cup {0}, str : Addrs \cup {Null}]
      /\ v.vt = 2 /\ v.str = q
  BY <1>3 DEF AString
<1>6. bad' = FALSE /\ m \in Texts \cup {Null} /\ SlotSet(s, v, m)
  BY <1>1, <1>2, <1>3, <1>4 DEF StrCpy, SlotSet, ObjectsOK
<1>7. \/ v.str = Null /\ heap' = heap /\ (v.vt = 2 => m = Null)
      \/ v.str \in Addrs /\ m \in Texts /\ New(v.str, m)
  BY <1>1, <1>2, <1>4, <1>5 DEF StrCpy, New
<1>8. v.vt = 1 => v.int \in Ints /\ v.str = Null /\ m = Decimal[v.int]
  BY <1>5
<1>9. QED
  BY <1>5, <1>6, <1>7, <1>8, SlotMade

\* value(int) (http.cpp:27-30).
LEMMA ConstructIntMade ==
  ASSUME ObjectsOK, NEW s \in Slots, ~Live(s), NEW i \in Ints,
         ConstructInt(s, i), UNCHANGED <<own, lost>>
  PROVE  ObjectsOK' /\ Frame(s) /\ Live(s)'
<1>1. PICK v : v = AnInt(i)
  OBVIOUS
<1>2. PICK m : m = Decimal[i]
  OBVIOUS
<1>3. /\ v \in [vt : 1 .. 2, int : Ints \cup {0}, str : Addrs \cup {Null}]
      /\ v.vt = 1 /\ v.str = Null /\ v.int = i
  BY <1>1 DEF AnInt
<1>4. m \in Texts
  BY <1>2, DecimalAssumption
<1>5. bad' = FALSE /\ SlotSet(s, v, m) /\ heap' = heap
  BY <1>1, <1>2 DEF ConstructInt, SlotSet, ObjectsOK
<1>6. /\ v.vt = 1 => v.int \in Ints /\ v.str = Null /\ m = Decimal[v.int]
      /\ v.str = Null /\ heap' = heap /\ (v.vt = 2 => m = Null)
  BY <1>2, <1>3, <1>5
<1>7. QED
  BY <1>3, <1>4, <1>5, <1>6, SlotMade

\* value(const value &) gives the copy a block of its own (http.cpp:31-39).
LEMMA CopyMade ==
  ASSUME ObjectsOK, NEW s \in Slots, ~Live(s), NEW r \in Slots, Live(r),
         Copy(s, r), UNCHANGED <<own, lost>>
  PROVE  ObjectsOK' /\ Frame(s) /\ Live(s)'
<1>1. PICK q \in Addrs \cup {Null} :
        /\ StrCpy(val[r].str, q)
        /\ val' = [val EXCEPT ![s] = [val[r] EXCEPT !.str = q]]
        /\ meant' = [meant EXCEPT ![s] = meant[r]]
  BY DEF Copy
<1>2. /\ val[r] \in [vt : 0 .. 2, int : Ints \cup {0}, str : Addrs \cup {Null}]
      /\ val[r].vt # 0 /\ (val[r].vt = 1 => val[r].int \in Ints)
      /\ meant[r] \in Texts \cup {Null}
  BY DEF ObjectsOK, Live
<1>3. /\ val[r].vt # 2 => val[r].str = Null
      /\ val[r].vt = 1 => meant[r] = Decimal[val[r].int]
      /\ val[r].vt = 2 => meant[r] = TextAt(val[r].str)
  BY DEF ObjectsOK, ValuesOK
<1>4. val[r].str # Null =>
        val[r].str \in Addrs /\ heap[val[r].str] \in Texts /\ heap[val[r].str] # Free
  BY <1>2, OwnedText
<1>5. PICK v : v = [val[r] EXCEPT !.str = q]
  OBVIOUS
<1>6. /\ v \in [vt : 1 .. 2, int : Ints \cup {0}, str : Addrs \cup {Null}]
      /\ v.vt = val[r].vt /\ v.str = q /\ v.int = val[r].int
  <2>1. v.vt = val[r].vt /\ v.str = q /\ v.int = val[r].int
    BY <1>2, <1>5
  <2>2. v \in [vt : 0 .. 2, int : Ints \cup {0}, str : Addrs \cup {Null}]
    BY <1>2, <1>5
  <2>3. v.vt \in 1 .. 2
    BY <1>2, <2>1
  <2>4. QED
    BY <2>1, <2>2, <2>3
<1>7. bad' = FALSE /\ SlotSet(s, v, meant[r])
  BY <1>1, <1>4, <1>5 DEF StrCpy, SlotSet, ObjectsOK
<1>8. val[r].str # Null => meant[r] = heap[val[r].str]
  BY <1>2, <1>3 DEF TextAt
<1>9. \/ v.str = Null /\ heap' = heap /\ (v.vt = 2 => meant[r] = Null)
      \/ v.str \in Addrs /\ meant[r] \in Texts /\ New(v.str, meant[r])
  <2>1. CASE val[r].str = Null
    BY <1>1, <1>3, <1>6, <2>1 DEF StrCpy, TextAt
  <2>2. CASE val[r].str # Null
    BY <1>1, <1>4, <1>6, <1>8, <2>2 DEF StrCpy, New
  <2>3. QED
    BY <2>1, <2>2
<1>10. v.vt = 1 => v.int \in Ints /\ v.str = Null /\ meant[r] = Decimal[v.int]
  BY <1>1, <1>2, <1>3, <1>6 DEF StrCpy
<1>11. QED
  BY <1>2, <1>6, <1>7, <1>9, <1>10, SlotMade

\* ~value() frees the block of this value and no other (http.cpp:46-50).
LEMMA Destructed ==
  ASSUME ObjectsOK, NEW s \in Slots, Destruct(s), UNCHANGED <<own, lost>>
  PROVE  ObjectsOK' /\ Frame(s) /\ ~Live(s)'
<1> USE DEF ObjectsOK
<1> DEFINE p == val[s].str
<1>1. /\ val' = [val EXCEPT ![s] = Dead] /\ meant' = [meant EXCEPT ![s] = Null]
      /\ val'[s] = Dead /\ meant'[s] = Null
      /\ \A x \in Slots \ {s} : val'[x] = val[x] /\ meant'[x] = meant[x]
  BY DEF Destruct
<1>2. Dead.str = Null /\ Dead.vt = 0
  BY DEF Dead
<1>3. p \in Addrs \cup {Null} /\ (p # Null => heap[p] # Free)
  BY OwnedText
<1>4. /\ heap' \in [Addrs -> Texts \cup {Free}] /\ bad' = FALSE
      /\ \A a \in Addrs : a # p => heap'[a] = heap[a]
      /\ p # Null => heap'[p] = Free
  BY <1>3, NullAssumption DEF Destruct, DeleteStr
<1>5. \A x \in Slots \ {s} : p # Null => val[x].str # p
  BY DEF Owned
<1>6. p \notin own \cup lost
  BY DEF Owned
<1> HIDE DEF p
<1>7. Owned'
  <2>1. \A x, y \in Slots : x # y /\ val'[x].str = val'[y].str => val'[x].str = Null
    BY <1>1, <1>2 DEF Owned
  <2>2. \A x \in Slots : val'[x].str \notin own \cup lost
    BY <1>1, <1>2, NullAssumption DEF Owned
  <2>3. ASSUME NEW a \in Addrs
        PROVE  heap'[a] # Free <=> a \in own \cup lost \cup {val'[x].str : x \in Slots}
    <3>1. CASE a = p
      BY <1>1, <1>2, <1>4, <1>5, <1>6, <3>1, NullAssumption
    <3>2. CASE a # p
      <4>1. a \in {val'[x].str : x \in Slots} <=> a \in {val[x].str : x \in Slots}
        BY <1>1, <1>2, <3>2, NullAssumption DEF p
      <4>2. QED
        BY <1>4, <3>2, <4>1 DEF Owned
    <3>3. QED
      BY <3>1, <3>2
  <2>4. QED
    BY <2>1, <2>2, <2>3 DEF Owned
<1>8. ValuesOK'
  <2>1. ASSUME NEW x \in Slots \ {s}
        PROVE  /\ val'[x].vt # 2 => val'[x].str = Null
               /\ val'[x].vt = 1 => meant'[x] = Decimal[val'[x].int]
               /\ val'[x].vt = 2 =>
                    meant'[x] = IF val'[x].str = Null THEN Null ELSE heap'[val'[x].str]
    <3>1. val[x].str # Null => heap'[val[x].str] = heap[val[x].str]
      BY <1>3, <1>4, <1>5
    <3>2. QED
      BY <1>1, <3>1 DEF ValuesOK, TextAt
  <2>2. QED
    BY <1>1, <1>2, <2>1 DEF ValuesOK, TextAt
<1>9. /\ val' \in [Slots -> [vt : 0 .. 2, int : Ints \cup {0}, str : Addrs \cup {Null}]]
      /\ \A x \in Slots : val'[x].vt = 1 => val'[x].int \in Ints
      /\ meant' \in [Slots -> Texts \cup {Null}]
  <2>1. Dead \in [vt : 0 .. 2, int : Ints \cup {0}, str : Addrs \cup {Null}]
    BY DEF Dead
  <2>2. QED
    BY <1>1, <1>2, <2>1
<1>10. Frame(s)
  BY <1>1, <1>4, <1>6 DEF Frame
<1>11. QED
  BY <1>1, <1>2, <1>4, <1>7, <1>8, <1>9, <1>10 DEF Live

\* str() gives the text the value was made of, in a block nobody frees when it is
\* that of an integer (http.cpp:41-45).
LEMMA StrTells ==
  ASSUME ObjectsOK, LostOK, NEW s \in Slots, Str(s), UNCHANGED <<val, own, meant, bad>>
  PROVE  /\ ObjectsOK' /\ LostOK' /\ Frame(s)
         /\ text' \in Addrs \cup {Null} /\ meant'[s] = TextAt(text)'
<1> USE DEF ObjectsOK
<1>1. CASE val[s].vt = 2 /\ text' = val[s].str /\ UNCHANGED <<heap, lost, printed>>
  <2>1. ObjectsOK' /\ LostOK'
    BY <1>1 DEF Owned, ValuesOK, TextAt, LostOK, LostAreInts
  <2>2. QED
    BY <1>1, <2>1 DEF Frame, ValuesOK, TextAt
<1>2. CASE val[s].vt = 1 /\ \E q \in Addrs : New(q, Decimal[val[s].int]) /\ text' = q /\ lost' = lost \cup {q}
                         /\ printed' = printed + 1
  <2>1. PICK q \in Addrs : New(q, Decimal[val[s].int]) /\ text' = q /\ lost' = lost \cup {q}
    BY <1>2
  <2> DEFINE t == Decimal[val[s].int]
  <2>2. t \in Texts /\ meant[s] = t /\ t # Free
    BY <1>2, DecimalAssumption, NullAssumption DEF ValuesOK
  <2>3. /\ heap' \in [Addrs -> Texts \cup {Free}]
        /\ heap[q] = Free /\ heap'[q] = t /\ \A a \in Addrs : a # q => heap'[a] = heap[a]
    BY <2>1, <2>2 DEF New
  <2> HIDE DEF t
  <2>4. q \notin own /\ q \notin lost /\ \A x \in Slots : val[x].str # q
    BY <2>3 DEF Owned
  <2>5. Owned'
    <3>1. \A a \in Addrs :
            heap'[a] # Free <=> a \in own \cup (lost \cup {q}) \cup {val[x].str : x \in Slots}
      BY <2>2, <2>3 DEF Owned
    <3>2. QED
      BY <2>1, <2>4, <3>1 DEF Owned
  <2>6. ValuesOK'
    <3>1. \A x \in Slots : val[x].str # Null => heap'[val[x].str] = heap[val[x].str]
      BY <2>3, <2>4
    <3>2. QED
      BY <3>1 DEF ValuesOK, TextAt
  <2>7. LostOK'
    <3>1. Cardinality(lost \cup {q}) = Cardinality(lost) + 1 /\ IsFiniteSet(lost \cup {q})
      BY <2>4, FS_AddElement DEF LostOK
    <3>2. QED
      BY <1>2, <2>1, <3>1 DEF LostOK, LostAreInts
  <2>8. Frame(s)
    BY <2>3, <2>4 DEF Frame
  <2>9. meant'[s] = TextAt(text)'
    BY <2>1, <2>2, <2>3, NullAssumption DEF TextAt
  <2>10. QED
    BY <2>1, <2>3, <2>5, <2>6, <2>7, <2>8, <2>9
<1>3. QED
  BY <1>1, <1>2 DEF Str

-----------------------------------------------------------------------------
(* The steps of the caller.                                                 *)

\* The slots are apart.
LEMMA Apart ==
  /\ Param \in Slots /\ Loop \in Slots /\ Param # Loop /\ Vars \subseteq Slots /\ Blocks \subseteq Slots
  /\ Param \notin Vars \cup Blocks /\ Loop \notin Vars \cup Blocks /\ Vars \cap Blocks = {}
  BY SlotsAssumption DEF Slots, Param, Loop

\* Between calls all there is to say of the steps is about the names.
LEMMA IdleOK ==
  ASSUME pc = "idle"
  PROVE  StepOK <=> /\ ~Live(Param) /\ ~Live(Loop)
                    /\ \A b \in Blocks : Live(b) => names[b] \in own /\ heap[names[b]] = named[b]
  BY DEF StepOK

\* The buffers of the caller change, but for those that a data_block uses.
LEMMA BuffersChange ==
  ASSUME Inv, pc = "idle", UNCHANGED <<callVars, val, names, history>>,
         heap' \in [Addrs -> Texts \cup {Free}], own' \subseteq Addrs,
         \A a \in Addrs \ (own \cup own') : heap'[a] = heap[a],
         \A a \in own' : heap'[a] # Free,
         \A a \in own' \ own : heap[a] = Free,
         \A a \in own \ own' : heap'[a] = Free,
         \A b \in Blocks : Live(b) => names[b] \in own' /\ heap'[names[b]] = heap[names[b]]
  PROVE  Inv'
<1>1. ObjectsOK /\ CallsOK /\ LostOK /\ StepOK
  BY InvParts
<1>2. /\ UNCHANGED <<val, names, pc, block, todo, text, meant, named, lost, printed, bad>>
  BY DEF callVars, history
<1>3. CallsOK' /\ LostOK'
  BY <1>1, <1>2 DEF CallsOK, LostOK, LostAreInts
<1>4. \A s \in Slots : val[s].str # Null =>
        val[s].str \in Addrs /\ val[s].str \notin own \cup own' /\ heap'[val[s].str] = heap[val[s].str]
  <2>1. \A s \in Slots : val[s].str # Null =>
          val[s].str \in Addrs /\ val[s].str \notin own /\ heap[val[s].str] # Free
    BY <1>1 DEF ObjectsOK, Owned
  <2>2. QED
    BY <2>1
<1>5. \A a \in lost : a \notin own \cup own' /\ heap'[a] = heap[a]
  BY <1>1 DEF ObjectsOK, Owned
<1>6. Owned'
  <2>1. \A s \in Slots : val[s].str \notin own'
    BY <1>4, NullAssumption
  <2>2. ASSUME NEW a \in Addrs
        PROVE  heap'[a] # Free <=> a \in own' \cup lost \cup {val[s].str : s \in Slots}
    <3>1. CASE a \in own'
      BY <3>1
    <3>2. CASE a \in own \ own'
      BY <1>1, <3>2 DEF ObjectsOK, Owned
    <3>3. CASE a \notin own \cup own'
      BY <1>1, <3>3 DEF ObjectsOK, Owned
    <3>4. QED
      BY <3>1, <3>2, <3>3
  <2>3. QED
    BY <1>1, <1>2, <1>5, <2>1, <2>2 DEF ObjectsOK, Owned
<1>7. ValuesOK'
  BY <1>1, <1>2, <1>4 DEF ObjectsOK, ValuesOK, TextAt
<1>8. ObjectsOK'
  BY <1>1, <1>2, <1>6, <1>7 DEF ObjectsOK
<1>9. StepOK'
  <2>1. /\ ~Live(Param) /\ ~Live(Loop)
        /\ \A b \in Blocks : Live(b) => names[b] \in own /\ heap[names[b]] = named[b]
    BY <1>1, IdleOK
  <2>2. /\ ~Live(Param)' /\ ~Live(Loop)'
        /\ \A b \in Blocks : Live(b)' => names'[b] \in own' /\ heap'[names'[b]] = named'[b]
    BY <1>2, <2>1 DEF Live
  <2>3. pc' = "idle"
    BY <1>2
  <2>4. QED
    BY <2>2, <2>3 DEF StepOK
<1>10. QED
  BY <1>3, <1>8, <1>9, PartsInv

\* The caller fills, rewrites and discards buffers.
LEMMA BuffersInv ==
  ASSUME Inv, \/ \E t \in Texts : Fill(t) \/ \E a \in Addrs : Rewrite(a, t)
              \/ \E a \in Addrs : Discard(a)
  PROVE  Inv'
<1>1. ObjectsOK /\ CallsOK /\ LostOK /\ StepOK
  BY InvParts
<1>2. /\ heap \in [Addrs -> Texts \cup {Free}] /\ own \subseteq Addrs
      /\ \A a \in own : heap[a] # Free
  BY <1>1 DEF ObjectsOK, Owned
<1>3. pc = "idle" /\ UNCHANGED <<callVars, val, names, history>>
  BY DEF Fill, Rewrite, Discard, Idle
<1>4. \A b \in Blocks : Live(b) => names[b] \in own
  BY <1>1 DEF StepOK
<1>5. CASE \E t \in Texts : Fill(t)
  <2>1. PICK t \in Texts, q \in Addrs : New(q, t) /\ own' = own \cup {q}
    BY <1>5 DEF Fill
  <2>2. heap[q] = Free /\ heap' = [heap EXCEPT ![q] = t] /\ t # Free
    BY <2>1, NullAssumption DEF New
  <2>3. QED
    BY <1>2, <1>3, <1>4, <2>1, <2>2, BuffersChange
<1>6. CASE \E t \in Texts, a \in Addrs : Rewrite(a, t)
  <2>1. PICK t \in Texts, a \in Addrs : Rewrite(a, t)
    BY <1>6
  <2>2. a \in own /\ heap' = [heap EXCEPT ![a] = t] /\ t # Free /\ own' = own
    BY <2>1, NullAssumption DEF Rewrite
  <2>3. \A b \in Blocks : Live(b) => names[b] # a
    BY <2>1 DEF Rewrite, Used
  <2>4. QED
    BY <1>2, <1>3, <1>4, <2>2, <2>3, BuffersChange
<1>7. CASE \E a \in Addrs : Discard(a)
  <2>1. PICK a \in Addrs : Discard(a)
    BY <1>7
  <2>2. a \in own /\ heap' = [heap EXCEPT ![a] = Free] /\ own' = own \ {a}
    BY <2>1 DEF Discard
  <2>3. \A b \in Blocks : Live(b) => names[b] # a
    BY <2>1 DEF Discard, Used
  <2>4. QED
    BY <1>2, <1>3, <1>4, <2>2, <2>3, BuffersChange
<1>8. QED
  BY <1>5, <1>6, <1>7

\* The caller makes a value or destroys one: a data_block is not made so.
LEMMA ValuesInv ==
  ASSUME Inv, (\E v \in Vars : MakeValue(v)) \/ (\E s \in Slots : DestroyValue(s))
  PROVE  Inv'
<1>1. ObjectsOK /\ CallsOK /\ LostOK /\ StepOK
  BY InvParts
<1>2. /\ pc = "idle" /\ UNCHANGED <<callVars, names, own, named, fields, sent, lost, printed>>
      /\ UNCHANGED <<names, own, named, lost, printed, pc, block, todo, text>>
  BY DEF MakeValue, DestroyValue, Idle, Kept, callVars
<1>3. PICK s \in Vars \cup Blocks : ObjectsOK' /\ Frame(s) /\ (s \in Vars \/ ~Live(s)')
  <2>1. CASE \E v \in Vars : MakeValue(v)
    <3>1. PICK v \in Vars : MakeValue(v)
      BY <2>1
    <3>2. v \in Slots /\ ~Live(v)
      BY <3>1, Apart DEF MakeValue
    <3>3. \/ \E p \in own \cup {Null} : ConstructString(v, p)
          \/ \E i \in Ints : ConstructInt(v, i)
          \/ \E w \in Vars : Live(w) /\ Copy(v, w)
      BY <3>1 DEF MakeValue
    <3>4. ObjectsOK' /\ Frame(v)
      <4>1. CASE \E p \in own \cup {Null} : ConstructString(v, p)
        BY <1>1, <1>2, <3>2, <4>1, ConstructStringMade
      <4>2. CASE \E i \in Ints : ConstructInt(v, i)
        BY <1>1, <1>2, <3>2, <4>2, ConstructIntMade
      <4>3. CASE \E w \in Vars : Live(w) /\ Copy(v, w)
        BY <1>1, <1>2, <3>2, <4>3, CopyMade, Apart
      <4>4. QED
        BY <3>3, <4>1, <4>2, <4>3
    <3>5. QED
      BY <3>4
  <2>2. CASE \E s \in Slots : DestroyValue(s)
    <3>1. PICK s \in Slots : s \in Vars \cup Blocks /\ Destruct(s)
      BY <2>2 DEF DestroyValue
    <3>2. QED
      BY <1>1, <1>2, <3>1, Destructed
  <2>3. QED
    BY <2>1, <2>2
<1>4. CallsOK' /\ LostOK'
  BY <1>1, <1>2 DEF CallsOK, LostOK, LostAreInts
<1>5. Live(Param)' = Live(Param) /\ Live(Loop)' = Live(Loop)
  BY <1>3, Apart DEF Frame, Live
<1>6. \A b \in Blocks : Live(b)' => Live(b) /\ heap'[names[b]] = heap[names[b]]
  <2>1. \A b \in Blocks : Live(b)' => Live(b)
    BY <1>3, Apart DEF Frame, Live
  <2>2. \A b \in Blocks : Live(b) => names[b] \in own
    BY <1>1 DEF StepOK
  <2>3. QED
    BY <1>3, <2>1, <2>2 DEF Frame
<1>7. StepOK'
  <2>1. /\ ~Live(Param) /\ ~Live(Loop)
        /\ \A b \in Blocks : Live(b) => names[b] \in own /\ heap[names[b]] = named[b]
    BY <1>1, <1>2, IdleOK
  <2>2. /\ ~Live(Param)' /\ ~Live(Loop)'
        /\ \A b \in Blocks : Live(b)' => names'[b] \in own' /\ heap'[names'[b]] = named'[b]
    BY <1>2, <1>5, <1>6, <2>1
  <2>3. pc' = "idle"
    BY <1>2
  <2>4. QED
    BY <2>2, <2>3 DEF StepOK
<1>8. QED
  BY <1>3, <1>4, <1>7, PartsInv

-----------------------------------------------------------------------------
(* The steps of data_block, add and POST.                                   *)

\* A step that gives slot s a value, or takes it away, leaves the other slots live
\* or not, and the names of the blocks as they were.
LEMMA FrameKeeps ==
  ASSUME ObjectsOK, StepOK, NEW s \in Slots, Frame(s), UNCHANGED <<names, own, named>>
  PROVE  /\ \A x \in Slots \ {s} : Live(x)' = Live(x)
         /\ \A b \in Blocks : Live(b) \/ (pc = "data_block" /\ b = block) =>
              names'[b] \in own' /\ heap'[names'[b]] = named'[b]
<1>1. \A x \in Slots \ {s} : Live(x)' = Live(x)
  BY DEF Frame, Live
<1>2. \A b \in Blocks : Live(b) \/ (pc = "data_block" /\ b = block) =>
        names[b] \in own /\ heap[names[b]] = named[b]
  BY DEF StepOK
<1>3. QED
  BY <1>1, <1>2 DEF Frame

\* data_block is called with a name that the caller keeps (http.cpp:56).
LEMMA BlockCalledInv ==
  ASSUME Inv, NEW b \in Blocks, NEW v \in Vars, NEW n \in Addrs, BlockCalled(b, v, n)
  PROVE  Inv'
<1>1. ObjectsOK /\ CallsOK /\ LostOK /\ StepOK
  BY InvParts
<1>2. /\ pc = "idle" /\ ~Live(b) /\ Live(v) /\ n \in own /\ Copy(Param, v)
      /\ names' = [names EXCEPT ![b] = n] /\ named' = [named EXCEPT ![b] = heap[n]]
      /\ block' = b /\ pc' = "data_block" /\ UNCHANGED <<own, todo, text, lost, printed>>
  BY DEF BlockCalled
<1>3. /\ ~Live(Param) /\ ~Live(Loop)
      /\ \A x \in Blocks : Live(x) => names[x] \in own /\ heap[names[x]] = named[x]
  BY <1>1, <1>2, IdleOK
<1>4. ObjectsOK' /\ Frame(Param) /\ Live(Param)'
  BY <1>1, <1>2, <1>3, CopyMade, Apart
<1>5. heap[n] \in Texts
  BY <1>1, <1>2, OwnedText
<1>6. /\ names' \in [Blocks -> Addrs \cup {Null}] /\ named' \in [Blocks -> Texts \cup {Null}]
      /\ names'[b] = n /\ named'[b] = heap[n]
      /\ \A x \in Blocks \ {b} : names'[x] = names[x] /\ named'[x] = named[x]
  BY <1>1, <1>2, <1>5 DEF CallsOK
<1>7. CallsOK' /\ LostOK'
  BY <1>1, <1>2, <1>6 DEF CallsOK, LostOK, LostAreInts
<1>8. \A x \in Slots \ {Param} : Live(x)' = Live(x)
  BY <1>4 DEF Frame, Live
<1>9. \A x \in Blocks : Live(x)' \/ x = b =>
        names'[x] \in own' /\ heap'[names'[x]] = named'[x]
  BY <1>2, <1>3, <1>4, <1>6, <1>8, Apart DEF Frame
<1>10. ~Live(Loop)' /\ ~Live(b)'
  BY <1>2, <1>3, <1>8, Apart
<1>11. StepOK'
  BY <1>2, <1>4, <1>9, <1>10 DEF StepOK
<1>12. QED
  BY <1>4, <1>7, <1>11, PartsInv

\* The member is copied from the parameter (http.cpp:56-57).
LEMMA BlockCopiesInv == ASSUME Inv, BlockCopies PROVE Inv'
<1>1. ObjectsOK /\ CallsOK /\ LostOK /\ StepOK
  BY InvParts
<1>2. /\ pc = "data_block" /\ pc' = "destroy" /\ Copy(block, Param)
      /\ UNCHANGED <<names, own, named, lost, printed, block, todo, text>>
  BY DEF BlockCopies, Kept
<1>3. Live(Param) /\ ~Live(Loop) /\ block \in Blocks /\ ~Live(block)
  BY <1>1, <1>2 DEF StepOK
<1>4. ObjectsOK' /\ Frame(block) /\ Live(block)'
  BY <1>1, <1>2, <1>3, CopyMade, Apart
<1>5. CallsOK' /\ LostOK'
  BY <1>1, <1>2 DEF CallsOK, LostOK, LostAreInts
<1>6. /\ \A x \in Slots \ {block} : Live(x)' = Live(x)
      /\ \A b \in Blocks : Live(b) \/ b = block => names'[b] \in own' /\ heap'[names'[b]] = named'[b]
  BY <1>1, <1>2, <1>3, <1>4, FrameKeeps, Apart
<1>7. Live(Param)' /\ ~Live(Loop)' /\ \A b \in Blocks : Live(b)' => Live(b) \/ b = block
  BY <1>3, <1>6, Apart
<1>8. StepOK'
  BY <1>2, <1>6, <1>7 DEF StepOK
<1>9. QED
  BY <1>4, <1>5, <1>8, PartsInv

\* The parameter goes when the constructor, or add, returns (http.cpp:20, 57).
LEMMA ParamDestroyedInv == ASSUME Inv, ParamDestroyed PROVE Inv'
<1>1. ObjectsOK /\ CallsOK /\ LostOK /\ StepOK
  BY InvParts
<1>2. /\ pc = "destroy" /\ pc' = "idle" /\ text' = Null /\ Destruct(Param)
      /\ UNCHANGED <<names, own, named, lost, printed, block, todo>>
  BY DEF ParamDestroyed, Kept
<1>3. ~Live(Loop)
  BY <1>1, <1>2 DEF StepOK
<1>4. ObjectsOK' /\ Frame(Param) /\ ~Live(Param)'
  BY <1>1, <1>2, Destructed, Apart
<1>5. CallsOK' /\ LostOK'
  BY <1>1, <1>2 DEF CallsOK, LostOK, LostAreInts
<1>6. /\ \A x \in Slots \ {Param} : Live(x)' = Live(x)
      /\ \A b \in Blocks : Live(b) => names'[b] \in own' /\ heap'[names'[b]] = named'[b]
  BY <1>1, <1>2, <1>4, FrameKeeps, Apart
<1>7. ~Live(Loop)' /\ \A b \in Blocks : Live(b)' => Live(b)
  BY <1>3, <1>6, Apart
<1>8. StepOK'
  BY <1>2, <1>4, <1>6, <1>7 DEF StepOK
<1>9. QED
  BY <1>4, <1>5, <1>8, PartsInv

\* add is called with a copy of a value (http.cpp:13).
LEMMA AddCalledInv == ASSUME Inv, NEW v \in Vars, AddCalled(v) PROVE Inv'
<1>1. ObjectsOK /\ CallsOK /\ LostOK /\ StepOK
  BY InvParts
<1>2. /\ pc = "idle" /\ pc' = "add" /\ Live(v) /\ Copy(Param, v)
      /\ UNCHANGED <<names, own, named, lost, printed, block, todo, text>>
  BY DEF AddCalled, Kept
<1>3. ~Live(Param) /\ ~Live(Loop)
  BY <1>1, <1>2, IdleOK
<1>4. ObjectsOK' /\ Frame(Param) /\ Live(Param)'
  BY <1>1, <1>2, <1>3, CopyMade, Apart
<1>5. CallsOK' /\ LostOK'
  BY <1>1, <1>2 DEF CallsOK, LostOK, LostAreInts
<1>6. /\ \A x \in Slots \ {Param} : Live(x)' = Live(x)
      /\ \A b \in Blocks : Live(b) => names'[b] \in own' /\ heap'[names'[b]] = named'[b]
  BY <1>1, <1>2, <1>4, FrameKeeps, Apart
<1>7. ~Live(Loop)' /\ \A b \in Blocks : Live(b)' => Live(b)
  BY <1>3, <1>6, Apart
<1>8. StepOK'
  BY <1>2, <1>4, <1>6, <1>7 DEF StepOK
<1>9. QED
  BY <1>4, <1>5, <1>8, PartsInv

\* str() of the parameter gives the text the value was made of (http.cpp:16, 19).
LEMMA AddStrInv == ASSUME Inv, AddStr PROVE Inv'
<1>1. ObjectsOK /\ CallsOK /\ LostOK /\ StepOK
  BY InvParts
<1>2. /\ pc = "add" /\ pc' = "encode" /\ Str(Param)
      /\ UNCHANGED <<val, names, own, named, block, todo, meant, bad>>
  BY DEF AddStr
<1>3. /\ ObjectsOK' /\ LostOK' /\ Frame(Param)
      /\ text' \in Addrs \cup {Null} /\ meant'[Param] = TextAt(text)'
  BY <1>1, <1>2, StrTells, Apart
<1>4. CallsOK'
  BY <1>1, <1>2, <1>3 DEF CallsOK
<1>5. Live(Param) /\ ~Live(Loop)
  BY <1>1, <1>2 DEF StepOK
<1>6. \A b \in Blocks : Live(b) => names'[b] \in own' /\ heap'[names'[b]] = named'[b]
  BY <1>1, <1>2, <1>3, FrameKeeps, Apart
<1>7. Live(Param)' /\ ~Live(Loop)' /\ \A b \in Blocks : Live(b)' => Live(b)
  BY <1>2, <1>5 DEF Live
<1>8. StepOK'
  BY <1>2, <1>3, <1>6, <1>7 DEF StepOK
<1>9. QED
  BY <1>3, <1>4, <1>8, PartsInv

\* The objects and what str() has lost are as they were: what remains to be said is
\* where the calls are.
LEMMA ObjectsKept ==
  ASSUME ObjectsOK, LostOK, UNCHANGED <<objVars, meant, lost, printed, bad>>
  PROVE  ObjectsOK' /\ LostOK' /\ \A s \in Slots : Live(s)' = Live(s)
<1>1. UNCHANGED <<heap, val, names, own, meant, lost, printed, bad>>
  BY DEF objVars
<1>2. QED
  BY <1>1 DEF ObjectsOK, Owned, ValuesOK, TextAt, LostOK, LostAreInts, Live

\* The text that add encodes is that of its parameter, which is still alive
\* (http.cpp:16, 19).
LEMMA AddReads ==
  ASSUME Inv, pc = "encode", text # Null
  PROVE  heap[text] = meant[Param] /\ heap[text] # Free
<1>1. ObjectsOK /\ CallsOK /\ StepOK
  BY InvParts
<1>2. meant[Param] = heap[text]
  BY <1>1 DEF StepOK, TextAt
<1>3. meant[Param] \in Texts \cup {Null}
  BY <1>1, Apart DEF ObjectsOK
<1>4. QED
  BY <1>2, <1>3, NullAssumption

\* add puts the text into the query, or crashes on the null pointer.
LEMMA AddEndsInv == ASSUME Inv, AddEncodes \/ AddCrashes PROVE Inv'
<1>1. ObjectsOK /\ CallsOK /\ LostOK /\ StepOK
  BY InvParts
<1>2. /\ pc = "encode" /\ pc' \in {"destroy", "crashed"}
      /\ UNCHANGED <<objVars, meant, named, block, todo, text, lost, printed>>
      /\ UNCHANGED <<heap, names, own, named>>
  BY DEF AddEncodes, AddCrashes, objVars, history
<1>3. bad' = bad
  BY <1>1, AddReads DEF AddEncodes, AddCrashes, history, ObjectsOK
<1>4. ObjectsOK' /\ LostOK' /\ \A s \in Slots : Live(s)' = Live(s)
  BY <1>1, <1>2, <1>3, ObjectsKept
<1>5. CallsOK'
  BY <1>1, <1>2 DEF CallsOK
<1>6. Live(Param)' /\ ~Live(Loop)'
  BY <1>1, <1>2, <1>4, Apart DEF StepOK
<1>7. \A b \in Blocks : Live(b)' => names'[b] \in own' /\ heap'[names'[b]] = named'[b]
  BY <1>1, <1>2, <1>4, Apart DEF StepOK
<1>8. StepOK'
  BY <1>2, <1>6, <1>7 DEF StepOK
<1>9. QED
  BY <1>4, <1>5, <1>8, PartsInv

\* POST is called with data_blocks that exist, and returns when it has copied all
\* (http.cpp:96-114).
LEMMA PostEndsInv ==
  ASSUME Inv, (\E data \in Seq(Blocks) : PostCalled(data)) \/ PostReturns
  PROVE  Inv'
<1>1. ObjectsOK /\ CallsOK /\ LostOK /\ StepOK
  BY InvParts
<1>2. /\ pc \in {"idle", "post"} /\ pc' \in {"idle", "post"}
      /\ UNCHANGED <<objVars, meant, named, block, text, lost, printed, bad>>
      /\ UNCHANGED <<heap, names, own, named>>
  BY DEF PostCalled, PostReturns, objVars, history
<1>3. ObjectsOK' /\ LostOK' /\ \A s \in Slots : Live(s)' = Live(s)
  BY <1>1, <1>2, ObjectsKept
<1>4. todo' \in Seq(Blocks) /\ (pc' = "post" => \A i \in DOMAIN todo' : Live(todo'[i]))
  BY <1>1 DEF PostCalled, PostReturns, CallsOK
<1>5. CallsOK'
  BY <1>1, <1>2, <1>4 DEF CallsOK
<1>6. ~Live(Param)' /\ ~Live(Loop)'
  BY <1>1, <1>2, <1>3, Apart DEF StepOK
<1>7. \A b \in Blocks : Live(b)' => names'[b] \in own' /\ heap'[names'[b]] = named'[b]
  BY <1>1, <1>2, <1>3, Apart DEF StepOK
<1>8. pc' = "post" => (\A i \in DOMAIN todo : Live(todo[i]))'
  BY <1>3, <1>4, Apart DEF Live
<1>9. StepOK'
  BY <1>2, <1>6, <1>7, <1>8 DEF StepOK
<1>10. QED
  BY <1>3, <1>5, <1>9, PartsInv

\* The loop copies the next block of the caller (http.cpp:108-111).
LEMMA PostCopiesInv == ASSUME Inv, PostCopies PROVE Inv'
<1>1. ObjectsOK /\ CallsOK /\ LostOK /\ StepOK
  BY InvParts
<1>2. /\ pc = "post" /\ pc' = "str" /\ todo # <<>> /\ Copy(Loop, Head(todo))
      /\ block' = Head(todo) /\ todo' = Tail(todo)
      /\ UNCHANGED <<names, own, named, lost, printed, text>>
  BY DEF PostCopies, Kept
<1>3. todo \in Seq(Blocks)
  BY <1>1 DEF CallsOK
<1>4. ~Live(Param) /\ ~Live(Loop) /\ \A i \in DOMAIN todo : todo[i] \in Blocks /\ Live(todo[i])
  BY <1>1, <1>2, <1>3 DEF StepOK
<1>5. /\ Head(todo) = todo[1] /\ 1 \in DOMAIN todo /\ Tail(todo) \in Seq(Blocks)
      /\ \A i \in DOMAIN Tail(todo) : i + 1 \in DOMAIN todo /\ Tail(todo)[i] = todo[i + 1]
  BY <1>2, <1>3, HeadTailProperties
<1>6. Head(todo) \in Blocks /\ Live(Head(todo)) /\ Head(todo) \in Slots
  BY <1>4, <1>5, Apart
<1>7. ObjectsOK' /\ Frame(Loop) /\ Live(Loop)'
  BY <1>1, <1>2, <1>4, <1>6, CopyMade, Apart
<1>8. CallsOK' /\ LostOK'
  BY <1>1, <1>2, <1>5, <1>6 DEF CallsOK, LostOK, LostAreInts
<1>9. /\ \A x \in Slots \ {Loop} : Live(x)' = Live(x)
      /\ \A b \in Blocks : Live(b) => names'[b] \in own' /\ heap'[names'[b]] = named'[b]
  BY <1>1, <1>2, <1>7, FrameKeeps, Apart
<1>10. ~Live(Param)' /\ \A b \in Blocks : Live(b)' = Live(b)
  BY <1>4, <1>9, Apart
<1>11. (block \in Blocks /\ Live(block))'
  BY <1>2, <1>6, <1>10 DEF Live
<1>12. (\A i \in DOMAIN todo : Live(todo[i]))'
  <2>1. \A b \in Blocks : val'[b].vt # 0 <=> Live(b)
    BY <1>10 DEF Live
  <2>2. \A i \in DOMAIN Tail(todo) : val'[Tail(todo)[i]].vt # 0
    BY <1>4, <1>5, <2>1
  <2>3. QED
    BY <1>2, <2>2 DEF Live
<1>13. StepOK'
  BY <1>2, <1>7, <1>9, <1>10, <1>11, <1>12 DEF StepOK
<1>14. QED
  BY <1>7, <1>8, <1>13, PartsInv

\* str() of the copy gives the text the block was made of (http.cpp:112).
LEMMA PostStrInv == ASSUME Inv, PostStr PROVE Inv'
<1>1. ObjectsOK /\ CallsOK /\ LostOK /\ StepOK
  BY InvParts
<1>2. /\ pc = "str" /\ pc' = "part" /\ Str(Loop)
      /\ UNCHANGED <<val, names, own, named, block, todo, meant, bad>>
  BY DEF PostStr
<1>3. /\ ObjectsOK' /\ LostOK' /\ Frame(Loop)
      /\ text' \in Addrs \cup {Null} /\ meant'[Loop] = TextAt(text)'
  BY <1>1, <1>2, StrTells, Apart
<1>4. CallsOK'
  BY <1>1, <1>2, <1>3 DEF CallsOK
<1>5. /\ Live(Loop) /\ ~Live(Param) /\ block \in Blocks /\ Live(block)
      /\ \A i \in DOMAIN todo : Live(todo[i])
  BY <1>1, <1>2 DEF StepOK
<1>6. \A b \in Blocks : Live(b) => names'[b] \in own' /\ heap'[names'[b]] = named'[b]
  BY <1>1, <1>2, <1>3, FrameKeeps, Apart
<1>7. /\ Live(Loop)' /\ ~Live(Param)' /\ (block \in Blocks /\ Live(block))'
      /\ (\A i \in DOMAIN todo : Live(todo[i]))' /\ \A b \in Blocks : Live(b)' => Live(b)
  BY <1>2, <1>5 DEF Live
<1>8. StepOK'
  BY <1>2, <1>3, <1>6, <1>7 DEF StepOK
<1>9. QED
  BY <1>3, <1>4, <1>8, PartsInv

\* The name and the text that the loop prints are as the block was made, for neither
\* the caller's buffer nor the copy has been freed (http.cpp:110-112).
LEMMA PostReads ==
  ASSUME Inv, pc = "part"
  PROVE  /\ heap[names[block]] = named[block]
         /\ TextOr(text) = IF meant[Loop] = Null THEN NullText ELSE meant[Loop]
         /\ Free \notin {heap[names[block]], TextOr(text)}
<1>1. ObjectsOK /\ CallsOK /\ StepOK
  BY InvParts
<1>2. names[block] \in own /\ heap[names[block]] = named[block]
  BY <1>1 DEF StepOK
<1>3. heap[names[block]] # Free
  BY <1>1, <1>2, OwnedText DEF ObjectsOK
<1>4. meant[Loop] = TextAt(text) /\ meant[Loop] \in Texts \cup {Null}
  BY <1>1, Apart DEF StepOK, ObjectsOK
<1>5. CASE text = Null
  BY <1>2, <1>3, <1>4, <1>5, NullAssumption DEF TextAt, TextOr
<1>6. CASE text # Null
  <2>1. text \in Addrs /\ meant[Loop] = heap[text]
    BY <1>1, <1>4, <1>6 DEF TextAt, CallsOK
  <2>2. heap[text] # Null
    BY <1>1, <2>1, NullAssumption DEF ObjectsOK
  <2>3. QED
    BY <1>2, <1>3, <1>4, <1>6, <2>1, <2>2, NullAssumption DEF TextOr
<1>7. QED
  BY <1>5, <1>6

\* The part is appended.
LEMMA PostAppendsInv == ASSUME Inv, PostAppends PROVE Inv'
<1>1. ObjectsOK /\ CallsOK /\ LostOK /\ StepOK
  BY InvParts
<1>2. /\ pc = "part" /\ pc' = "next"
      /\ UNCHANGED <<objVars, meant, named, block, todo, text, lost, printed>>
      /\ UNCHANGED <<heap, val, names, own, named>>
  BY DEF PostAppends, objVars
<1>3. bad' = bad
  BY <1>1, <1>2, PostReads DEF PostAppends, ObjectsOK
<1>4. ObjectsOK' /\ LostOK' /\ \A s \in Slots : Live(s)' = Live(s)
  BY <1>1, <1>2, <1>3, ObjectsKept
<1>5. CallsOK'
  BY <1>1, <1>2 DEF CallsOK
<1>6. /\ Live(Loop) /\ ~Live(Param) /\ block \in Blocks /\ Live(block)
      /\ \A i \in DOMAIN todo : Live(todo[i])
      /\ \A b \in Blocks : Live(b) => names[b] \in own /\ heap[names[b]] = named[b]
  BY <1>1, <1>2 DEF StepOK
<1>7. StepOK'
  BY <1>2, <1>6 DEF StepOK, Live
<1>8. QED
  BY <1>4, <1>5, <1>7, PartsInv

\* The copy goes at the end of its turn of the loop (http.cpp:108-114).
LEMMA LoopDestroyedInv == ASSUME Inv, LoopDestroyed PROVE Inv'
<1>1. ObjectsOK /\ CallsOK /\ LostOK /\ StepOK
  BY InvParts
<1>2. /\ pc = "next" /\ pc' = "post" /\ text' = Null /\ Destruct(Loop)
      /\ UNCHANGED <<names, own, named, lost, printed, block, todo>>
  BY DEF LoopDestroyed, Kept
<1>3. ~Live(Param) /\ \A i \in DOMAIN todo : todo[i] \in Blocks /\ Live(todo[i])
  BY <1>1, <1>2 DEF StepOK, CallsOK
<1>4. ObjectsOK' /\ Frame(Loop) /\ ~Live(Loop)'
  BY <1>1, <1>2, Destructed, Apart
<1>5. CallsOK' /\ LostOK'
  BY <1>1, <1>2 DEF CallsOK, LostOK, LostAreInts
<1>6. /\ \A x \in Slots \ {Loop} : Live(x)' = Live(x)
      /\ \A b \in Blocks : Live(b) => names'[b] \in own' /\ heap'[names'[b]] = named'[b]
  BY <1>1, <1>2, <1>4, FrameKeeps, Apart
<1>7. ~Live(Param)' /\ \A b \in Blocks : Live(b)' = Live(b)
  BY <1>3, <1>6, Apart
<1>8. (\A i \in DOMAIN todo : Live(todo[i]))'
  BY <1>2, <1>3, <1>7 DEF Live
<1>9. StepOK'
  BY <1>2, <1>4, <1>6, <1>7, <1>8 DEF StepOK
<1>10. QED
  BY <1>4, <1>5, <1>9, PartsInv

-----------------------------------------------------------------------------
(* The theorems.                                                            *)

\* There is nothing on the heap at first.
LEMMA InitInv == Init => Inv
<1> SUFFICES ASSUME Init PROVE Inv
  OBVIOUS
<1>1. \A s \in Slots : val[s] = Dead
  BY DEF Init
<1>2. Dead \in [vt : 0 .. 2, int : Ints \cup {0}, str : Addrs \cup {Null}] /\ Dead.vt = 0 /\ Dead.str = Null
  BY DEF Dead
<1>3. \A s \in Slots : val[s].vt = 0 /\ val[s].str = Null /\ ~Live(s)
  BY <1>1, <1>2 DEF Live
<1>4. lost = {} /\ IsFiniteSet(lost) /\ Cardinality(lost) = 0
  BY FS_EmptySet DEF Init
<1>5. TypeOK
  <2>1. /\ val \in [Slots -> [vt : 0 .. 2, int : Ints \cup {0}, str : Addrs \cup {Null}]]
        /\ meant \in [Slots -> Texts \cup {Null}]
    BY <1>1, <1>2 DEF Init
  <2>2. todo \in Seq(Blocks) /\ printed \in Nat /\ lost \subseteq Addrs
    BY <1>4 DEF Init
  <2>3. heap \in [Addrs -> Texts \cup {Free}] /\ own \subseteq Addrs /\ bad \in BOOLEAN
    BY DEF Init
  <2>4. /\ names \in [Blocks -> Addrs \cup {Null}] /\ named \in [Blocks -> Texts \cup {Null}]
        /\ block \in Blocks \cup {Null} /\ text \in Addrs \cup {Null} /\ pc = "idle"
    BY DEF Init
  <2>5. \A s \in Slots : val[s].vt = 1 => val[s].int \in Ints
    BY <1>3
  <2>6. QED
    BY <1>4, <2>1, <2>2, <2>3, <2>4, <2>5 DEF TypeOK
<1>6. Owned
  BY <1>3, NullAssumption DEF Init, Owned
<1>7. ValuesOK /\ LostAreInts
  BY <1>3, <1>4 DEF Init, ValuesOK, LostAreInts
<1>8. StepOK
  BY <1>3, Apart DEF Init, StepOK
<1>9. QED
  BY <1>5, <1>6, <1>7, <1>8 DEF Init, Inv

\* POST takes a sequence of blocks, of any length.
LEMMA Calls == ({<<>>} \cup {<<b>> : b \in Blocks} \cup (Blocks \X Blocks)) \subseteq Seq(Blocks)
<1>1. <<>> \in Seq(Blocks) /\ \A b, c \in Blocks : <<b>> \in Seq(Blocks) /\ <<b, c>> \in Seq(Blocks)
  OBVIOUS
<1>2. ASSUME NEW d \in Blocks \X Blocks PROVE d \in Seq(Blocks)
  <2>1. d[1] \in Blocks /\ d[2] \in Blocks /\ d = <<d[1], d[2]>>
    OBVIOUS
  <2>2. <<d[1], d[2]>> \in Seq(Blocks)
    BY <1>1, <2>1
  <2>3. QED
    BY <2>1, <2>2
<1>3. QED
  BY <1>1, <1>2

\* Every step preserves the invariant.
LEMMA NextInv == Inv /\ [Next]_vars => Inv'
<1> SUFFICES ASSUME Inv, [Next]_vars PROVE Inv'
  OBVIOUS
<1>1. CASE Caller
  BY <1>1, BuffersInv, ValuesInv DEF Caller
<1>2. CASE DataBlock
  BY <1>2, BlockCalledInv, BlockCopiesInv DEF DataBlock
<1>3. CASE Add
  BY <1>3, AddCalledInv, AddStrInv, AddEndsInv DEF Add
<1>4. CASE ParamDestroyed
  BY <1>4, ParamDestroyedInv
<1>5. CASE Post
  <2>1. CASE \E data \in {<<>>} \cup {<<b>> : b \in Blocks} \cup (Blocks \X Blocks) : PostCalled(data)
    BY <2>1, Calls, PostEndsInv
  <2>2. QED
    BY <1>5, <2>1, PostCopiesInv, PostStrInv, PostAppendsInv, LoopDestroyedInv, PostEndsInv DEF Post
<1>6. CASE UNCHANGED vars
  BY <1>6 DEF vars, objVars, callVars, history, Inv, TypeOK, Owned, LostAreInts, ValuesOK, TextAt,
              StepOK, Live
<1>7. QED
  BY <1>1, <1>2, <1>3, <1>4, <1>5, <1>6 DEF Next

\* Every block has one owner, whatever copies were made, kept and destroyed in
\* whatever order: no value frees or reads what another has freed, a value keeps its
\* text, and what is never freed is the text of integers (http.cpp:22-50).
THEOREM Invariance == Spec => []Inv
<1>1. Init => Inv
  BY InitInv
<1>2. Inv /\ [Next]_vars => Inv'
  BY NextInv
<1>3. QED
  BY <1>1, <1>2, PTL DEF Spec

\* The query and the body grow by what was meant.
LEMMA SentStep == Inv /\ SentAsMeant /\ [Next]_vars => SentAsMeant'
<1> SUFFICES ASSUME Inv, SentAsMeant, [Next]_vars PROVE SentAsMeant'
  OBVIOUS
<1>1. CASE AddEncodes
  <2>1. url' = Append(url, heap[text]) /\ fields' = Append(fields, meant[Param]) /\ UNCHANGED <<body, sent>>
    BY <1>1 DEF AddEncodes
  <2>2. heap[text] = meant[Param]
    BY <1>1, AddReads DEF AddEncodes
  <2>3. QED
    BY <2>1, <2>2 DEF SentAsMeant
<1>2. CASE PostAppends
  <2>1. /\ body' = Append(body, <<heap[names[block]], TextOr(text)>>)
        /\ sent' = Append(sent, <<named[block], IF meant[Loop] = Null THEN NullText ELSE meant[Loop]>>)
        /\ UNCHANGED <<url, fields>>
    BY <1>2 DEF PostAppends
  <2>2. /\ heap[names[block]] = named[block]
        /\ TextOr(text) = IF meant[Loop] = Null THEN NullText ELSE meant[Loop]
    BY <1>2, PostReads DEF PostAppends
  <2>3. QED
    BY <2>1, <2>2 DEF SentAsMeant
<1>3. CASE \E data \in Seq(Blocks) : PostCalled(data)
  BY <1>3 DEF PostCalled, SentAsMeant
<1>4. CASE UNCHANGED <<url, fields, body, sent>>
  BY <1>4 DEF SentAsMeant
<1>5. CASE Caller
  BY <1>4, <1>5 DEF Caller, Fill, Rewrite, Discard, MakeValue, DestroyValue, Idle, Kept, callVars, history
<1>6. CASE DataBlock \/ ParamDestroyed
  BY <1>4, <1>6 DEF DataBlock, BlockCalled, BlockCopies, ParamDestroyed, Kept
<1>7. CASE Add
  BY <1>1, <1>4, <1>7 DEF Add, AddCalled, AddStr, AddCrashes, Kept, history
<1>8. CASE Post
  <2>1. CASE \E data \in {<<>>} \cup {<<b>> : b \in Blocks} \cup (Blocks \X Blocks) : PostCalled(data)
    BY <1>3, <2>1, Calls
  <2>2. QED
    BY <1>2, <1>4, <1>8, <2>1 DEF Post, PostCopies, PostStr, LoopDestroyed, PostReturns, Kept, history
<1>9. CASE UNCHANGED vars
  BY <1>4, <1>9 DEF vars, callVars, history
<1>10. QED
  BY <1>5, <1>6, <1>7, <1>8, <1>9 DEF Next

\* The query and the body are made of the texts the values were made of, and of the
\* names as they were when the blocks were made (http.cpp:19 and 106-113).
THEOREM SentAsMeantHolds == Spec => []SentAsMeant
<1>1. Init => SentAsMeant
  BY DEF Init, SentAsMeant
<1>2. Inv /\ SentAsMeant /\ [Next]_vars => SentAsMeant'
  BY SentStep
<1>3. QED
  BY <1>1, <1>2, Invariance, PTL DEF Spec
===============================================================================
