----------------------------- MODULE CommonProofs -----------------------------
(***************************************************************************)
(* Proofs about two parts of common.cpp: makedir, for any number of        *)
(* callers, and the functions on strings, for strings of any length.       *)
(***************************************************************************)
EXTENDS MakeDir, MCStrings, SequenceTheorems, WellFoundedInduction, TLAPS

-----------------------------------------------------------------------------
(* makedir.                                                                 *)

\* The path is in one of its states and the callers are where they can be, in
\* every state any number of calls of makedir can reach (common.cpp:280-304).
LEMMA InitInv == Init => Inv
  BY DEF Init, Inv, TypeOK

\* Every step of every caller preserves the invariant.
LEMMA NextInv == Inv /\ [Next]_vars => Inv'
<1> SUFFICES ASSUME Inv, [Next]_vars PROVE Inv'
  OBVIOUS
<1> USE DEF Inv, TypeOK, At, history
<1>1. ASSUME NEW c \in Callers, Start(c) PROVE Inv'
  BY <1>1 DEF Start
<1>2. ASSUME NEW c \in Callers, IsDirectory(c) PROVE Inv'
  BY <1>2 DEF IsDirectory
<1>3. ASSUME NEW c \in Callers, RemoveAll(c) PROVE Inv'
  BY <1>3 DEF RemoveAll
<1>4. ASSUME NEW c \in Callers, RemoveAllFails(c) PROVE Inv'
  BY <1>4 DEF RemoveAllFails
<1>5. ASSUME NEW c \in Callers, Exists(c) PROVE Inv'
  <2>1. CASE node = "absent"
    BY <1>5, <2>1 DEF Exists
  <2>2. CASE node # "absent"
    BY <1>5, <2>2 DEF Exists
  <2>3. QED
    BY <2>1, <2>2
<1>6. ASSUME NEW c \in Callers, Create(c) PROVE Inv'
  BY <1>6 DEF Create
<1>7. ASSUME NEW c \in Callers, CreateFails(c) PROVE Inv'
  BY <1>7 DEF CreateFails
<1>8. ASSUME NEW c \in Callers, Use(c) PROVE Inv'
  BY <1>8 DEF Use
<1>9. ASSUME NEW c \in Callers, StatusFails(c) PROVE Inv'
  BY <1>9 DEF StatusFails
<1>10. CASE UNCHANGED vars
  BY <1>10 DEF vars
<1>11. QED
  BY <1>1, <1>2, <1>3, <1>4, <1>5, <1>6, <1>7, <1>8, <1>9, <1>10 DEF Next, Step

\* The invariant of the calls of makedir holds for any set of callers.
THEOREM Invariance == Spec => []Inv
<1>1. Init => Inv
  BY InitInv
<1>2. Inv /\ [Next]_vars => Inv'
  BY NextInv
<1>3. QED
  BY <1>1, <1>2, PTL DEF Spec

\* However many callers meet on the path: when all calls are over, one was made
\* and none threw, the path is a directory (common.cpp:287-303).
THEOREM QuietMeansDirHolds == Spec => []QuietMeansDir
<1>1. Inv => QuietMeansDir
  BY DEF Inv, TypeOK, QuietMeansDir
<1>2. QED
  BY <1>1, Invariance, PTL

\* However many callers meet on the path: nothing put into the directory is
\* lost unless a file stood there at the start (common.cpp:287-289).
THEOREM ContentsSafeHolds == Spec => []ContentsSafe
<1>1. Inv => ContentsSafe
  BY DEF Inv, ContentsSafe
<1>2. QED
  BY <1>1, Invariance, PTL

\* However many callers meet on the path: once the directory is there and no
\* call is at remove_all, it stays (common.cpp:287-303).
THEOREM SettledStaysHolds == Spec => SettledStays
<1>1. Inv /\ [Next]_vars => [Settled => Settled']_vars
  <2> SUFFICES ASSUME Inv, Settled, NEW c \in Callers, Step(c) PROVE Settled'
    BY DEF Next, vars, history, Settled
  <2> QED
    BY DEF Inv, TypeOK, Settled, Step, At, history, Start, IsDirectory,
           RemoveAll, RemoveAllFails, Exists, Create, CreateFails, StatusFails, Use
<1>2. QED
  BY <1>1, Invariance, PTL DEF Spec, SettledStays

-----------------------------------------------------------------------------
(* Induction.                                                               *)

\* A set of numbers that is not empty has a least one.
LEMMA Least ==
  ASSUME NEW T \in SUBSET Nat, T # {}
  PROVE  \E n \in T : \A m \in T : n <= m
<1> DEFINE R == OpToRel(<, Nat)
<1>1. \A m, n \in Nat : m < n => <<m, n>> \in R
  BY DEF OpToRel
<1>2. IsWellFoundedOn(OpToRel(<, Nat), Nat)
  BY NatLessThanWellFounded
<1> HIDE DEF R
<1>3. IsWellFoundedOn(R, Nat)
  BY <1>2 DEF R
<1>4. \E n \in T : \A m \in T : <<m, n>> \notin R
  BY <1>3, WFMin
<1>5. \E n \in T : \A m \in T : ~(m < n)
  <2>1. \A m, n \in T : m < n => <<m, n>> \in R
    BY <1>1
  <2>2. QED
    BY <1>4, <2>1
<1>6. \A m, n \in T : ~(m < n) => n <= m
  OBVIOUS
<1>7. QED
  BY <1>5, <1>6

\* A set that has 0, and the successor of each number it has, has every number.
LEMMA Induction ==
  ASSUME NEW T, 0 \in T, \A n \in Nat : n \in T => n + 1 \in T
  PROVE  Nat \subseteq T
<1> SUFFICES ASSUME Nat \ T # {} PROVE FALSE
  OBVIOUS
<1>1. Nat \ T \in SUBSET Nat
  OBVIOUS
<1>2. PICK n \in Nat \ T : \A m \in Nat \ T : n <= m
  BY <1>1, Least
<1>3. n # 0 /\ n - 1 \in Nat /\ n - 1 + 1 = n
  BY <1>2
<1>4. n - 1 \in T
  BY <1>2, <1>3
<1>5. QED
  BY <1>2, <1>3, <1>4

-----------------------------------------------------------------------------
(* Strings.                                                                 *)

\* The two strings of the inputs.
TwoStrings == str \in Seq(Alphabet) /\ arg \in Seq(Alphabet)

\* They are strings of the alphabet, however long they have grown.
THEOREM InputsAreStrings == Inputs => []TwoStrings
<1>1. Empty => TwoStrings
  BY EmptySeq DEF Empty, TwoStrings
<1>2. TwoStrings /\ [Grow]_<<str, arg>> => TwoStrings'
  <2>1. ASSUME NEW c \in Alphabet, NEW s \in Seq(Alphabet) PROVE Append(s, c) \in Seq(Alphabet)
    BY AppendProperties
  <2>2. QED
    BY <2>1 DEF TwoStrings, Grow
<1>3. QED
  BY <1>1, <1>2, PTL DEF Inputs

\* A string of the alphabet is one of numbers, none of them 0.
LEMMA Bytes ==
  ASSUME NEW s \in Seq(Alphabet)
  PROVE  s \in Seq(Nat) /\ \A i \in 1 .. Len(s) : s[i] \in 1 .. 255
<1>1. s \in Seq(Nat)
  <2>1. Alphabet \subseteq Nat
    BY AlphabetAssumption
  <2>2. QED
    BY <2>1, SeqMonotonic
<1>2. \A i \in 1 .. Len(s) : s[i] \in Alphabet
  BY ElementOfSeq
<1>3. QED
  BY <1>1, <1>2, AlphabetAssumption

\* What is known of the end of a string.
LEMMA Ending ==
  ASSUME NEW s \in Seq(Nat), NEW n \in 0 .. Len(s)
  PROVE  /\ SubSeq(s, n + 1, Len(s)) \in Seq(Nat)
         /\ Len(SubSeq(s, n + 1, Len(s))) = Len(s) - n
         /\ \A i \in 1 .. Len(s) - n : SubSeq(s, n + 1, Len(s))[i] = s[n + i]
<1>1. PICK K \in Nat : K = Len(s)
  BY LenProperties
<1>2. \A i \in n + 1 .. K : s[i] \in Nat
  <2>1. \A i \in 1 .. K : s[i] \in Nat
    BY <1>1, ElementOfSeq
  <2>2. QED
    BY <2>1, <1>1
<1>3. n \in 0 .. K
  BY <1>1
<1>4. /\ SubSeq(s, n + 1, K) \in Seq(Nat)
      /\ Len(SubSeq(s, n + 1, K)) = IF n + 1 <= K THEN K - (n + 1) + 1 ELSE 0
      /\ \A i \in 1 .. K - (n + 1) + 1 : SubSeq(s, n + 1, K)[i] = s[n + 1 + i - 1]
  BY <1>2, <1>3, SubSeqProperties
<1>5. Len(SubSeq(s, n + 1, K)) = K - n
  BY <1>3, <1>4
<1>6. \A i \in 1 .. K - n : SubSeq(s, n + 1, K)[i] = s[n + i]
  <2>1. K - (n + 1) + 1 = K - n
    BY <1>3
  <2>2. \A i \in 1 .. K - n : n + 1 + i - 1 = n + i
    BY <1>3
  <2>3. QED
    BY <1>4, <2>1, <2>2
<1>7. QED
  BY <1>1, <1>4, <1>5, <1>6

\* What is known of a concatenation whose two parts are known.
LEMMA Concat ==
  ASSUME NEW s \in Seq(Nat), NEW t \in Seq(Nat)
  PROVE  /\ s \o t \in Seq(Nat)
         /\ Len(s \o t) = Len(s) + Len(t)
         /\ \A i \in 1 .. Len(s) : (s \o t)[i] = s[i]
         /\ \A i \in 1 .. Len(t) : (s \o t)[Len(s) + i] = t[i]
<1>1. PICK K \in Nat : K = Len(s)
  BY LenProperties
<1>2. PICK L \in Nat : L = Len(t)
  BY LenProperties
<1>3. /\ s \o t \in Seq(Nat) /\ Len(s \o t) = K + L
      /\ \A i \in 1 .. K + L : (s \o t)[i] = IF i <= K THEN s[i] ELSE t[i - K]
  BY <1>1, <1>2, ConcatProperties
<1>4. \A i \in 1 .. K : (s \o t)[i] = s[i]
  BY <1>3
<1>5. \A i \in 1 .. L : (s \o t)[K + i] = t[i]
  <2>1. \A i \in 1 .. L : K + i \in 1 .. K + L /\ ~(K + i <= K) /\ K + i - K = i
    OBVIOUS
  <2>2. QED
    BY <1>3, <2>1
<1>6. QED
  BY <1>1, <1>2, <1>3, <1>4, <1>5

\* The end of a concatenation is its second part.
LEMMA EndOfConcat ==
  ASSUME NEW s \in Seq(Nat), NEW t \in Seq(Nat)
  PROVE  SubSeq(s \o t, Len(s) + 1, Len(s \o t)) = t
<1>1. PICK K \in Nat : K = Len(s)
  BY LenProperties
<1>2. PICK L \in Nat : L = Len(t)
  BY LenProperties
<1> DEFINE p == s \o t
           q == SubSeq(p, K + 1, Len(p))
<1>3. /\ p \in Seq(Nat) /\ Len(p) = K + L
      /\ \A i \in 1 .. L : p[K + i] = t[i]
  BY <1>1, <1>2, Concat
<1> HIDE DEF p
<1>4. K \in 0 .. Len(p) /\ Len(p) - K = L
  BY <1>3
<1>5. /\ q \in Seq(Nat) /\ Len(q) = Len(p) - K
      /\ \A i \in 1 .. Len(p) - K : q[i] = p[K + i]
  BY <1>3, <1>4, Ending
<1> HIDE DEF q
<1>6. Len(q) = L /\ \A i \in 1 .. L : q[i] = t[i]
  BY <1>3, <1>4, <1>5
<1>7. q = t
  BY <1>2, <1>5, <1>6, SeqEqual
<1>8. QED
  BY <1>1, <1>7 DEF p, q

\* What is known of the beginning of a string.
LEMMA Beginning ==
  ASSUME NEW s \in Seq(Nat), NEW n \in 0 .. Len(s)
  PROVE  /\ SubSeq(s, 1, n) \in Seq(Nat) /\ Len(SubSeq(s, 1, n)) = n
         /\ \A i \in 1 .. n : SubSeq(s, 1, n)[i] = s[i]
<1>1. PICK K \in Nat : K = Len(s)
  BY LenProperties
<1>2. n \in Nat /\ n <= K
  BY <1>1
<1>3. \A i \in 1 .. n : s[i] \in Nat
  <2>1. \A i \in 1 .. K : s[i] \in Nat
    BY <1>1, ElementOfSeq
  <2>2. QED
    BY <1>2, <2>1
<1>4. /\ SubSeq(s, 1, n) \in Seq(Nat) /\ Len(SubSeq(s, 1, n)) = IF 1 <= n THEN n - 1 + 1 ELSE 0
      /\ \A i \in 1 .. n - 1 + 1 : SubSeq(s, 1, n)[i] = s[1 + i - 1]
  <2>1. 1 \in Int /\ n \in Int
    BY <1>2
  <2>2. QED
    BY <1>3, <2>1, SubSeqProperties, SMTT(30)
<1>5. n - 1 + 1 = n /\ (~(1 <= n) => n = 0) /\ \A i \in 1 .. n : 1 + i - 1 = i
  BY <1>2
<1>6. QED
  BY <1>4, <1>5

\* The beginning of a concatenation is its first part.
LEMMA BeginningOfConcat ==
  ASSUME NEW s \in Seq(Nat), NEW t \in Seq(Nat)
  PROVE  SubSeq(s \o t, 1, Len(s)) = s
<1>1. PICK K \in Nat : K = Len(s)
  BY LenProperties
<1> DEFINE p == s \o t
           q == SubSeq(p, 1, K)
<1>2. p \in Seq(Nat) /\ Len(p) = K + Len(t) /\ Len(t) \in Nat
  BY <1>1, Concat, LenProperties
<1>3. \A i \in 1 .. K : p[i] = s[i]
  BY <1>1, Concat
<1> HIDE DEF p
<1>4. K \in 0 .. Len(p)
  BY <1>2
<1>5. q \in Seq(Nat) /\ Len(q) = K /\ \A i \in 1 .. K : q[i] = p[i]
  BY <1>2, <1>4, Beginning
<1> HIDE DEF q
<1>6. q = s
  BY <1>1, <1>3, <1>5, SeqEqual
<1>7. QED
  BY <1>1, <1>6 DEF p, q

\* The longest of some ends of a string, one of which is not exceeded by any.
LEMMA LongestEnding ==
  ASSUME NEW s \in Seq(Nat), NEW n \in 0 .. Len(s), NEW S \in SUBSET Suffixes(s),
         SubSeq(s, n + 1, Len(s)) \in S,
         \A m \in 0 .. Len(s) : SubSeq(s, m + 1, Len(s)) \in S => n <= m
  PROVE  Longest(S) = SubSeq(s, n + 1, Len(s))
<1>1. PICK K \in Nat : K = Len(s)
  BY LenProperties
<1> DEFINE E(m) == SubSeq(s, m + 1, K)
<1>2. \A m \in 0 .. K : Len(E(m)) = K - m
  BY <1>1, Ending
<1>3. \A t \in S : \E m \in 0 .. K : t = E(m)
  <2>1. E(K) = <<>>
    BY <1>1, SubSeqEmpty
  <2>2. \A l \in 1 .. K : l - 1 \in 0 .. K /\ l - 1 + 1 = l
    BY <1>1
  <2>3. \A t \in S : t = <<>> \/ \E l \in 1 .. K : t = SubSeq(s, l, K)
    BY <1>1 DEF Suffixes
  <2>4. K \in 0 .. K
    BY <1>1
  <2>5. QED
    BY <2>1, <2>2, <2>3, <2>4
<1> HIDE DEF E
<1>4. \A m \in 0 .. K : E(m) \in S => n <= m
  BY <1>1 DEF E
<1>5. E(n) \in S /\ n \in 0 .. K
  BY <1>1 DEF E
<1>6. \A t \in S : Len(t) <= Len(E(n))
  BY <1>1, <1>2, <1>3, <1>4, <1>5
<1>7. \A t \in S : (\A u \in S : Len(u) <= Len(t)) => t = E(n)
  <2> SUFFICES ASSUME NEW m \in 0 .. K, E(m) \in S, Len(E(n)) <= Len(E(m)) PROVE m = n
    BY <1>3, <1>5
  <2> QED
    BY <1>1, <1>2, <1>4, <1>5
<1>8. Longest(S) \in S /\ \A u \in S : Len(u) <= Len(Longest(S))
  BY <1>5, <1>6 DEF Longest
<1>9. QED
  BY <1>1, <1>7, <1>8 DEF E

\* An end of a string is among its suffixes.
LEMMA EndingIsSuffix ==
  ASSUME NEW s \in Seq(Nat), NEW n \in 0 .. Len(s)
  PROVE  SubSeq(s, n + 1, Len(s)) \in Suffixes(s)
<1>1. PICK K \in Nat : K = Len(s)
  BY LenProperties
<1>2. CASE n = K
  BY <1>1, <1>2, SubSeqEmpty DEF Suffixes
<1>3. CASE n # K
  <2>1. n + 1 \in 1 .. K
    BY <1>1, <1>3
  <2>2. QED
    BY <1>1, <2>1 DEF Suffixes
<1>4. QED
  BY <1>2, <1>3

\* The positions of a string.
LEMMA FreeString ==
  ASSUME NEW s \in Seq(Nat), NEW chars
  PROVE  Free(s, chars) <=> \A i \in 1 .. Len(s) : s[i] \notin chars
<1>1. DOMAIN s = 1 .. Len(s)
  BY LenProperties
<1>2. QED
  BY <1>1 DEF Free

-----------------------------------------------------------------------------
(* Paths.                                                                   *)

\* The name in a path is what follows the last separator (common.cpp:271-279).
LEMMA NameOf ==
  ASSUME NEW u \in Seq(Nat), NEW a \in Seq(Nat), Free(a, Separators),
         u = <<>> \/ Last(u) \in Separators
  PROVE  get_file_name(u \o a) = a
<1>1. PICK K \in Nat : K = Len(u)
  BY LenProperties
<1>2. PICK L \in Nat : L = Len(a)
  BY LenProperties
<1> DEFINE p == u \o a
           E(m) == SubSeq(p, m + 1, Len(p))
           S == {s \in Suffixes(p) : Free(s, Separators)}
<1>3. /\ p \in Seq(Nat) /\ Len(p) = K + L
      /\ \A i \in 1 .. K : p[i] = u[i]
  BY <1>1, <1>2, Concat
<1>4. E(K) = a
  BY <1>1, EndOfConcat
<1> HIDE DEF p
<1>5. E(K) \in Suffixes(p)
  <2>1. K \in 0 .. Len(p)
    BY <1>3
  <2>2. QED
    BY <1>3, <2>1, EndingIsSuffix
<1>6. \A m \in 0 .. Len(p) : E(m) \in S => K <= m
  <2> SUFFICES ASSUME NEW m \in 0 .. Len(p), Free(E(m), Separators), m < K PROVE FALSE
    BY <1>3
  <2>1. /\ E(m) \in Seq(Nat) /\ Len(E(m)) = Len(p) - m
        /\ \A i \in 1 .. Len(p) - m : E(m)[i] = p[m + i]
    BY <1>3, Ending
  <2> HIDE DEF E
  <2>2. K - m \in 1 .. Len(p) - m /\ m + (K - m) = K /\ K \in 1 .. K
    BY <1>3
  <2>3. E(m)[K - m] = u[K]
    BY <1>3, <2>1, <2>2
  <2>4. E(m)[K - m] \notin Separators
    BY <2>1, <2>2, FreeString
  <2>5. u # <<>>
    BY <1>1, <2>2, EmptySeq
  <2>6. QED
    BY <1>1, <2>3, <2>4, <2>5 DEF Last
<1> HIDE DEF E
<1>7. Longest(S) = E(K)
  <2>1. K \in 0 .. Len(p) /\ S \in SUBSET Suffixes(p) /\ E(K) \in S
    BY <1>3, <1>4, <1>5
  <2> HIDE DEF S
  <2>2. QED
    BY <1>3, <1>6, <2>1, LongestEnding DEF E
<1>8. QED
  BY <1>4, <1>7 DEF get_file_name, p

\* A path is relative to each string that begins it; what follows loses a
\* separator at its front (common.cpp:258-270).
LEMMA RelativeOf ==
  ASSUME NEW u \in Seq(Nat), NEW a \in Seq(Nat)
  PROVE  get_relative_path(u, u \o a) = DropSeparator(a)
<1>1. PICK K \in Nat : K = Len(u)
  BY LenProperties
<1>2. PICK L \in Nat : L = Len(a)
  BY LenProperties
<1>3. Len(u \o a) = K + L
  BY <1>1, <1>2, Concat
<1>4. SubSeq(u \o a, 1, Len(u)) = u /\ SubSeq(u, 1, Len(u)) = u
  BY BeginningOfConcat, SubSeqFull
<1>5. IsPrefix(u, u \o a)
  BY <1>1, <1>2, <1>3, <1>4 DEF IsPrefix
<1>6. QED
  BY <1>5, EndOfConcat DEF get_relative_path

\* What begins with another byte than a separator loses nothing.
LEMMA DropNothing ==
  ASSUME NEW a \in Seq(Nat), Free(a, Separators)
  PROVE  DropSeparator(a) = a
<1>1. CASE a = <<>>
  BY <1>1 DEF DropSeparator
<1>2. CASE a # <<>>
  <2>1. 1 \in 1 .. Len(a)
    BY <1>2, EmptySeq
  <2>2. a[1] \notin Separators
    BY <2>1, FreeString
  <2>3. Head(a) = a[1]
    OBVIOUS
  <2>4. QED
    BY <2>2, <2>3 DEF DropSeparator
<1>3. QED
  BY <1>1, <1>2

\* Parts of a string may be put together in any order.
LEMMA Associative ==
  ASSUME NEW s \in Seq(Nat), NEW t \in Seq(Nat), NEW v \in Seq(Nat)
  PROVE  (s \o t) \o v = s \o (t \o v)
<1> DEFINE x == s \o t
           y == t \o v
           l == x \o v
           r == s \o y
<1>1. PICK K \in Nat : K = Len(s)
  BY LenProperties
<1>2. PICK L \in Nat : L = Len(t)
  BY LenProperties
<1>3. PICK M \in Nat : M = Len(v)
  BY LenProperties
<1>4. /\ x \in Seq(Nat) /\ Len(x) = K + L
      /\ \A i \in 1 .. K + L : x[i] = IF i <= K THEN s[i] ELSE t[i - K]
  BY <1>1, <1>2, ConcatProperties
<1>5. /\ y \in Seq(Nat) /\ Len(y) = L + M
      /\ \A i \in 1 .. L + M : y[i] = IF i <= L THEN t[i] ELSE v[i - L]
  BY <1>2, <1>3, ConcatProperties
<1> HIDE DEF x, y
<1>6. /\ l \in Seq(Nat) /\ Len(l) = K + L + M
      /\ \A i \in 1 .. K + L + M : l[i] = IF i <= K + L THEN x[i] ELSE v[i - (K + L)]
  <2>1. l \in Seq(Nat) /\ Len(l) = Len(x) + Len(v)
    BY <1>4, Concat
  <2>2. \A i \in 1 .. Len(x) + Len(v) : l[i] = IF i <= Len(x) THEN x[i] ELSE v[i - Len(x)]
    BY <1>4, ConcatProperties
  <2> HIDE DEF l
  <2>3. QED
    BY <1>3, <1>4, <2>1, <2>2
<1>7. /\ r \in Seq(Nat) /\ Len(r) = K + (L + M)
      /\ \A i \in 1 .. K + (L + M) : r[i] = IF i <= K THEN s[i] ELSE y[i - K]
  <2>1. r \in Seq(Nat) /\ Len(r) = Len(s) + Len(y)
    BY <1>5, Concat
  <2>2. \A i \in 1 .. Len(s) + Len(y) : r[i] = IF i <= Len(s) THEN s[i] ELSE y[i - Len(s)]
    BY <1>5, ConcatProperties
  <2> HIDE DEF r
  <2>3. QED
    BY <1>1, <1>5, <2>1, <2>2
<1> HIDE DEF l, r
<1>8. ASSUME NEW i \in 1 .. K + L + M PROVE l[i] = r[i]
  <2>1. i \in 1 .. K + (L + M)
    OBVIOUS
  <2>2. CASE i <= K
    <3>1. i \in 1 .. K + L /\ i <= K + L
      BY <2>2
    <3>2. QED
      BY <1>4, <1>6, <1>7, <2>1, <2>2, <3>1
  <2>3. CASE ~(i <= K) /\ i <= K + L
    <3>1. i \in 1 .. K + L /\ i - K \in 1 .. L + M /\ i - K <= L
      BY <2>3
    <3>2. QED
      BY <1>4, <1>5, <1>6, <1>7, <2>1, <2>3, <3>1
  <2>4. CASE ~(i <= K) /\ ~(i <= K + L)
    <3>1. i - K \in 1 .. L + M /\ ~(i - K <= L) /\ i - K - L = i - (K + L)
      BY <2>4
    <3>2. QED
      BY <1>5, <1>6, <1>7, <2>1, <2>4, <3>1
  <2>5. QED
    BY <2>2, <2>3, <2>4
<1>9. K + L + M = K + (L + M)
  OBVIOUS
<1>10. l = r
  BY <1>6, <1>7, <1>8, <1>9, SeqEqual
<1>11. QED
  BY <1>10 DEF l, r, x, y

\* One separator at the front is lost.
LEMMA DropOne ==
  ASSUME NEW a \in Seq(Nat)
  PROVE  DropSeparator(<<Slash>> \o a) = a
<1> DEFINE c == <<Slash>>
           q == c \o a
<1>1. c \in Seq(Nat) /\ Len(c) = 1 /\ c[1] = Slash
  BY DEF Slash
<1> HIDE DEF c
<1>2. PICK L \in Nat : L = Len(a)
  BY LenProperties
<1>3. q \in Seq(Nat) /\ Len(q) = 1 + L /\ q[1] = c[1]
  <2>1. /\ q \in Seq(Nat) /\ Len(q) = Len(c) + Len(a)
        /\ \A i \in 1 .. Len(c) : q[i] = c[i]
    BY <1>1, Concat
  <2> HIDE DEF q
  <2>2. 1 \in 1 .. Len(c)
    BY <1>1
  <2>3. QED
    BY <1>1, <1>2, <2>1, <2>2
<1>4. SubSeq(q, 2, Len(q)) = a
  <2>1. SubSeq(q, Len(c) + 1, Len(q)) = a
    BY <1>1, EndOfConcat
  <2> HIDE DEF q
  <2>2. Len(c) + 1 = 2
    BY <1>1
  <2>3. QED
    BY <2>1, <2>2
<1> HIDE DEF q
<1>5. q # <<>>
  BY <1>3, EmptySeq
<1>6. Tail(q) = a
  BY <1>3, <1>4, <1>5, TailIsSubSeq
<1>7. Head(q) = q[1]
  OBVIOUS
<1>8. DropSeparator(q) = a
  BY <1>1, <1>3, <1>5, <1>6, <1>7 DEF DropSeparator, Separators
<1>9. QED
  BY <1>8 DEF q, c

\* A name is relative to its directory, with a slash between the two or not.
LEMMA NameIsRelative ==
  ASSUME NEW u \in Seq(Nat), NEW a \in Seq(Nat), Free(a, Separators)
  PROVE  /\ get_relative_path(u, u \o a) = a
         /\ get_relative_path(u, (u \o <<Slash>>) \o a) = a
<1> DEFINE c == <<Slash>>
<1>1. c \in Seq(Nat)
  BY DEF Slash
<1>2. DropSeparator(c \o a) = a
  BY DropOne
<1> HIDE DEF c
<1>3. (u \o c) \o a = u \o (c \o a) /\ c \o a \in Seq(Nat)
  <2>1. (u \o c) \o a = u \o (c \o a)
    BY <1>1, Associative
  <2>2. c \o a \in Seq(Nat)
    BY <1>1, Concat
  <2>3. QED
    BY <2>1, <2>2
<1>4. get_relative_path(u, u \o a) = a
  BY RelativeOf, DropNothing
<1>5. get_relative_path(u, u \o (c \o a)) = a
  BY <1>2, <1>3, RelativeOf
<1>6. QED
  BY <1>3, <1>4, <1>5 DEF c

\* formalize_path keeps the length and changes nothing but backslashes
\* (common.cpp:555-570).
LEMMA Formalized ==
  ASSUME NEW s \in Seq(Nat)
  PROVE  /\ formalize_path(s) \in Seq(Nat) /\ Len(formalize_path(s)) = Len(s)
         /\ \A i \in 1 .. Len(s) :
              formalize_path(s)[i] = IF s[i] = Backslash THEN Slash ELSE s[i]
<1>1. PICK K \in Nat : K = Len(s) /\ DOMAIN s = 1 .. K
  BY LenProperties
<1>2. \A i \in 1 .. K : s[i] \in Nat
  BY <1>1, ElementOfSeq
<1>3. formalize_path(s) = [i \in 1 .. K |-> IF s[i] = Backslash THEN Slash ELSE s[i]]
  BY <1>1 DEF formalize_path
<1>4. formalize_path(s) \in [1 .. K -> Nat]
  BY <1>2, <1>3 DEF Slash
<1>5. formalize_path(s) \in Seq(Nat) /\ Len(formalize_path(s)) = K
  BY <1>4
<1>6. QED
  BY <1>1, <1>3, <1>5

\* It changes a path part by part.
LEMMA FormalizedParts ==
  ASSUME NEW s \in Seq(Nat), NEW t \in Seq(Nat)
  PROVE  formalize_path(s \o t) = formalize_path(s) \o formalize_path(t)
<1> DEFINE f == formalize_path(s)
           g == formalize_path(t)
           p == s \o t
           h == formalize_path(p)
           q == f \o g
<1>1. PICK K \in Nat : K = Len(s)
  BY LenProperties
<1>2. PICK L \in Nat : L = Len(t)
  BY LenProperties
<1>3. /\ p \in Seq(Nat) /\ Len(p) = K + L
      /\ \A i \in 1 .. K : p[i] = s[i]
      /\ \A i \in 1 .. L : p[K + i] = t[i]
  BY <1>1, <1>2, Concat
<1>4. /\ f \in Seq(Nat) /\ Len(f) = K
      /\ \A i \in 1 .. K : f[i] = IF s[i] = Backslash THEN Slash ELSE s[i]
  BY <1>1, Formalized
<1>5. /\ g \in Seq(Nat) /\ Len(g) = L
      /\ \A i \in 1 .. L : g[i] = IF t[i] = Backslash THEN Slash ELSE t[i]
  BY <1>2, Formalized
<1> HIDE DEF f, g, p
<1>6. /\ h \in Seq(Nat) /\ Len(h) = K + L
      /\ \A i \in 1 .. K + L : h[i] = IF p[i] = Backslash THEN Slash ELSE p[i]
  BY <1>3, Formalized
<1>7. /\ q \in Seq(Nat) /\ Len(q) = K + L
      /\ \A i \in 1 .. K : q[i] = f[i]
      /\ \A i \in 1 .. L : q[K + i] = g[i]
  BY <1>4, <1>5, Concat
<1> HIDE DEF h, q
<1>8. \A i \in 1 .. K + L : h[i] = q[i]
  <2>1. ASSUME NEW i \in 1 .. K PROVE h[i] = q[i]
    <3>1. i \in 1 .. K + L
      OBVIOUS
    <3>2. h[i] = IF p[i] = Backslash THEN Slash ELSE p[i]
      BY <3>1, <1>6
    <3>3. p[i] = s[i] /\ q[i] = f[i] /\ f[i] = IF s[i] = Backslash THEN Slash ELSE s[i]
      BY <1>3, <1>4, <1>7
    <3>4. QED
      BY <3>2, <3>3
  <2>2. ASSUME NEW i \in 1 .. L PROVE h[K + i] = q[K + i]
    <3>1. K + i \in 1 .. K + L
      OBVIOUS
    <3>2. h[K + i] = IF p[K + i] = Backslash THEN Slash ELSE p[K + i]
      BY <3>1, <1>6
    <3>3. /\ p[K + i] = t[i] /\ q[K + i] = g[i]
          /\ g[i] = IF t[i] = Backslash THEN Slash ELSE t[i]
      BY <1>3, <1>5, <1>7
    <3>4. QED
      BY <3>2, <3>3
  <2>3. \A i \in 1 .. K + L : i \in 1 .. K \/ (i - K \in 1 .. L /\ K + (i - K) = i)
    OBVIOUS
  <2>4. QED
    BY <2>1, <2>2, <2>3
<1>9. h = q
  BY <1>6, <1>7, <1>8, SeqEqual
<1>10. QED
  BY <1>9 DEF f, g, h, p, q

\* A string without a backslash stays.
LEMMA FormalizedSame ==
  ASSUME NEW s \in Seq(Nat), Free(s, {Backslash})
  PROVE  formalize_path(s) = s
<1> DEFINE f == formalize_path(s)
<1>1. /\ f \in Seq(Nat) /\ Len(f) = Len(s)
      /\ \A i \in 1 .. Len(s) : f[i] = IF s[i] = Backslash THEN Slash ELSE s[i]
  BY Formalized
<1> HIDE DEF f
<1>2. \A i \in 1 .. Len(s) : f[i] = s[i]
  BY <1>1, FreeString
<1>3. f = s
  BY <1>1, <1>2, SeqEqual
<1>4. QED
  BY <1>3 DEF f

\* What the path of a directory and a name is made of.
LEMMA AppendedTo ==
  ASSUME NEW d \in Seq(Nat), NEW a \in Seq(Nat), a # <<>>, Free(a, Separators)
  PROVE  \/ append(d, a) = d \o a /\ (d = <<>> \/ Last(d) \in Separators)
         \/ append(d, a) = (d \o <<Slash>>) \o a
<1>1. 1 \in 1 .. Len(a)
  BY EmptySeq
<1>2. a[1] # Slash
  BY <1>1, FreeString DEF Separators
<1>3. Head(a) # Slash
  BY <1>2
<1>4. QED
  BY <1>3 DEF append, Separators

\* The path that find_files makes of a directory and a name has that name, and
\* that name as its path relative to the directory, however the directory is
\* written; formalize_path changes neither: for strings of any length
\* (common.cpp:148, 258-279 and 555-570).
THEOREM PathsAgreeHolds == Inputs => []PathsAgree
<1>1. TwoStrings => PathsAgree
  <2> SUFFICES ASSUME TwoStrings, arg # <<>>, Free(arg, Separators)
               PROVE  /\ get_file_name(append(str, arg)) = arg
                      /\ get_relative_path(str, append(str, arg)) = arg
                      /\ get_relative_path(formalize_path(str), formalize_path(append(str, arg))) = arg
    BY DEF PathsAgree
  <2> DEFINE c == <<Slash>>
             u == str \o c
             F(s) == formalize_path(s)
  <2>1. str \in Seq(Nat) /\ arg \in Seq(Nat)
    BY Bytes DEF TwoStrings
  <2>2. c \in Seq(Nat) /\ c # <<>> /\ Free(c, {Backslash})
    BY DEF Slash, Backslash, Free
  <2>3. u \in Seq(Nat) /\ Last(u) \in Separators
    <3>1. c \in Seq(Nat) /\ Len(c) = 1 /\ c[1] = Slash
      BY DEF Slash
    <3> HIDE DEF c
    <3>2. /\ u \in Seq(Nat) /\ Len(u) = Len(str) + Len(c)
          /\ \A i \in 1 .. Len(c) : u[Len(str) + i] = c[i]
      BY <2>1, <3>1, Concat
    <3> HIDE DEF u
    <3>3. 1 \in 1 .. Len(c)
      BY <3>1
    <3>4. u[Len(u)] = Slash
      BY <3>1, <3>2, <3>3
    <3>5. QED
      BY <3>2, <3>4 DEF Last, Separators
  <2>4. Free(arg, {Backslash})
    BY DEF Free, Separators
  <2>5. F(arg) = arg /\ F(c) = c
    <3> HIDE DEF c
    <3>1. QED
      BY <2>1, <2>2, <2>4, FormalizedSame
  <2>6. /\ F(str \o arg) = F(str) \o arg
        /\ F((str \o c) \o arg) = (F(str) \o c) \o arg
    <3> HIDE DEF c
    <3>1. F(str \o arg) = F(str) \o F(arg)
      BY <2>1, FormalizedParts
    <3>2. F(u \o arg) = F(u) \o F(arg)
      BY <2>1, <2>3, FormalizedParts
    <3>3. F(u) = F(str) \o F(c)
      BY <2>1, <2>2, FormalizedParts
    <3> HIDE DEF F
    <3>4. QED
      BY <2>5, <3>1, <3>2, <3>3
  <2>7. F(str) \in Seq(Nat)
    BY <2>1, Formalized
  <2>8. /\ get_relative_path(str, str \o arg) = arg
        /\ get_relative_path(str, (str \o c) \o arg) = arg
        /\ get_relative_path(F(str), F(str) \o arg) = arg
        /\ get_relative_path(F(str), (F(str) \o c) \o arg) = arg
    <3> HIDE DEF F
    <3>1. QED
      BY <2>1, <2>7, NameIsRelative
  <2>9. get_file_name(u \o arg) = arg
    <3> HIDE DEF u
    <3>1. QED
      BY <2>1, <2>3, NameOf
  <2>10. str = <<>> \/ Last(str) \in Separators => get_file_name(str \o arg) = arg
    BY <2>1, NameOf
  <2>11. \/ append(str, arg) = str \o arg /\ (str = <<>> \/ Last(str) \in Separators)
         \/ append(str, arg) = (str \o c) \o arg
    BY <2>1, AppendedTo
  <2> HIDE DEF c
  <2>12. QED
    BY <2>6, <2>8, <2>9, <2>10, <2>11
<1>2. QED
  BY <1>1, InputsAreStrings, PTL

-----------------------------------------------------------------------------
(* Digests.                                                                 *)

\* The spaces after a digest are a string.
LEMMA BlanksTyped ==
  ASSUME NEW n \in Nat
  PROVE  Blanks(n) \in Seq(Nat) /\ Len(Blanks(n)) = n /\ \A i \in 1 .. n : Blanks(n)[i] = Space
<1>1. Blanks(n) \in [1 .. n -> Nat]
  BY DEF Blanks, Space
<1>2. QED
  BY <1>1 DEF Blanks

\* What the expression takes of a word and the spaces after it is the word.
LEMMA WordTaken ==
  ASSUME NEW w \in Seq(Nat), Free(w, {Space}), NEW n \in Nat
  PROVE  Word(w \o Blanks(n)) = w
<1> DEFINE s == w \o Blanks(n)
           B(l) == SubSeq(s, 1, l)
           S == {p \in Prefixes(s) : Free(p, {Space})}
<1>1. PICK K \in Nat : K = Len(w)
  BY LenProperties
<1>2. /\ s \in Seq(Nat) /\ Len(s) = K + n
      /\ \A i \in 1 .. n : s[K + i] = Space
  <2>1. Blanks(n) \in Seq(Nat) /\ Len(Blanks(n)) = n /\ \A i \in 1 .. n : Blanks(n)[i] = Space
    BY BlanksTyped
  <2>2. /\ s \in Seq(Nat) /\ Len(s) = Len(w) + Len(Blanks(n))
        /\ \A i \in 1 .. Len(Blanks(n)) : s[Len(w) + i] = Blanks(n)[i]
    BY <2>1, Concat
  <2>3. QED
    BY <1>1, <2>1, <2>2
<1>3. B(K) = w
  BY <1>1, BlanksTyped, BeginningOfConcat
<1> HIDE DEF s
<1>4. \A l \in 0 .. K + n :
         B(l) \in Seq(Nat) /\ Len(B(l)) = l /\ \A i \in 1 .. l : B(l)[i] = s[i]
  BY <1>2, Beginning
<1>5. \A p \in S : \E l \in 0 .. K + n : p = B(l) /\ Free(B(l), {Space})
  BY <1>2 DEF Prefixes
<1>6. w \in S
  <2>1. K \in 0 .. K + n
    OBVIOUS
  <2>2. B(K) \in Prefixes(s)
    BY <1>2, <2>1 DEF Prefixes
  <2>3. QED
    BY <1>3, <2>2
<1> HIDE DEF B
<1>7. \A l \in 0 .. K + n : Free(B(l), {Space}) => l <= K
  <2> SUFFICES ASSUME NEW l \in 0 .. K + n, Free(B(l), {Space}), ~(l <= K) PROVE FALSE
    OBVIOUS
  <2>1. K + 1 \in 1 .. l /\ 1 \in 1 .. n
    OBVIOUS
  <2>2. B(l)[K + 1] = Space
    BY <1>2, <1>4, <2>1
  <2>3. B(l)[K + 1] \notin {Space}
    BY <1>4, <2>1, FreeString
  <2>4. QED
    BY <2>2, <2>3
<1> HIDE DEF S
<1>8. \A p \in S : Len(p) <= Len(w) /\ (Len(w) <= Len(p) => p = w)
  <2> SUFFICES ASSUME NEW l \in 0 .. K + n, Free(B(l), {Space})
               PROVE  Len(B(l)) <= Len(w) /\ (Len(w) <= Len(B(l)) => B(l) = w)
    BY <1>5
  <2>1. Len(B(l)) = l /\ l <= K
    BY <1>4, <1>7
  <2>2. K <= l => l = K
    BY <2>1
  <2>3. QED
    BY <1>1, <1>3, <2>1, <2>2
<1>9. Longest(S) \in S /\ \A t \in S : Len(t) <= Len(Longest(S))
  BY <1>6, <1>8 DEF Longest
<1>10. Longest(S) = w
  BY <1>6, <1>8, <1>9
<1>11. QED
  BY <1>10 DEF Word, S, s

\* A word alone, with spaces after it or not, is what is left (common.cpp:507-513).
LEMMA TrimBlanks ==
  ASSUME NEW w \in Seq(Nat), Free(w, {Space}), NEW n \in Nat
  PROVE  trim_trailing_space(w \o Blanks(n)) = w
<1> DEFINE s == w \o Blanks(n)
           S == {t \in Suffixes(s) : IsWordAndSpaces(t)}
<1>1. PICK K \in Nat : K = Len(w)
  BY LenProperties
<1>2. /\ s \in Seq(Nat) /\ Len(s) = K + n
      /\ \A i \in 1 .. n : s[K + i] = Space
  <2>1. Blanks(n) \in Seq(Nat) /\ Len(Blanks(n)) = n /\ \A i \in 1 .. n : Blanks(n)[i] = Space
    BY BlanksTyped
  <2>2. /\ s \in Seq(Nat) /\ Len(s) = Len(w) + Len(Blanks(n))
        /\ \A i \in 1 .. Len(Blanks(n)) : s[Len(w) + i] = Blanks(n)[i]
    BY <2>1, Concat
  <2>3. QED
    BY <1>1, <2>1, <2>2
<1>3. SubSeq(s, 1, K) = w
  BY <1>1, BlanksTyped, BeginningOfConcat
<1>4. Word(s) = w
  BY WordTaken
<1> HIDE DEF s
<1>5. IsWordAndSpaces(s)
  <2>1. \A i \in K + 1 .. K + n : i - K \in 1 .. n /\ K + (i - K) = i
    OBVIOUS
  <2>2. \A i \in K + 1 .. K + n : s[i] = Space
    BY <1>2, <2>1
  <2>3. K \in 0 .. Len(s) /\ Len(s) = K + n
    BY <1>2
  <2>4. Free(SubSeq(s, 1, K), {Space})
    BY <1>3
  <2>5. \A i \in K + 1 .. Len(s) : s[i] = Space
    BY <2>2, <2>3
  <2>6. QED
    BY <2>3, <2>4, <2>5 DEF IsWordAndSpaces
<1>6. SubSeq(s, 0 + 1, Len(s)) = s /\ 0 \in 0 .. Len(s)
  BY <1>2, SubSeqFull
<1>7. s \in S
  <2>1. SubSeq(s, 0 + 1, Len(s)) \in Suffixes(s)
    BY <1>2, <1>6, EndingIsSuffix
  <2>2. QED
    BY <1>5, <1>6, <2>1
<1>8. Longest(S) = s
  <2>1. S \in SUBSET Suffixes(s)
    OBVIOUS
  <2>2. SubSeq(s, 0 + 1, Len(s)) \in S
    BY <1>6, <1>7
  <2> HIDE DEF S
  <2>3. \A m \in 0 .. Len(s) : 0 <= m
    BY <1>2
  <2>4. Longest(S) = SubSeq(s, 0 + 1, Len(s))
    BY <1>2, <1>6, <2>1, <2>2, <2>3, LongestEnding
  <2>5. QED
    BY <1>6, <2>4
<1>9. QED
  BY <1>4, <1>8 DEF trim_trailing_space, s

\* Of a text that ends with a word and spaces only that word is left.
LEMMA TrimLast ==
  ASSUME NEW v \in Seq(Nat), v # <<>>, Last(v) = Space,
         NEW w \in Seq(Nat), w # <<>>, Free(w, {Space}), NEW n \in Nat
  PROVE  trim_trailing_space(v \o (w \o Blanks(n))) = w
<1> DEFINE x == w \o Blanks(n)
           s == v \o x
           E(m) == SubSeq(s, m + 1, Len(s))
           S == {t \in Suffixes(s) : IsWordAndSpaces(t)}
<1>1. PICK K \in Nat : K = Len(v) /\ K # 0
  BY EmptySeq
<1>2. PICK M \in Nat : M = Len(w) /\ M # 0
  BY EmptySeq
<1>3. /\ x \in Seq(Nat) /\ Len(x) = M + n
      /\ \A i \in 1 .. M : x[i] = w[i]
      /\ \A i \in 1 .. n : x[M + i] = Space
  <2>1. Blanks(n) \in Seq(Nat) /\ Len(Blanks(n)) = n /\ \A i \in 1 .. n : Blanks(n)[i] = Space
    BY BlanksTyped
  <2>2. /\ x \in Seq(Nat) /\ Len(x) = Len(w) + Len(Blanks(n))
        /\ \A i \in 1 .. Len(w) : x[i] = w[i]
        /\ \A i \in 1 .. Len(Blanks(n)) : x[Len(w) + i] = Blanks(n)[i]
    BY <2>1, Concat
  <2> HIDE DEF x
  <2>3. QED
    BY <1>2, <2>1, <2>2
<1>4. SubSeq(x, 1, M) = w
  BY <1>2, BlanksTyped, BeginningOfConcat
<1>5. Word(x) = w
  BY WordTaken
<1> HIDE DEF x
<1>6. PICK L \in Nat : L = Len(x) /\ L # 0
  BY <1>2, <1>3
<1>7. /\ s \in Seq(Nat) /\ Len(s) = K + L
      /\ \A i \in 1 .. K : s[i] = v[i]
      /\ \A i \in 1 .. L : s[K + i] = x[i]
  BY <1>1, <1>6, <1>3, Concat
<1>8. E(K) = x
  BY <1>1, <1>3, EndOfConcat
<1> HIDE DEF s
<1>9. s[K] = Space /\ s[K + 1] # Space
  <2>1. K \in 1 .. K /\ 1 \in 1 .. L /\ 1 \in 1 .. M
    BY <1>1, <1>6, <1>2
  <2>2. w[1] # Space
    BY <1>2, <2>1, FreeString
  <2>3. QED
    BY <1>1, <1>7, <1>3, <2>1, <2>2 DEF Last
<1>10. E(K) \in S
  <2>1. K \in 0 .. Len(s)
    BY <1>7
  <2>2. E(K) \in Suffixes(s)
    BY <1>7, <2>1, EndingIsSuffix
  <2>3. \A i \in M + 1 .. M + n : i - M \in 1 .. n /\ M + (i - M) = i
    OBVIOUS
  <2>4. \A i \in M + 1 .. M + n : x[i] = Space
    BY <1>3, <2>3
  <2>5. M \in 0 .. Len(x) /\ Len(x) = M + n
    BY <1>2, <1>3
  <2>6. \A i \in M + 1 .. Len(x) : x[i] = Space
    BY <2>4, <2>5
  <2>7. IsWordAndSpaces(x)
    BY <1>4, <2>5, <2>6 DEF IsWordAndSpaces
  <2>8. QED
    BY <1>8, <2>2, <2>7
<1>11. \A m \in 0 .. Len(s) : E(m) \in S => K <= m
  <2> SUFFICES ASSUME NEW m \in 0 .. Len(s), IsWordAndSpaces(E(m)), m < K PROVE FALSE
    BY <1>7
  <2>1. /\ E(m) \in Seq(Nat) /\ Len(E(m)) = K + L - m
        /\ \A i \in 1 .. K + L - m : E(m)[i] = s[m + i]
    <3>1. /\ E(m) \in Seq(Nat) /\ Len(E(m)) = Len(s) - m
          /\ \A i \in 1 .. Len(s) - m : E(m)[i] = s[m + i]
      BY <1>7, Ending
    <3> HIDE DEF E
    <3>2. QED
      BY <1>7, <3>1
  <2> HIDE DEF E
  <2> DEFINE j == K - m
  <2>2. j \in 1 .. K + L - m /\ j + 1 \in 1 .. K + L - m /\ m + j = K /\ m + (j + 1) = K + 1
    BY <1>6, <1>7
  <2>3. E(m)[j] = Space /\ E(m)[j + 1] # Space
    BY <1>9, <2>1, <2>2
  <2> HIDE DEF j
  <2>4. PICK k \in 0 .. Len(E(m)) :
           /\ Free(SubSeq(E(m), 1, k), {Space})
           /\ \A i \in k + 1 .. Len(E(m)) : E(m)[i] = Space
    BY DEF IsWordAndSpaces
  <2>5. k < j
    <3> SUFFICES ASSUME ~(k < j) PROVE FALSE
      OBVIOUS
    <3>1. /\ SubSeq(E(m), 1, k) \in Seq(Nat) /\ Len(SubSeq(E(m), 1, k)) = k
          /\ \A i \in 1 .. k : SubSeq(E(m), 1, k)[i] = E(m)[i]
      BY <2>1, Beginning
    <3>2. j \in 1 .. k
      BY <2>1, <2>2
    <3>3. SubSeq(E(m), 1, k)[j] \notin {Space}
      BY <2>4, <3>1, <3>2, FreeString
    <3>4. QED
      BY <2>3, <3>1, <3>2, <3>3
  <2>6. j + 1 \in k + 1 .. Len(E(m))
    BY <2>1, <2>2, <2>5
  <2>7. QED
    BY <2>3, <2>4, <2>6
<1>12. Longest(S) = E(K)
  <2>1. S \in SUBSET Suffixes(s) /\ K \in 0 .. Len(s)
    BY <1>7
  <2> HIDE DEF S
  <2>2. QED
    BY <1>7, <1>10, <1>11, <2>1, LongestEnding
<1> HIDE DEF E, S
<1>13. QED
  BY <1>8, <1>12, <1>5 DEF trim_trailing_space, s, x, S

\* compare_md5 takes two digests for equal exactly when they are, whatever spaces
\* follow either, and the null pointer for the empty one; of any text, whatever words
\* and spaces it begins with, only the last word is compared: for strings of any
\* length and any number of spaces (common.cpp:495-513).
THEOREM DigestsComparedHolds == Inputs => []DigestsCompared
<1>1. TwoStrings => DigestsCompared
  <2> SUFFICES ASSUME TwoStrings, Free(arg, {Space}),
                      NEW n \in 0 .. MaxSpaces, NEW m \in 0 .. MaxSpaces
               PROVE  /\ Free(str, {Space}) =>
                           (compare_md5(str \o Blanks(n), arg \o Blanks(m)) <=> str = arg)
                      /\ arg # <<>> =>
                           compare_md5(str \o <<Space>> \o (arg \o Blanks(n)), arg \o Blanks(m))
                      /\ compare_md5(Null, arg \o Blanks(m)) <=> arg = <<>>
    BY DEF DigestsCompared
  <2> DEFINE T(s) == trim_trailing_space(s)
  <2>1. str \in Seq(Nat) /\ arg \in Seq(Nat)
    BY Bytes DEF TwoStrings
  <2>2. n \in Nat /\ m \in Nat
    BY MaxSpacesAssumption
  <2>3. /\ Free(str, {Space}) => T(str \o Blanks(n)) = str
        /\ T(arg \o Blanks(m)) = arg
    BY <2>1, <2>2, TrimBlanks
  <2>4. T(<<>>) = <<>>
    <3>1. Blanks(0) = <<>>
      BY BlanksTyped, EmptySeq
    <3>2. <<>> \in Seq(Nat) /\ Free(<<>>, {Space}) /\ <<>> \o <<>> = <<>>
      BY EmptySeq, ConcatEmptySeq DEF Free
    <3>3. T(<<>> \o Blanks(0)) = <<>>
      BY <3>2, TrimBlanks
    <3> HIDE DEF T
    <3>4. QED
      BY <3>1, <3>2, <3>3
  <2>5. \A s \in Seq(Nat) : (\A i \in 1 .. Len(s) : s[i] # 0) => OrEmpty(s) = s
    <3> SUFFICES ASSUME NEW s \in Seq(Nat), \A i \in 1 .. Len(s) : s[i] # 0 PROVE s # Null
      BY DEF OrEmpty
    <3>1. Len(Null) = 1 /\ Null[1] = 0
      BY DEF Null
    <3>2. QED
      BY <3>1
  <2> DEFINE b == <<Space>>
             v == str \o b
  <2>6. b \in Seq(Nat) /\ Len(b) = 1 /\ b[1] = Space
    BY DEF Space
  <2> HIDE DEF b
  <2>7. v \in Seq(Nat) /\ v # <<>> /\ Last(v) = Space
    <3>1. /\ v \in Seq(Nat) /\ Len(v) = Len(str) + Len(b)
          /\ \A i \in 1 .. Len(b) : v[Len(str) + i] = b[i]
      BY <2>1, <2>6, Concat
    <3> HIDE DEF v
    <3>2. PICK K \in Nat : K = Len(str)
      BY <2>1, LenProperties
    <3>3. Len(v) = K + 1 /\ v[K + 1] = Space
      BY <2>6, <3>1, <3>2
    <3>4. v # <<>>
      BY <3>3
    <3>5. QED
      BY <3>1, <3>3, <3>4 DEF Last
  <2>8. arg # <<>> => T(v \o (arg \o Blanks(n))) = arg
    <3> HIDE DEF v
    <3>1. QED
      BY <2>1, <2>2, <2>7, TrimLast
  <2>9. \A s, t \in Seq(Nat) :
           (\A i \in 1 .. Len(s) : s[i] # 0) /\ (\A i \in 1 .. Len(t) : t[i] # 0) =>
             \A i \in 1 .. Len(s \o t) : (s \o t)[i] # 0
    <3> SUFFICES ASSUME NEW s \in Seq(Nat), NEW t \in Seq(Nat),
                        \A i \in 1 .. Len(s) : s[i] # 0, \A i \in 1 .. Len(t) : t[i] # 0
                 PROVE  \A i \in 1 .. Len(s \o t) : (s \o t)[i] # 0
      OBVIOUS
    <3>1. PICK K \in Nat : K = Len(s)
      BY LenProperties
    <3>2. PICK L \in Nat : L = Len(t)
      BY LenProperties
    <3>3. /\ Len(s \o t) = K + L
          /\ \A i \in 1 .. K : (s \o t)[i] = s[i]
          /\ \A i \in 1 .. L : (s \o t)[K + i] = t[i]
      BY <3>1, <3>2, Concat
    <3>4. \A i \in 1 .. K + L : i \in 1 .. K \/ (i - K \in 1 .. L /\ K + (i - K) = i)
      OBVIOUS
    <3>5. QED
      BY <3>1, <3>2, <3>3, <3>4
  <2> DEFINE NoNull(s) == s \in Seq(Nat) /\ \A i \in 1 .. Len(s) : s[i] # 0
  <2>10. \A s, t : NoNull(s) /\ NoNull(t) => NoNull(s \o t)
    BY <2>9, Concat
  <2>11. NoNull(str) /\ NoNull(arg)
    <3>1. \A i \in 1 .. Len(str) : str[i] \in 1 .. 255
      BY Bytes DEF TwoStrings
    <3>2. \A i \in 1 .. Len(arg) : arg[i] \in 1 .. 255
      BY Bytes DEF TwoStrings
    <3>3. \A i \in 1 .. 255 : i # 0
      OBVIOUS
    <3>4. /\ \A i \in 1 .. Len(str) : str[i] # 0
          /\ \A i \in 1 .. Len(arg) : arg[i] # 0
      BY <3>1, <3>2, <3>3
    <3>5. QED
      BY <2>1, <3>4
  <2>12. NoNull(Blanks(n)) /\ NoNull(Blanks(m)) /\ NoNull(b)
    <3>1. \A k \in Nat : NoNull(Blanks(k))
      BY BlanksTyped DEF Space
    <3>2. NoNull(b)
      BY <2>6 DEF Space
    <3>3. QED
      BY <2>2, <3>1, <3>2
  <2>13. \A s : NoNull(s) => OrEmpty(s) = s
    BY <2>5
  <2> HIDE DEF NoNull
  <2>14. /\ OrEmpty(str \o Blanks(n)) = str \o Blanks(n)
         /\ OrEmpty(arg \o Blanks(m)) = arg \o Blanks(m)
         /\ OrEmpty(v \o (arg \o Blanks(n))) = v \o (arg \o Blanks(n))
    BY <2>10, <2>11, <2>12, <2>13
  <2>15. OrEmpty(Null) = <<>>
    BY DEF OrEmpty
  <2>16. Free(str, {Space}) =>
           (compare_md5(str \o Blanks(n), arg \o Blanks(m)) <=> str = arg)
    BY <2>3, <2>14 DEF compare_md5
  <2>17. arg # <<>> => compare_md5(v \o (arg \o Blanks(n)), arg \o Blanks(m))
    <3> HIDE DEF v
    <3>1. QED
      BY <2>3, <2>8, <2>14 DEF compare_md5
  <2>18. compare_md5(Null, arg \o Blanks(m)) <=> arg = <<>>
    BY <2>3, <2>4, <2>14, <2>15 DEF compare_md5
  <2>19. QED
    BY <2>16, <2>17, <2>18 DEF b
<1>2. QED
  BY <1>1, InputsAreStrings, PTL

-----------------------------------------------------------------------------
(* Folds.                                                                   *)

\* A set of numbers up to k that is not empty has a greatest one.
LEMMA Greatest ==
  ASSUME NEW k \in Nat, NEW x \in SUBSET (1 .. k), x # {}
  PROVE  Max(x) \in x /\ \A y \in x : Max(x) >= y
<1> DEFINE T == {m \in Nat : k - m \in x}
<1>1. \A y \in x : k - y \in Nat /\ k - (k - y) = y
  OBVIOUS
<1>2. \A y \in x : k - y \in T
  BY <1>1
<1>3. T \in SUBSET Nat /\ T # {}
  BY <1>2
<1> HIDE DEF T
<1>4. PICK n \in T : \A m \in T : n <= m
  BY <1>3, Least
<1>5. k - n \in x
  BY <1>4 DEF T
<1>6. \A y \in x : k - n >= y
  <2>1. \A y \in x : n <= k - y
    BY <1>2, <1>4
  <2>2. n \in Nat
    BY <1>3, <1>4
  <2>3. QED
    BY <2>1, <2>2
<1>7. QED
  BY <1>5, <1>6 DEF Max

\* The folds of a step, from a base, over the sets of numbers up to n, the least
\* number first.
FoldsOf(V, base, step, n) ==
  {g \in [SUBSET (1 .. n) -> V] : \A x \in SUBSET (1 .. n) :
     g[x] = IF x = {} THEN base ELSE step[g[x \ {Max(x)}]][Max(x)]}

\* There is one.
LEMMA FoldExists ==
  ASSUME NEW V, NEW base \in V, NEW n \in Nat, NEW step \in [V -> [1 .. n -> V]]
  PROVE  \E g : g \in FoldsOf(V, base, step, n)
<1> DEFINE IsFold(k, g) == \A x \in SUBSET (1 .. k) :
             g[x] = IF x = {} THEN base ELSE step[g[x \ {Max(x)}]][Max(x)]
           T == {k \in Nat : k <= n => \E g \in [SUBSET (1 .. k) -> V] : IsFold(k, g)}
<1>1. 0 \in T
  <2> DEFINE g == [x \in SUBSET (1 .. 0) |-> base]
  <2>1. 1 .. 0 = {}
    OBVIOUS
  <2>2. \A x \in SUBSET (1 .. 0) : x = {}
    BY <2>1
  <2>3. g \in [SUBSET (1 .. 0) -> V] /\ IsFold(0, g)
    BY <2>2
  <2>4. QED
    BY <2>3
<1>2. ASSUME NEW k \in Nat, k \in T PROVE k + 1 \in T
  <2> HIDE DEF IsFold
  <2> SUFFICES ASSUME k + 1 <= n
               PROVE  \E h \in [SUBSET (1 .. k + 1) -> V] : IsFold(k + 1, h)
    <3>1. k + 1 \in Nat
      OBVIOUS
    <3>2. QED
      BY <3>1, Zenon
  <2>1. k <= n
    OBVIOUS
  <2>2. PICK g \in [SUBSET (1 .. k) -> V] : IsFold(k, g)
    BY <1>2, <2>1
  <2> DEFINE h == [x \in SUBSET (1 .. k + 1) |->
                     IF k + 1 \in x THEN step[g[x \ {k + 1}]][k + 1] ELSE g[x]]
  <2>3. \A x \in SUBSET (1 .. k + 1) : k + 1 \notin x => x \in SUBSET (1 .. k)
    OBVIOUS
  <2>4. \A x \in SUBSET (1 .. k + 1) : x \ {k + 1} \in SUBSET (1 .. k)
    OBVIOUS
  <2>5. h \in [SUBSET (1 .. k + 1) -> V]
    <3> SUFFICES ASSUME NEW x \in SUBSET (1 .. k + 1)
                 PROVE  (IF k + 1 \in x THEN step[g[x \ {k + 1}]][k + 1] ELSE g[x]) \in V
      OBVIOUS
    <3>1. g[x \ {k + 1}] \in V /\ k + 1 \in 1 .. n
      BY <2>4
    <3>2. step[g[x \ {k + 1}]][k + 1] \in V
      BY <3>1
    <3>3. QED
      BY <2>3, <3>2
  <2>6. ASSUME NEW x \in SUBSET (1 .. k + 1)
        PROVE  h[x] = IF x = {} THEN base ELSE step[h[x \ {Max(x)}]][Max(x)]
    <3>1. CASE k + 1 \in x
      <4>1. x # {} /\ k + 1 \in Nat
        BY <3>1
      <4>2. Max(x) \in x /\ \A y \in x : Max(x) >= y
        BY <4>1, Greatest
      <4>3. Max(x) = k + 1
        <5>1. PICK M \in 1 .. k + 1 : M = Max(x)
          BY <4>2
        <5>2. M >= k + 1
          BY <3>1, <4>2, <5>1
        <5>3. QED
          BY <5>1, <5>2
      <4>4. x \ {k + 1} \in SUBSET (1 .. k + 1) /\ k + 1 \notin x \ {k + 1}
        OBVIOUS
      <4>5. h[x] = step[g[x \ {k + 1}]][k + 1]
        BY <3>1
      <4>6. h[x \ {k + 1}] = g[x \ {k + 1}]
        BY <4>4
      <4> HIDE DEF h
      <4>7. QED
        BY <4>1, <4>3, <4>5, <4>6
    <3>2. CASE k + 1 \notin x
      <4>1. x \in SUBSET (1 .. k)
        BY <2>3, <3>2
      <4>2. x \ {Max(x)} \in SUBSET (1 .. k + 1) /\ k + 1 \notin x \ {Max(x)}
        BY <3>2
      <4>3. h[x] = g[x] /\ h[x \ {Max(x)}] = g[x \ {Max(x)}]
        BY <3>2, <4>2
      <4> HIDE DEF h
      <4>4. g[x] = IF x = {} THEN base ELSE step[g[x \ {Max(x)}]][Max(x)]
        BY <2>2, <4>1 DEF IsFold
      <4>5. QED
        BY <4>3, <4>4
    <3>3. QED
      BY <3>1, <3>2
  <2> HIDE DEF h
  <2>7. IsFold(k + 1, h)
    BY <2>6 DEF IsFold
  <2>8. QED
    BY <2>5, <2>7
<1> HIDE DEF T
<1>3. n \in T
  BY <1>1, <1>2, Induction
<1>4. n <= n
  OBVIOUS
<1>5. QED
  BY <1>3, <1>4 DEF T, FoldsOf

\* What the set of the numbers up to k has.
LEMMA UpTo ==
  ASSUME NEW k \in Nat, k # 0
  PROVE  1 .. k # {} /\ Max(1 .. k) = k /\ (1 .. k) \ {k} = 1 .. k - 1
<1>1. k \in 1 .. k
  OBVIOUS
<1>2. Max(1 .. k) \in 1 .. k /\ \A y \in 1 .. k : Max(1 .. k) >= y
  BY <1>1, Greatest
<1>3. Max(1 .. k) = k
  BY <1>1, <1>2
<1>4. (1 .. k) \ {k} = 1 .. k - 1
  OBVIOUS
<1>5. QED
  BY <1>1, <1>3, <1>4

-----------------------------------------------------------------------------
(* trim_right.                                                              *)

\* A cut takes the last byte or nothing.
LEMMA CutTyped ==
  ASSUME NEW s \in Seq(Nat), NEW c
  PROVE  Cut(s, c) \in Seq(Nat)
<1>1. CASE s # <<>> /\ Last(s) = c
  <2>1. PICK K \in Nat : K = Len(s) /\ K # 0
    BY <1>1, EmptySeq
  <2>2. K - 1 \in 0 .. Len(s)
    BY <2>1
  <2>3. SubSeq(s, 1, K - 1) \in Seq(Nat)
    BY <2>2, Beginning
  <2>4. QED
    BY <1>1, <2>1, <2>3 DEF Cut, Front
<1>2. CASE ~(s # <<>> /\ Last(s) = c)
  BY <1>2 DEF Cut
<1>3. QED
  BY <1>1, <1>2

\* What is left after each cut of a pass with a cutset of n bytes.
CutSteps(s, q, n) ==
  {h \in [0 .. n -> Seq(Nat)] :
     /\ h[0] = s /\ h[n] = CutAll(s, q)
     /\ \A k \in 1 .. n : h[k] = Cut(h[k - 1], q[k])}

\* A pass cuts for one byte of the cutset after the other (common.cpp:576-583).
LEMMA CutAllSteps ==
  ASSUME NEW s \in Seq(Nat), NEW q \in Seq(Nat), NEW n \in Nat, n = Len(q)
  PROVE  \E h : h \in CutSteps(s, q, n)
<1> DEFINE V == Seq(Nat)
           step == [v \in V |-> [k \in 1 .. n |-> Cut(v, q[k])]]
           F(f) == [x \in SUBSET (1 .. n) |->
                      IF x = {} THEN s ELSE Cut(f[x \ {Max(x)}], q[Max(x)])]
           iter == CHOOSE f : f = F(f)
           h == [k \in 0 .. n |-> iter[1 .. k]]
<1>1. DOMAIN q = 1 .. n
  BY LenProperties
<1>2. CutAll(s, q) = iter[1 .. n]
  BY <1>1 DEF CutAll, FoldLeft, MapThenFoldSet
<1>3. step \in [V -> [1 .. n -> V]]
  BY CutTyped
<1>4. \A v \in V, k \in 1 .. n : step[v][k] = Cut(v, q[k])
  OBVIOUS
<1> HIDE DEF step
<1>5. PICK g \in [SUBSET (1 .. n) -> V] : \A x \in SUBSET (1 .. n) :
         g[x] = IF x = {} THEN s ELSE step[g[x \ {Max(x)}]][Max(x)]
  <2>1. s \in V
    OBVIOUS
  <2> HIDE DEF V
  <2>2. PICK g : g \in FoldsOf(V, s, step, n)
    BY <1>3, <2>1, FoldExists
  <2>3. QED
    BY <2>2 DEF FoldsOf
<1>6. \A x \in SUBSET (1 .. n) :
         g[x] = IF x = {} THEN s ELSE Cut(g[x \ {Max(x)}], q[Max(x)])
  <2> SUFFICES ASSUME NEW x \in SUBSET (1 .. n), x # {}
               PROVE  g[x] = Cut(g[x \ {Max(x)}], q[Max(x)])
    BY <1>5
  <2>1. Max(x) \in 1 .. n
    BY Greatest
  <2>2. x \ {Max(x)} \in SUBSET (1 .. n)
    OBVIOUS
  <2>3. g[x \ {Max(x)}] \in V
    BY <2>2
  <2>4. g[x] = step[g[x \ {Max(x)}]][Max(x)]
    BY <1>5
  <2> HIDE DEF V
  <2>5. QED
    BY <1>4, <2>1, <2>3, <2>4
<1>7. g = F(g)
  BY <1>6
<1> HIDE DEF F
<1>8. iter = F(iter)
  BY <1>7
<1> HIDE DEF iter
<1>9. h[0] = s
  <2>1. 1 .. 0 = {} /\ {} \in SUBSET (1 .. n)
    OBVIOUS
  <2>2. iter[{}] = s
    BY <1>8, <2>1 DEF F
  <2>3. QED
    BY <2>1, <2>2
<1>10. \A k \in 1 .. n : h[k] = Cut(h[k - 1], q[k])
  <2> SUFFICES ASSUME NEW k \in 1 .. n
               PROVE  iter[1 .. k] = Cut(iter[1 .. k - 1], q[k])
    OBVIOUS
  <2>1. 1 .. k # {} /\ Max(1 .. k) = k /\ (1 .. k) \ {k} = 1 .. k - 1
    <3>1. k \in Nat /\ k # 0
      OBVIOUS
    <3>2. QED
      BY <3>1, UpTo
  <2>2. 1 .. k \in SUBSET (1 .. n)
    OBVIOUS
  <2>3. iter[1 .. k] = IF 1 .. k = {} THEN s
                        ELSE Cut(iter[(1 .. k) \ {Max(1 .. k)}], q[Max(1 .. k)])
    BY <1>8, <2>2 DEF F
  <2>4. QED
    BY <2>1, <2>3
<1> DEFINE T == {k \in Nat : k <= n => h[k] \in V}
<1> HIDE DEF h
<1>11. 0 \in T
  BY <1>9
<1>12. ASSUME NEW k \in Nat, k \in T PROVE k + 1 \in T
  <2> SUFFICES ASSUME k + 1 <= n PROVE h[k + 1] \in V
    OBVIOUS
  <2>1. h[k] \in V
    BY <1>12
  <2>2. k + 1 \in 1 .. n /\ k + 1 - 1 = k
    OBVIOUS
  <2>3. h[k + 1] = Cut(h[k], q[k + 1])
    BY <1>10, <2>2
  <2>4. QED
    BY <2>1, <2>3, CutTyped
<1>13. \A k \in 0 .. n : h[k] \in V
  <2> HIDE DEF T
  <2>1. Nat \subseteq T
    BY <1>11, <1>12, Induction
  <2>2. QED
    BY <2>1 DEF T
<1>14. h \in [0 .. n -> Seq(Nat)] /\ h[n] = CutAll(s, q)
  BY <1>2, <1>13 DEF h
<1> HIDE DEF h
<1>15. QED
  BY <1>9, <1>10, <1>14 DEF CutSteps

\* The beginnings of a beginning.
LEMMA BeginningOfBeginning ==
  ASSUME NEW s \in Seq(Nat), NEW l \in 0 .. Len(s), NEW m \in 0 .. l
  PROVE  SubSeq(SubSeq(s, 1, l), 1, m) = SubSeq(s, 1, m)
<1> DEFINE v == SubSeq(s, 1, l)
           w == SubSeq(s, 1, m)
           x == SubSeq(v, 1, m)
<1>1. PICK K \in Nat : K = Len(s)
  BY LenProperties
<1>2. l \in Nat /\ m \in Nat /\ m <= l /\ l <= K
  BY <1>1
<1>3. v \in Seq(Nat) /\ Len(v) = l /\ \A i \in 1 .. l : v[i] = s[i]
  BY Beginning
<1> HIDE DEF v
<1>4. m \in 0 .. Len(s) /\ m \in 0 .. Len(v)
  BY <1>1, <1>2, <1>3
<1>5. w \in Seq(Nat) /\ Len(w) = m /\ \A i \in 1 .. m : w[i] = s[i]
  BY <1>4, Beginning
<1>6. x \in Seq(Nat) /\ Len(x) = m /\ \A i \in 1 .. m : x[i] = v[i]
  BY <1>3, <1>4, Beginning
<1>7. \A i \in 1 .. m : i \in 1 .. l
  BY <1>2
<1> HIDE DEF w, x
<1>8. \A i \in 1 .. m : x[i] = w[i]
  BY <1>3, <1>5, <1>6, <1>7
<1>9. x = w
  BY <1>5, <1>6, <1>8, SeqEqual
<1>10. QED
  BY <1>9 DEF v, w, x

\* A cut of the beginning of a string.
LEMMA CutOfBeginning ==
  ASSUME NEW s \in Seq(Nat), NEW l \in 0 .. Len(s), NEW c
  PROVE  Cut(SubSeq(s, 1, l), c) = SubSeq(s, 1, IF l # 0 /\ s[l] = c THEN l - 1 ELSE l)
<1> DEFINE v == SubSeq(s, 1, l)
<1>1. PICK K \in Nat : K = Len(s)
  BY LenProperties
<1>2. l \in Nat /\ l <= K
  BY <1>1
<1>3. /\ v \in Seq(Nat) /\ Len(v) = l
      /\ \A i \in 1 .. l : v[i] = s[i]
  BY Beginning
<1>4. CASE l # 0 /\ s[l] = c
  <2>1. l - 1 \in 0 .. l /\ l \in 1 .. l
    BY <1>2, <1>4
  <2>2. SubSeq(v, 1, l - 1) = SubSeq(s, 1, l - 1)
    BY <2>1, BeginningOfBeginning
  <2> HIDE DEF v
  <2>3. v # <<>> /\ v[Len(v)] = c
    BY <1>3, <1>4, <2>1, EmptySeq
  <2>4. Cut(v, c) = SubSeq(v, 1, l - 1)
    BY <1>3, <2>3 DEF Cut, Last, Front
  <2>5. QED
    BY <1>4, <2>2, <2>4 DEF v
<1>5. CASE ~(l # 0 /\ s[l] = c)
  <2> HIDE DEF v
  <2>1. v = <<>> \/ v[Len(v)] # c
    <3>1. CASE l = 0
      BY <1>3, <3>1, EmptySeq
    <3>2. CASE l # 0
      <4>1. l \in 1 .. l
        BY <1>2, <3>2
      <4>2. QED
        BY <1>3, <1>5, <3>2, <4>1
    <3>3. QED
      BY <3>1, <3>2
  <2>2. Cut(v, c) = v
    BY <2>1 DEF Cut, Last
  <2>3. QED
    BY <1>5, <2>2 DEF v
<1>6. QED
  BY <1>4, <1>5

\* What a pass leaves is a beginning of the string, what it takes is in the cutset,
\* and when it takes nothing the last byte is not (common.cpp:576-583).
LEMMA OnePass ==
  ASSUME NEW s \in Seq(Nat), NEW q \in Seq(Nat)
  PROVE  \E l \in 0 .. Len(s) :
           /\ CutAll(s, q) = SubSeq(s, 1, l)
           /\ \A i \in l + 1 .. Len(s) : s[i] \in ToSet(q)
           /\ l = Len(s) /\ l # 0 => s[l] \notin ToSet(q)
<1>1. PICK K \in Nat : K = Len(s)
  BY LenProperties
<1>2. PICK n \in Nat : n = Len(q) /\ DOMAIN q = 1 .. n
  BY LenProperties
<1>3. PICK h \in [0 .. n -> Seq(Nat)] :
         /\ h[0] = s /\ h[n] = CutAll(s, q)
         /\ \A k \in 1 .. n : h[k] = Cut(h[k - 1], q[k])
  <2>1. PICK h : h \in CutSteps(s, q, n)
    BY <1>2, CutAllSteps
  <2>2. QED
    BY <2>1 DEF CutSteps
<1> DEFINE Left(k, l) ==
             /\ h[k] = SubSeq(s, 1, l)
             /\ \A i \in l + 1 .. K : s[i] \in ToSet(q)
             /\ l = K /\ l # 0 => \A j \in 1 .. k : s[l] # q[j]
           T == {k \in Nat : k <= n => \E l \in 0 .. K : Left(k, l)}
<1>4. 0 \in T
  <2>1. SubSeq(s, 1, K) = s
    BY <1>1, SubSeqFull
  <2>2. K \in 0 .. K /\ \A i \in K + 1 .. K : FALSE
    OBVIOUS
  <2>3. Left(0, K)
    BY <1>3, <2>1, <2>2
  <2> HIDE DEF Left
  <2>4. QED
    BY <2>2, <2>3
<1>5. ASSUME NEW k \in Nat, k \in T PROVE k + 1 \in T
  <2> HIDE DEF Left
  <2> SUFFICES ASSUME k + 1 <= n PROVE \E l \in 0 .. K : Left(k + 1, l)
    OBVIOUS
  <2>1. PICK l \in 0 .. K : Left(k, l)
    BY <1>5
  <2> DEFINE c == q[k + 1]
             m == IF l # 0 /\ s[l] = c THEN l - 1 ELSE l
  <2>2. k + 1 \in 1 .. n /\ k + 1 - 1 = k
    OBVIOUS
  <2>3. h[k + 1] = Cut(SubSeq(s, 1, l), c)
    <3>1. h[k] = SubSeq(s, 1, l)
      BY <2>1 DEF Left
    <3>2. h[k + 1] = Cut(h[k], c)
      BY <1>3, <2>2
    <3>3. QED
      BY <3>1, <3>2
  <2>4. c \in ToSet(q)
    BY <1>2, <2>2 DEF ToSet
  <2> HIDE DEF c
  <2>5. h[k + 1] = SubSeq(s, 1, m)
    <3>1. l \in 0 .. Len(s)
      BY <1>1
    <3>2. QED
      BY <2>3, <3>1, CutOfBeginning
  <2>6. \A i \in l + 1 .. K : s[i] \in ToSet(q)
    BY <2>1 DEF Left
  <2>7. CASE l # 0 /\ s[l] = c
    <3>1. m = l - 1 /\ m \in 0 .. K /\ m # K
      BY <2>7
    <3> HIDE DEF m
    <3>2. \A i \in m + 1 .. K : i = l \/ i \in l + 1 .. K
      BY <3>1
    <3>3. Left(k + 1, m)
      BY <2>4, <2>5, <2>6, <2>7, <3>1, <3>2 DEF Left
    <3>4. QED
      BY <3>1, <3>3
  <2>8. CASE ~(l # 0 /\ s[l] = c)
    <3>1. m = l
      BY <2>8
    <3> HIDE DEF m
    <3>2. \A j \in 1 .. k + 1 : j \in 1 .. k \/ j = k + 1
      OBVIOUS
    <3>3. l = K /\ l # 0 => \A j \in 1 .. k + 1 : s[l] # q[j]
      BY <2>1, <2>8, <3>2 DEF Left, c
    <3>4. Left(k + 1, l)
      BY <2>5, <2>6, <3>1, <3>3 DEF Left
    <3>5. QED
      BY <3>4
  <2>9. QED
    BY <2>7, <2>8
<1>6. n \in T
  <2> HIDE DEF T
  <2>1. QED
    BY <1>4, <1>5, Induction
<1>7. PICK l \in 0 .. K : Left(n, l)
  <2>1. n <= n
    OBVIOUS
  <2> HIDE DEF Left
  <2>2. QED
    BY <1>6, <2>1
<1>8. l = K /\ l # 0 => s[l] \notin ToSet(q)
  BY <1>2, <1>7 DEF ToSet
<1>9. QED
  BY <1>1, <1>3, <1>7, <1>8

\* A pass over a beginning of the string.
LEMMA NextPass ==
  ASSUME NEW s \in Seq(Nat), NEW q \in Seq(Nat), NEW l \in 0 .. Len(s),
         \A i \in l + 1 .. Len(s) : s[i] \in ToSet(q)
  PROVE  \E m \in 0 .. l :
           /\ CutAll(SubSeq(s, 1, l), q) = SubSeq(s, 1, m)
           /\ \A i \in m + 1 .. Len(s) : s[i] \in ToSet(q)
           /\ m = l /\ l # 0 => s[l] \notin ToSet(q)
<1> DEFINE v == SubSeq(s, 1, l)
<1>1. v \in Seq(Nat) /\ Len(v) = l /\ \A i \in 1 .. l : v[i] = s[i]
  BY Beginning
<1>2. \A m \in 0 .. l : SubSeq(v, 1, m) = SubSeq(s, 1, m)
  BY BeginningOfBeginning
<1> HIDE DEF v
<1>3. PICK m \in 0 .. l :
         /\ CutAll(v, q) = SubSeq(v, 1, m)
         /\ \A i \in m + 1 .. l : v[i] \in ToSet(q)
         /\ m = l /\ m # 0 => v[m] \notin ToSet(q)
  BY <1>1, OnePass
<1>4. PICK K \in Nat : K = Len(s)
  BY LenProperties
<1>5. l \in Nat /\ l <= K
  BY <1>4
<1>6. ASSUME NEW i \in m + 1 .. K PROVE s[i] \in ToSet(q)
  <2>1. CASE i <= l
    <3>1. i \in m + 1 .. l /\ i \in 1 .. l
      BY <1>5, <2>1
    <3>2. QED
      BY <1>1, <1>3, <3>1
  <2>2. CASE ~(i <= l)
    <3>1. i \in l + 1 .. K
      BY <1>5, <2>2
    <3>2. QED
      BY <1>4, <3>1
  <2>3. QED
    BY <2>1, <2>2
<1>7. l # 0 => l \in 1 .. l
  BY <1>5
<1>8. m = l /\ l # 0 => s[l] \notin ToSet(q)
  BY <1>1, <1>3, <1>7
<1>9. CutAll(v, q) = SubSeq(s, 1, m)
  BY <1>2, <1>3
<1>10. QED
  BY <1>4, <1>6, <1>8, <1>9 DEF v

\* The functions that take a step for each number up to n.
ChainsOf(V, base, step, n) ==
  {f \in [0 .. n -> V] : f = [k \in 0 .. n |-> IF k = 0 THEN base ELSE step[f[k - 1]]]}

\* There is one.
LEMMA ChainExists ==
  ASSUME NEW V, NEW base \in V, NEW step \in [V -> V], NEW n \in Nat
  PROVE  \E f : f \in ChainsOf(V, base, step, n)
<1> DEFINE T == {k \in Nat : \E f : f \in ChainsOf(V, base, step, k)}
<1>1. 0 \in T
  <2> DEFINE f == [k \in 0 .. 0 |-> base]
  <2>1. f \in [0 .. 0 -> V]
    OBVIOUS
  <2>2. f = [k \in 0 .. 0 |-> IF k = 0 THEN base ELSE step[f[k - 1]]]
    <3>1. \A k \in 0 .. 0 : k = 0
      OBVIOUS
    <3>2. QED
      BY <3>1
  <2> HIDE DEF f
  <2>3. f \in ChainsOf(V, base, step, 0)
    BY <2>1, <2>2 DEF ChainsOf
  <2>4. QED
    BY <2>3
<1>2. ASSUME NEW k \in Nat, k \in T PROVE k + 1 \in T
  <2>1. PICK f : f \in ChainsOf(V, base, step, k)
    BY <1>2
  <2>2. f \in [0 .. k -> V] /\ f = [j \in 0 .. k |-> IF j = 0 THEN base ELSE step[f[j - 1]]]
    BY <2>1 DEF ChainsOf
  <2>3. \A j \in 0 .. k : f[j] \in V /\ f[j] = IF j = 0 THEN base ELSE step[f[j - 1]]
    BY <2>2
  <2> DEFINE g == [j \in 0 .. k + 1 |-> IF j = k + 1 THEN step[f[k]] ELSE f[j]]
  <2>4. \A j \in 0 .. k + 1 : j = k + 1 \/ j \in 0 .. k
    OBVIOUS
  <2>5. k \in 0 .. k /\ step[f[k]] \in V
    BY <2>3
  <2>6. g \in [0 .. k + 1 -> V]
    BY <2>3, <2>4, <2>5
  <2>7. \A j \in 0 .. k : g[j] = f[j]
    OBVIOUS
  <2>8. g[k + 1] = step[f[k]]
    OBVIOUS
  <2> HIDE DEF g
  <2>9. ASSUME NEW j \in 0 .. k + 1 PROVE g[j] = IF j = 0 THEN base ELSE step[g[j - 1]]
    <3>1. CASE j = k + 1
      <4>1. j # 0 /\ j - 1 = k
        BY <3>1
      <4>2. QED
        BY <2>5, <2>7, <2>8, <3>1, <4>1
    <3>2. CASE j \in 0 .. k
      <4>1. j # 0 => j - 1 \in 0 .. k
        BY <3>2
      <4>2. QED
        BY <2>3, <2>7, <3>2, <4>1
    <3>3. QED
      BY <2>4, <3>1, <3>2
  <2>10. g = [j \in 0 .. k + 1 |-> IF j = 0 THEN base ELSE step[g[j - 1]]]
    BY <2>6, <2>9
  <2>11. g \in ChainsOf(V, base, step, k + 1)
    BY <2>6, <2>10 DEF ChainsOf
  <2>12. QED
    BY <2>11
<1> HIDE DEF T
<1>3. n \in T
  BY <1>1, <1>2, Induction
<1>4. QED
  BY <1>3 DEF T

\* The loop ends, and what it leaves is a beginning of the string whose last byte
\* is not in the cutset, while all bytes after it are (common.cpp:571-589).
LEMMA AllPasses ==
  ASSUME NEW s \in Seq(Nat), NEW q \in Seq(Nat)
  PROVE  \E l \in 0 .. Len(s) :
           /\ trim_right(s, q) = SubSeq(s, 1, l)
           /\ \A i \in l + 1 .. Len(s) : s[i] \in ToSet(q)
           /\ l # 0 => s[l] \notin ToSet(q)
<1>1. PICK K \in Nat : K = Len(s)
  BY LenProperties
<1> DEFINE V == Seq(Nat)
           F(f) == [n \in 0 .. K + 1 |-> IF n = 0 THEN s ELSE CutAll(f[n - 1], q)]
           passes == CHOOSE f : f = F(f)
           Ends(n) == /\ Len(passes[n]) = Len(passes[n - 1])
                      /\ \A m \in 1 .. n - 1 : Len(passes[m]) # Len(passes[m - 1])
           last == CHOOSE n \in 1 .. K + 1 : Ends(n)
<1>2. trim_right(s, q) = passes[last]
  BY <1>1 DEF trim_right
<1>3. passes = F(passes)
  <2> DEFINE step == [v \in V |-> CutAll(v, q)]
  <2>1. step \in [V -> V]
    <3>1. \A v \in V : CutAll(v, q) \in V
      <4> SUFFICES ASSUME NEW v \in V PROVE CutAll(v, q) \in V
        OBVIOUS
      <4>1. PICK l \in 0 .. Len(v) : CutAll(v, q) = SubSeq(v, 1, l)
        BY OnePass
      <4>2. QED
        BY <4>1, Beginning
    <3>2. QED
      BY <3>1
  <2>2. \A v \in V : step[v] = CutAll(v, q)
    OBVIOUS
  <2>3. s \in V /\ K + 1 \in Nat
    OBVIOUS
  <2> HIDE DEF V, step
  <2>4. PICK f : f \in ChainsOf(V, s, step, K + 1)
    BY <2>1, <2>3, ChainExists
  <2>5. f \in [0 .. K + 1 -> V]
        /\ f = [k \in 0 .. K + 1 |-> IF k = 0 THEN s ELSE step[f[k - 1]]]
    BY <2>4 DEF ChainsOf
  <2>6. \A k \in 0 .. K + 1 : k # 0 => f[k - 1] \in V
    <3>1. \A k \in 0 .. K + 1 : k # 0 => k - 1 \in 0 .. K + 1
      OBVIOUS
    <3>2. QED
      BY <2>5, <3>1
  <2>7. f = F(f)
    BY <2>2, <2>5, <2>6
  <2>8. QED
    BY <2>7
<1> HIDE DEF passes
<1>4. passes[0] = s
  BY <1>3
<1>5. \A n \in 0 .. K : passes[n + 1] = CutAll(passes[n], q)
  <2> SUFFICES ASSUME NEW n \in 0 .. K PROVE passes[n + 1] = CutAll(passes[n], q)
    OBVIOUS
  <2>1. n + 1 \in 0 .. K + 1 /\ n + 1 # 0 /\ n + 1 - 1 = n
    OBVIOUS
  <2>2. QED
    BY <1>3, <2>1
<1> HIDE DEF F
<1> DEFINE Left(n, l) ==
             /\ passes[n] = SubSeq(s, 1, l)
             /\ \A i \in l + 1 .. K : s[i] \in ToSet(q)
           T == {n \in Nat : n <= K + 1 => \E l \in 0 .. K : Left(n, l)}
<1>6. \A n \in 0 .. K, l \in 0 .. K : Left(n, l) =>
         \E m \in 0 .. l : Left(n + 1, m) /\ (m = l /\ l # 0 => s[l] \notin ToSet(q))
  <2> SUFFICES ASSUME NEW n \in 0 .. K, NEW l \in 0 .. K, Left(n, l)
               PROVE  \E m \in 0 .. l :
                        Left(n + 1, m) /\ (m = l /\ l # 0 => s[l] \notin ToSet(q))
    BY Zenon
  <2>1. PICK m \in 0 .. l :
           /\ CutAll(SubSeq(s, 1, l), q) = SubSeq(s, 1, m)
           /\ \A i \in m + 1 .. K : s[i] \in ToSet(q)
           /\ m = l /\ l # 0 => s[l] \notin ToSet(q)
    <3>1. l \in 0 .. Len(s) /\ \A i \in l + 1 .. Len(s) : s[i] \in ToSet(q)
      BY <1>1
    <3>2. \E m \in 0 .. l :
             /\ CutAll(SubSeq(s, 1, l), q) = SubSeq(s, 1, m)
             /\ \A i \in m + 1 .. Len(s) : s[i] \in ToSet(q)
             /\ m = l /\ l # 0 => s[l] \notin ToSet(q)
      BY <3>1, NextPass
    <3>3. QED
      BY <1>1, <3>2
  <2>2. Left(n + 1, m)
    BY <1>5, <2>1
  <2>3. QED
    BY <2>1, <2>2
<1>7. 0 \in T
  <2>1. SubSeq(s, 1, K) = s
    BY <1>1, SubSeqFull
  <2>2. K \in 0 .. K /\ \A i \in K + 1 .. K : FALSE
    OBVIOUS
  <2>3. Left(0, K)
    BY <1>4, <2>1, <2>2
  <2> HIDE DEF Left
  <2>4. QED
    BY <2>2, <2>3
<1>8. ASSUME NEW n \in Nat, n \in T PROVE n + 1 \in T
  <2> HIDE DEF Left
  <2> SUFFICES ASSUME n + 1 <= K + 1 PROVE \E l \in 0 .. K : Left(n + 1, l)
    OBVIOUS
  <2>1. n \in 0 .. K /\ n <= K + 1
    OBVIOUS
  <2>2. PICK l \in 0 .. K : Left(n, l)
    BY <1>8, <2>1
  <2>3. PICK m \in 0 .. l : Left(n + 1, m)
    BY <1>6, <2>1, <2>2
  <2>4. m \in 0 .. K
    OBVIOUS
  <2>5. QED
    BY <2>3, <2>4
<1>9. \A n \in 0 .. K + 1 : \E l \in 0 .. K : Left(n, l)
  <2> HIDE DEF Left
  <2>1. Nat \subseteq T
    <3> HIDE DEF T
    <3>1. QED
      BY <1>7, <1>8, Induction
  <2>2. \A n \in 0 .. K + 1 : n \in T /\ n <= K + 1
    BY <2>1
  <2> SUFFICES ASSUME NEW n \in 0 .. K + 1 PROVE \E l \in 0 .. K : Left(n, l)
    BY Zenon
  <2>3. QED
    BY <2>2
<1>10. \A n \in 0 .. K + 1, l \in 0 .. K : Left(n, l) => Len(passes[n]) = l
  BY <1>1, Beginning
<1> HIDE DEF T
\* The string cannot get shorter with every pass.
<1> DEFINE Stops == {n \in 1 .. K + 1 : Len(passes[n]) = Len(passes[n - 1])}
<1>11. Stops # {}
  <2> SUFFICES ASSUME \A n \in 1 .. K + 1 : Len(passes[n]) # Len(passes[n - 1]) PROVE FALSE
    OBVIOUS
  <2> DEFINE U == {n \in Nat : n <= K + 1 => Len(passes[n]) <= K - n}
  <2> HIDE DEF Left
  <2>1. 0 \in U
    BY <1>1, <1>4
  <2>2. ASSUME NEW n \in Nat, n \in U PROVE n + 1 \in U
    <3> SUFFICES ASSUME n + 1 <= K + 1 PROVE Len(passes[n + 1]) <= K - (n + 1)
      OBVIOUS
    <3>1. n \in 0 .. K /\ n \in 0 .. K + 1 /\ n + 1 \in 0 .. K + 1
          /\ n + 1 \in 1 .. K + 1 /\ n + 1 - 1 = n
      OBVIOUS
    <3>2. PICK l \in 0 .. K : Left(n, l)
      BY <1>9, <3>1
    <3>3. PICK m \in 0 .. l : Left(n + 1, m)
      BY <1>6, <3>1, <3>2
    <3>4. m \in 0 .. K
      OBVIOUS
    <3>5. Len(passes[n]) = l /\ Len(passes[n + 1]) = m
      BY <1>10, <3>1, <3>2, <3>3, <3>4
    <3>6. m # l
      BY <3>1, <3>5
    <3>7. l <= K - n
      BY <2>2, <3>1, <3>5
    <3>8. QED
      BY <3>1, <3>5, <3>6, <3>7
  <2> HIDE DEF U
  <2>3. Nat \subseteq U
    BY <2>1, <2>2, Induction
  <2>4. Len(passes[K + 1]) <= K - (K + 1)
    <3>1. K + 1 \in Nat /\ K + 1 <= K + 1
      OBVIOUS
    <3>2. QED
      BY <2>3, <3>1 DEF U
  <2>5. K + 1 \in 0 .. K + 1
    OBVIOUS
  <2>6. PICK l \in 0 .. K : Left(K + 1, l)
    BY <1>9, <2>5
  <2>7. Len(passes[K + 1]) = l
    BY <1>10, <2>5, <2>6
  <2>8. QED
    BY <2>4, <2>7
<1>12. PICK n \in Stops : \A m \in Stops : n <= m
  <2>1. Stops \in SUBSET Nat
    OBVIOUS
  <2> HIDE DEF Stops
  <2>2. QED
    BY <1>11, <2>1, Least
<1>13. Ends(n)
  <2>1. \A m \in 1 .. n - 1 : m \in 1 .. K + 1 /\ ~(n <= m)
    BY <1>12
  <2>2. QED
    BY <1>12, <2>1
<1>14. last \in 1 .. K + 1 /\ Ends(last)
  <2>1. n \in 1 .. K + 1
    BY <1>12
  <2> HIDE DEF Ends
  <2>2. QED
    BY <1>13, <2>1
<1> HIDE DEF last, Left
<1>15. PICK p \in 0 .. K : p + 1 = last
  <2>1. last - 1 \in 0 .. K /\ last - 1 + 1 = last
    BY <1>14
  <2>2. QED
    BY <2>1
<1>16. Len(passes[p + 1]) = Len(passes[p]) /\ p \in 0 .. K + 1 /\ p + 1 \in 0 .. K + 1
  <2>1. last - 1 = p
    BY <1>15
  <2>2. QED
    BY <1>14, <1>15, <2>1
<1>17. PICK l \in 0 .. K : Left(p, l)
  BY <1>9, <1>16
<1>18. PICK m \in 0 .. l : Left(p + 1, m) /\ (m = l /\ l # 0 => s[l] \notin ToSet(q))
  BY <1>6, <1>17
<1>19. m \in 0 .. K
  OBVIOUS
<1>20. m = l
  BY <1>10, <1>16, <1>17, <1>18, <1>19
<1>21. trim_right(s, q) = SubSeq(s, 1, l) /\ \A i \in l + 1 .. K : s[i] \in ToSet(q)
  BY <1>2, <1>15, <1>18, <1>20 DEF Left
<1>22. QED
  BY <1>1, <1>18, <1>20, <1>21

\* trim_right cuts every trailing byte that is in the cutset and nothing else,
\* although a pass cuts at most one byte for each byte of the cutset and the order
\* of these matters to it: for strings of any length (common.cpp:573-588).
THEOREM TrimsAllHolds == Inputs => []TrimsAll
<1>1. TwoStrings => TrimsAll
  <2> SUFFICES ASSUME TwoStrings PROVE TrimsAll
    OBVIOUS
  <2> DEFINE res == trim_right(str, arg)
  <2>1. str \in Seq(Nat) /\ arg \in Seq(Nat)
    BY Bytes DEF TwoStrings
  <2>2. PICK l \in 0 .. Len(str) :
           /\ res = SubSeq(str, 1, l)
           /\ \A i \in l + 1 .. Len(str) : str[i] \in ToSet(arg)
           /\ l # 0 => str[l] \notin ToSet(arg)
    BY <2>1, AllPasses
  <2> HIDE DEF res
  <2>3. PICK K \in Nat : K = Len(str)
    BY <2>1, LenProperties
  <2>4. l \in Nat /\ l <= K
    BY <2>3
  <2>5. res \in Seq(Nat) /\ Len(res) = l /\ \A i \in 1 .. l : res[i] = str[i]
    BY <2>1, <2>2, Beginning
  <2>6. IsPrefix(res, str)
    <3>1. SubSeq(res, 1, Len(res)) = res
      BY <2>5, SubSeqFull
    <3>2. QED
      BY <2>2, <2>3, <2>4, <2>5, <3>1 DEF IsPrefix
  <2>7. res # <<>> => l # 0 /\ l \in 1 .. l
    BY <2>4, <2>5, EmptySeq
  <2>8. res # <<>> => Last(res) \notin ToSet(arg)
    BY <2>2, <2>5, <2>7 DEF Last
  <2>9. QED
    BY <2>2, <2>5, <2>6, <2>8 DEF TrimsAll, res, ToSet
<1>2. QED
  BY <1>1, InputsAreStrings, PTL

-----------------------------------------------------------------------------
(* url_encode.                                                              *)

\* The hexadecimal digits of a byte are read back.
LEMMA DigitsBack ==
  ASSUME NEW c \in 16 .. 255
  PROVE  /\ HexDigit(c \div 16) \in Nat /\ HexDigit(c % 16) \in Nat
         /\ 16 * HexValue(HexDigit(c \div 16)) + HexValue(HexDigit(c % 16)) = c
<1>1. PICK a \in 0 .. 15 : a = c \div 16
  OBVIOUS
<1>2. PICK b \in 0 .. 15 : b = c % 16
  OBVIOUS
<1>3. 16 * (c \div 16) + (c % 16) = c
  OBVIOUS
<1>4. \A d \in 0 .. 15 : HexDigit(d) \in Nat /\ HexValue(HexDigit(d)) = d
  BY DEF HexDigit, HexValue
<1>5. QED
  BY <1>1, <1>2, <1>3, <1>4

\* How a byte is written: as itself, which is not the percent sign, or as the
\* percent sign and two digits (common.cpp:312-329).
LEMMA ByteEncoded ==
  ASSUME NEW c \in 16 .. 255
  PROVE  /\ EncodeByte(c) \in Seq(Nat)
         /\ \/ EncodeByte(c) = <<c>> /\ c # Percent
            \/ EncodeByte(c) = <<Percent, HexDigit(c \div 16), HexDigit(c % 16)>>
<1>1. c \in Nat /\ ~(c < 16)
  OBVIOUS
<1>2. Percent \in Nat /\ ~IsUnreserved(Percent)
  BY DEF Percent, IsUnreserved
<1>3. CASE IsUnreserved(c)
  BY <1>1, <1>2, <1>3 DEF EncodeByte
<1>4. CASE ~IsUnreserved(c)
  <2>1. EncodeByte(c) = <<Percent, HexDigit(c \div 16), HexDigit(c % 16)>>
    BY <1>1, <1>4 DEF EncodeByte, Escape
  <2>2. QED
    BY <1>2, <2>1, DigitsBack
<1>5. QED
  BY <1>3, <1>4

\* What is written after each of the n bytes of a text.
EncodeSteps(s, n) ==
  {h \in [0 .. n -> Seq(Nat)] :
     /\ h[0] = <<>> /\ h[n] = url_encode(s)
     /\ \A k \in 1 .. n : h[k] = h[k - 1] \o EncodeByte(s[k])}

\* url_encode writes one byte after the other (common.cpp:312-329).
LEMMA UrlEncodeSteps ==
  ASSUME NEW s \in Seq(Nat), NEW n \in Nat, n = Len(s), \A i \in 1 .. n : s[i] \in 16 .. 255
  PROVE  \E h : h \in EncodeSteps(s, n)
<1> DEFINE V == Seq(Nat)
           step == [v \in V |-> [k \in 1 .. n |-> v \o EncodeByte(s[k])]]
           F(f) == [x \in SUBSET (1 .. n) |->
                      IF x = {} THEN <<>> ELSE f[x \ {Max(x)}] \o EncodeByte(s[Max(x)])]
           iter == CHOOSE f : f = F(f)
           h == [k \in 0 .. n |-> iter[1 .. k]]
<1>1. DOMAIN s = 1 .. n
  BY LenProperties
<1>2. url_encode(s) = iter[1 .. n]
  BY <1>1 DEF url_encode, FoldLeft, MapThenFoldSet
<1>3. \A v \in V, k \in 1 .. n : v \o EncodeByte(s[k]) \in V
  <2> SUFFICES ASSUME NEW v \in V, NEW k \in 1 .. n PROVE v \o EncodeByte(s[k]) \in V
    OBVIOUS
  <2>1. EncodeByte(s[k]) \in Seq(Nat)
    BY ByteEncoded
  <2>2. QED
    BY <2>1, Concat
<1>4. step \in [V -> [1 .. n -> V]]
  BY <1>3
<1>5. \A v \in V, k \in 1 .. n : step[v][k] = v \o EncodeByte(s[k])
  OBVIOUS
<1> HIDE DEF step
<1>6. PICK g \in [SUBSET (1 .. n) -> V] : \A x \in SUBSET (1 .. n) :
         g[x] = IF x = {} THEN <<>> ELSE step[g[x \ {Max(x)}]][Max(x)]
  <2>1. <<>> \in V
    BY EmptySeq
  <2> HIDE DEF V
  <2>2. PICK g : g \in FoldsOf(V, <<>>, step, n)
    BY <1>4, <2>1, FoldExists
  <2>3. QED
    BY <2>2 DEF FoldsOf
<1>7. \A x \in SUBSET (1 .. n) :
         g[x] = IF x = {} THEN <<>> ELSE g[x \ {Max(x)}] \o EncodeByte(s[Max(x)])
  <2> SUFFICES ASSUME NEW x \in SUBSET (1 .. n), x # {}
               PROVE  g[x] = g[x \ {Max(x)}] \o EncodeByte(s[Max(x)])
    BY <1>6
  <2>1. Max(x) \in 1 .. n
    BY Greatest
  <2>2. x \ {Max(x)} \in SUBSET (1 .. n)
    OBVIOUS
  <2>3. g[x \ {Max(x)}] \in V
    BY <2>2
  <2>4. g[x] = step[g[x \ {Max(x)}]][Max(x)]
    BY <1>6
  <2> HIDE DEF V
  <2>5. QED
    BY <1>5, <2>1, <2>3, <2>4
<1>8. g = F(g)
  BY <1>7
<1> HIDE DEF F
<1>9. iter = F(iter)
  BY <1>8
<1> HIDE DEF iter
<1>10. h[0] = <<>>
  <2>1. 1 .. 0 = {} /\ {} \in SUBSET (1 .. n)
    OBVIOUS
  <2>2. iter[{}] = <<>>
    BY <1>9, <2>1 DEF F
  <2>3. QED
    BY <2>1, <2>2
<1>11. \A k \in 1 .. n : h[k] = h[k - 1] \o EncodeByte(s[k])
  <2> SUFFICES ASSUME NEW k \in 1 .. n
               PROVE  h[k] = h[k - 1] \o EncodeByte(s[k])
    OBVIOUS
  <2>1. 1 .. k # {} /\ Max(1 .. k) = k /\ (1 .. k) \ {k} = 1 .. k - 1
    <3>1. k \in Nat /\ k # 0
      OBVIOUS
    <3>2. QED
      BY <3>1, UpTo
  <2>2. 1 .. k \in SUBSET (1 .. n)
    OBVIOUS
  <2>3. iter[1 .. k] = IF 1 .. k = {} THEN <<>>
                        ELSE iter[(1 .. k) \ {Max(1 .. k)}] \o EncodeByte(s[Max(1 .. k)])
    BY <1>9, <2>2 DEF F
  <2>4. iter[1 .. k] = iter[1 .. k - 1] \o EncodeByte(s[k])
    BY <2>1, <2>3
  <2>5. h[k] = iter[1 .. k] /\ h[k - 1] = iter[1 .. k - 1]
    <3>1. k \in 0 .. n /\ k - 1 \in 0 .. n
      OBVIOUS
    <3>2. QED
      BY <3>1
  <2> HIDE DEF h
  <2>6. QED
    BY <2>4, <2>5
<1> DEFINE T == {k \in Nat : k <= n => h[k] \in V}
<1> HIDE DEF h
<1>12. 0 \in T
  BY <1>10, EmptySeq
<1>13. ASSUME NEW k \in Nat, k \in T PROVE k + 1 \in T
  <2> SUFFICES ASSUME k + 1 <= n PROVE h[k + 1] \in V
    OBVIOUS
  <2>1. h[k] \in V
    BY <1>13
  <2>2. k + 1 \in 1 .. n /\ k + 1 - 1 = k
    OBVIOUS
  <2>3. h[k + 1] = h[k] \o EncodeByte(s[k + 1])
    <3>1. PICK j \in 1 .. n : j = k + 1 /\ j - 1 = k
      BY <2>2
    <3>2. h[j] = h[j - 1] \o EncodeByte(s[j])
      BY <1>11
    <3>3. QED
      BY <3>1, <3>2
  <2>4. QED
    BY <1>3, <2>1, <2>2, <2>3
<1>14. \A k \in 0 .. n : h[k] \in V
  <2> HIDE DEF T
  <2>1. Nat \subseteq T
    BY <1>12, <1>13, Induction
  <2>2. QED
    BY <2>1 DEF T
<1>15. h \in [0 .. n -> Seq(Nat)] /\ h[n] = url_encode(s)
  BY <1>2, <1>14 DEF h
<1> HIDE DEF h
<1>16. QED
  BY <1>10, <1>11, <1>15 DEF EncodeSteps

\* What a server reads of a text from the place i, when f is what it reads from
\* the places after it.
ReadFrom(enc, f, i) ==
  IF i > Len(enc) THEN <<>>
  ELSE IF enc[i] # Percent THEN <<enc[i]>> \o f[i + 1]
  ELSE IF i + 2 > Len(enc) THEN Throws
  ELSE <<16 * HexValue(enc[i + 1]) + HexValue(enc[i + 2])>> \o f[i + 3]

\* f is what it reads from each of the last k places and after the end.
IsReader(enc, k, f) ==
  f = [i \in Len(enc) + 1 - k .. Len(enc) + 1 |-> ReadFrom(enc, f, i)]

\* It reads something.
LEMMA ReaderExists ==
  ASSUME NEW enc, NEW N \in Nat, N = Len(enc)
  PROVE  \E f : f = [i \in 1 .. N + 1 |-> ReadFrom(enc, f, i)]
<1> DEFINE T == {k \in Nat : k <= N => \E f : IsReader(enc, k, f)}
<1>1. 0 \in T
  <2> DEFINE f == [i \in N + 1 .. N + 1 |-> <<>>]
  <2>1. \A i \in N + 1 .. N + 1 : ReadFrom(enc, f, i) = <<>>
    BY DEF ReadFrom
  <2>2. N + 1 - 0 = N + 1
    OBVIOUS
  <2>3. f = [i \in N + 1 .. N + 1 |-> ReadFrom(enc, f, i)]
    BY <2>1
  <2> HIDE DEF f
  <2>4. IsReader(enc, 0, f)
    BY <2>2, <2>3 DEF IsReader
  <2>5. QED
    BY <2>4
<1>2. ASSUME NEW k \in Nat, k \in T PROVE k + 1 \in T
  <2> SUFFICES ASSUME k + 1 <= N PROVE \E f : IsReader(enc, k + 1, f)
    <3>1. k + 1 \in Nat
      OBVIOUS
    <3>2. QED
      BY <3>1, Zenon
  <2>1. k <= N
    OBVIOUS
  <2>2. PICK f : IsReader(enc, k, f)
    BY <1>2, <2>1
  <2>3. PICK a \in Nat : a = N - k /\ a # 0
    <3>1. N - k \in Nat /\ N - k # 0
      OBVIOUS
    <3>2. QED
      BY <3>1
  <2>4. N + 1 - k = a + 1 /\ N + 1 - (k + 1) = a
    BY <2>3
  <2>5. f = [i \in a + 1 .. N + 1 |-> ReadFrom(enc, f, i)]
    BY <2>2, <2>4 DEF IsReader
  <2>6. \A i \in a + 1 .. N + 1 : f[i] = ReadFrom(enc, f, i)
    BY <2>5
  <2> DEFINE g == [i \in a .. N + 1 |-> IF i = a THEN ReadFrom(enc, f, a) ELSE f[i]]
  <2>7. g[a] = ReadFrom(enc, f, a)
    BY <2>3
  <2>8. \A i \in a + 1 .. N + 1 : g[i] = f[i]
    BY <2>3
  <2> HIDE DEF g
  <2>9. ASSUME NEW i \in a .. N + 1 PROVE ReadFrom(enc, g, i) = ReadFrom(enc, f, i)
    <3>1. i <= N => i + 1 \in a + 1 .. N + 1
      BY <2>3
    <3>2. i + 2 <= N => i + 3 \in a + 1 .. N + 1
      BY <2>3
    <3>3. i <= N => g[i + 1] = f[i + 1]
      BY <2>8, <3>1
    <3>4. i + 2 <= N => g[i + 3] = f[i + 3]
      BY <2>8, <3>2
    <3>5. /\ i > N <=> ~(i <= N)
          /\ i + 2 > N <=> ~(i + 2 <= N)
      BY <2>3
    <3>6. QED
      BY <3>3, <3>4, <3>5 DEF ReadFrom
  <2>10. \A i \in a .. N + 1 : i = a \/ i \in a + 1 .. N + 1
    BY <2>3
  <2>11. \A i \in a .. N + 1 : g[i] = ReadFrom(enc, g, i)
    BY <2>6, <2>7, <2>8, <2>9, <2>10
  <2>12. g = [i \in a .. N + 1 |-> ReadFrom(enc, g, i)]
    <3>1. g = [i \in a .. N + 1 |-> g[i]]
      BY DEF g
    <3>2. QED
      BY <2>11, <3>1
  <2>13. IsReader(enc, k + 1, g)
    BY <2>4, <2>12 DEF IsReader
  <2>14. QED
    BY <2>13
<1> HIDE DEF T
<1>3. Nat \subseteq T
  BY <1>1, <1>2, Induction
<1>4. PICK f : IsReader(enc, N, f)
  <2>1. N <= N
    OBVIOUS
  <2>2. QED
    BY <1>3, <2>1 DEF T
<1>5. N + 1 - N = 1
  OBVIOUS
<1>6. QED
  BY <1>4, <1>5 DEF IsReader

\* What is decoded is what is read from the first place.
LEMMA DecodedRead ==
  ASSUME NEW enc, NEW N \in Nat, N = Len(enc)
  PROVE  \E f : Decoded(enc) = f[1] /\ \A i \in 1 .. N + 1 : f[i] = ReadFrom(enc, f, i)
<1> DEFINE from == CHOOSE f : f = [i \in 1 .. N + 1 |-> ReadFrom(enc, f, i)]
<1>1. Decoded(enc) = from[1]
  BY DEF Decoded, ReadFrom
<1>2. from = [i \in 1 .. N + 1 |-> ReadFrom(enc, from, i)]
  BY ReaderExists
<1> HIDE DEF from
<1>3. \A i \in 1 .. N + 1 : from[i] = ReadFrom(enc, from, i)
  BY <1>2
<1>4. QED
  BY <1>1, <1>3

\* The server decodes what url_encode has made of a text without a byte below 16,
\* however long it is (common.cpp:325).
LEMMA EncodedIsDecoded ==
  ASSUME NEW s \in Seq(Nat), \A i \in 1 .. Len(s) : s[i] \in 16 .. 255
  PROVE  Decoded(url_encode(s)) = s
<1> DEFINE enc == url_encode(s)
<1>1. PICK n \in Nat : n = Len(s)
  BY LenProperties
<1>2. \A i \in 1 .. n : s[i] \in 16 .. 255
  BY <1>1
<1>3. PICK h \in [0 .. n -> Seq(Nat)] :
         /\ h[0] = <<>> /\ h[n] = enc
         /\ \A k \in 1 .. n : h[k] = h[k - 1] \o EncodeByte(s[k])
  <2>1. PICK h : h \in EncodeSteps(s, n)
    BY <1>1, <1>2, UrlEncodeSteps
  <2>2. QED
    BY <2>1 DEF EncodeSteps
<1> HIDE DEF enc
<1>4. enc \in Seq(Nat)
  <2>1. n \in 0 .. n
    OBVIOUS
  <2>2. QED
    BY <1>3, <2>1
<1>5. PICK N \in Nat : N = Len(enc)
  BY <1>4, LenProperties
<1>6. PICK f : Decoded(enc) = f[1] /\ \A i \in 1 .. N + 1 : f[i] = ReadFrom(enc, f, i)
  BY <1>5, DecodedRead
<1> DEFINE Rest(k) == SubSeq(s, k + 1, n)
           Back(k) == /\ Len(h[k]) <= N
                      /\ \A i \in 1 .. Len(h[k]) : enc[i] = h[k][i]
                      /\ f[Len(h[k]) + 1] = Rest(k)
           T == {d \in Nat : d <= n => Back(n - d)}
<1>7. Back(n)
  <2>1. N + 1 \in 1 .. N + 1 /\ N + 1 > N
    OBVIOUS
  <2>2. f[N + 1] = <<>>
    BY <1>5, <1>6, <2>1 DEF ReadFrom
  <2>3. n + 1 \in Int /\ n \in Int /\ n < n + 1
    OBVIOUS
  <2>4. Rest(n) = <<>>
    BY <2>3, SubSeqEmpty
  <2> HIDE DEF Rest
  <2>5. QED
    BY <1>3, <1>5, <2>2, <2>4
<1>8. ASSUME NEW k \in 1 .. n, Back(k) PROVE Back(k - 1)
  <2> DEFINE c == s[k]
             e == EncodeByte(c)
             b == h[k - 1]
  <2>1. c \in 16 .. 255 /\ k - 1 \in 0 .. n /\ k \in 0 .. n
    BY <1>2
  <2>2. /\ e \in Seq(Nat)
        /\ \/ e = <<c>> /\ c # Percent
           \/ e = <<Percent, HexDigit(c \div 16), HexDigit(c % 16)>>
    BY <2>1, ByteEncoded
  <2>3. b \in Seq(Nat) /\ h[k] \in Seq(Nat)
    BY <1>3, <2>1
  <2>4. h[k] = b \o e
    BY <1>3
  <2>5. Rest(k - 1) = <<c>> \o Rest(k)
    <3>1. k \in 1 .. Len(s) /\ n \in k .. Len(s) /\ k - 1 + 1 = k
      BY <1>1
    <3>2. SubSeq(s, k, n) = <<s[k]>> \o SubSeq(s, k + 1, n)
      BY <3>1, SubSeqRecursiveFirst
    <3>3. QED
      BY <3>1, <3>2
  <2>6. PICK B \in Nat : B = Len(b)
    BY <2>3, LenProperties
  <2>7. PICK E \in Nat : E = Len(e)
    BY <2>2, LenProperties
  <2> HIDE DEF Rest, b, e, c
  <2>8. /\ Len(h[k]) = B + E
        /\ \A i \in 1 .. B : h[k][i] = b[i]
        /\ \A i \in 1 .. E : h[k][B + i] = e[i]
    BY <2>2, <2>3, <2>4, <2>6, <2>7, Concat
  <2>9. B + E <= N /\ f[B + E + 1] = Rest(k) /\ \A i \in 1 .. B + E : enc[i] = h[k][i]
    BY <1>8, <2>8
  <2>10. B <= N
    BY <2>9
  <2>11. \A i \in 1 .. B : enc[i] = b[i]
    <3>1. \A i \in 1 .. B : i \in 1 .. B + E
      OBVIOUS
    <3>2. QED
      BY <2>8, <2>9, <3>1
  <2>12. \A i \in 1 .. E : enc[B + i] = e[i]
    <3>1. \A i \in 1 .. E : B + i \in 1 .. B + E
      OBVIOUS
    <3>2. QED
      BY <2>8, <2>9, <3>1
  <2>13. f[B + 1] = <<c>> \o Rest(k)
    <3>1. CASE e = <<c>> /\ c # Percent
      <4>1. E = 1 /\ e[1] = c
        BY <2>7, <3>1
      <4>2. B + 1 \in 1 .. N + 1 /\ ~(B + 1 > N) /\ 1 \in 1 .. E /\ B + E + 1 = B + 1 + 1
        BY <2>9, <4>1
      <4>3. enc[B + 1] = c
        BY <2>12, <4>1, <4>2
      <4>4. f[B + 1] = <<enc[B + 1]>> \o f[B + 1 + 1]
        BY <1>5, <1>6, <3>1, <4>2, <4>3 DEF ReadFrom
      <4>5. QED
        BY <2>9, <4>2, <4>3, <4>4
    <3>2. CASE e = <<Percent, HexDigit(c \div 16), HexDigit(c % 16)>>
      <4>1. E = 3 /\ e[1] = Percent /\ e[2] = HexDigit(c \div 16) /\ e[3] = HexDigit(c % 16)
        BY <2>7, <3>2
      <4>2. /\ B + 1 \in 1 .. N + 1 /\ ~(B + 1 > N) /\ ~(B + 1 + 2 > N)
            /\ B + E + 1 = B + 1 + 3 /\ 1 \in 1 .. E /\ 2 \in 1 .. E /\ 3 \in 1 .. E
            /\ B + 1 + 1 = B + 2 /\ B + 1 + 2 = B + 3
        BY <2>9, <4>1
      <4>3. /\ enc[B + 1] = Percent /\ enc[B + 1 + 1] = HexDigit(c \div 16)
            /\ enc[B + 1 + 2] = HexDigit(c % 16)
        BY <2>12, <4>1, <4>2
      <4>4. f[B + 1] = <<16 * HexValue(enc[B + 1 + 1]) + HexValue(enc[B + 1 + 2])>> \o f[B + 1 + 3]
        BY <1>5, <1>6, <4>2, <4>3 DEF ReadFrom
      <4>5. 16 * HexValue(enc[B + 1 + 1]) + HexValue(enc[B + 1 + 2]) = c
        BY <2>1, <4>3, DigitsBack
      <4>6. f[B + 1 + 3] = Rest(k)
        BY <2>9, <4>2
      <4>7. QED
        BY <4>4, <4>5, <4>6
    <3>3. QED
      BY <2>2, <3>1, <3>2
  <2>14. QED
    BY <2>5, <2>6, <2>10, <2>11, <2>13 DEF b
<1> HIDE DEF Back
<1>9. 0 \in T
  <2>1. n - 0 = n
    OBVIOUS
  <2>2. QED
    BY <1>7, <2>1
<1>10. ASSUME NEW d \in Nat, d \in T PROVE d + 1 \in T
  <2> SUFFICES ASSUME d + 1 <= n PROVE Back(n - (d + 1))
    OBVIOUS
  <2>1. d <= n
    OBVIOUS
  <2>2. Back(n - d)
    BY <1>10, <2>1
  <2>3. PICK k \in 1 .. n : k = n - d /\ k - 1 = n - (d + 1)
    <3>1. n - d \in 1 .. n /\ n - d - 1 = n - (d + 1)
      OBVIOUS
    <3>2. QED
      BY <3>1
  <2>4. Back(k)
    BY <2>2, <2>3
  <2>5. Back(k - 1)
    BY <1>8, <2>4
  <2>6. QED
    BY <2>3, <2>5
<1>11. Back(0)
  <2> HIDE DEF T
  <2>1. n \in T
    BY <1>9, <1>10, Induction
  <2>2. n <= n /\ n - n = 0
    OBVIOUS
  <2>3. Back(n - n)
    BY <2>1, <2>2 DEF T
  <2>4. QED
    BY <2>2, <2>3
<1>12. Len(h[0]) + 1 = 1
  BY <1>3, EmptySeq
<1>13. Rest(0) = s
  BY <1>1, SubSeqFull
<1>14. QED
  BY <1>6, <1>11, <1>12, <1>13 DEF Back, enc

\* The server decodes what url_encode has made of a text, unless the text has a
\* byte below 16, which is written with one digit and takes the byte after it with
\* it: for texts of any length (common.cpp:325).
THEOREM DecodesBackHolds == Inputs => []DecodesBack
<1>1. TwoStrings => DecodesBack
  <2> SUFFICES ASSUME TwoStrings, \A i \in DOMAIN str : str[i] >= 16
               PROVE  Decoded(url_encode(str)) = str
    BY DEF DecodesBack
  <2>1. str \in Seq(Nat) /\ \A i \in 1 .. Len(str) : str[i] \in 1 .. 255
    BY Bytes DEF TwoStrings
  <2>2. DOMAIN str = 1 .. Len(str)
    BY <2>1, LenProperties
  <2>3. \A i \in 1 .. Len(str) : str[i] \in 16 .. 255
    <3>1. \A c \in 1 .. 255 : c >= 16 => c \in 16 .. 255
      OBVIOUS
    <3>2. QED
      BY <2>1, <2>2, <3>1
  <2>4. QED
    BY <2>1, <2>3, EncodedIsDecoded
<1>2. QED
  BY <1>1, InputsAreStrings, PTL
=============================================================================
