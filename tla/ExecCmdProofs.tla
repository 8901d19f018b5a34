---------------------------- MODULE ExecCmdProofs ----------------------------
(***************************************************************************)
(* Proofs about ExecCmd for any sizes of the buffer, of the pipe and of    *)
(* the digest, any output and any messages.                                *)
(***************************************************************************)
EXTENDS ExecCmd, SequenceTheorems, FiniteSetTheorems, TLAPS

-----------------------------------------------------------------------------
(* Sequences.                                                               *)

\* A prefix, element by element.
LEMMA PrefixElements ==
  ASSUME NEW S, NEW s \in Seq(S), NEW t \in Seq(S)
  PROVE  IsPrefix(s, t) <=> Len(s) <= Len(t) /\ \A i \in 1 .. Len(s) : s[i] = t[i]
<1>1. SubSeq(s, 1, Len(s)) = s
  BY SubSeqFull
<1>2. ASSUME Len(s) <= Len(t)
      PROVE  /\ SubSeq(t, 1, Len(s)) \in Seq(S)
             /\ Len(SubSeq(t, 1, Len(s))) = Len(s)
             /\ \A i \in 1 .. Len(s) : SubSeq(t, 1, Len(s))[i] = t[i]
  BY <1>2
<1>3. ASSUME Len(s) <= Len(t), \A i \in 1 .. Len(s) : s[i] = t[i]
      PROVE  s = SubSeq(t, 1, Len(s))
  BY <1>2, <1>3, SeqEqual
<1>4. QED
  BY <1>1, <1>2, <1>3 DEF IsPrefix

\* The empty sequence is a prefix of every one.
LEMMA EmptyPrefix ==
  ASSUME NEW S, NEW s \in Seq(S)
  PROVE  IsPrefix(<<>>, s)
<1>1. <<>> \in Seq(S) /\ Len(<<>>) = 0 /\ Len(s) \in Nat
  BY EmptySeq, LenProperties
<1>2. Len(<<>>) <= Len(s) /\ \A i \in 1 .. Len(<<>>) : <<>>[i] = s[i]
  BY <1>1
<1>3. QED
  BY <1>1, <1>2, PrefixElements

\* The first of two sequences in a row is a prefix of what both are one of.
LEMMA ConcatPrefix ==
  ASSUME NEW S, NEW s \in Seq(S), NEW t \in Seq(S), NEW u \in Seq(S), IsPrefix(s \o t, u)
  PROVE  IsPrefix(s, u)
<1>1. Len(s) \in Nat /\ Len(t) \in Nat /\ Len(u) \in Nat
  BY LenProperties
<1>2. /\ s \o t \in Seq(S) /\ Len(s \o t) = Len(s) + Len(t)
      /\ \A i \in 1 .. Len(s) + Len(t) : (s \o t)[i] = IF i <= Len(s) THEN s[i] ELSE t[i - Len(s)]
  BY ConcatProperties
<1>3. Len(s \o t) <= Len(u) /\ \A i \in 1 .. Len(s \o t) : (s \o t)[i] = u[i]
  BY <1>2, PrefixElements
<1>4. Len(s) <= Len(u) /\ \A i \in 1 .. Len(s) : s[i] = u[i]
  BY <1>1, <1>2, <1>3
<1>5. QED
  BY <1>4, PrefixElements

\* Appending to the second of two sequences in a row.
LEMMA ConcatAppend ==
  ASSUME NEW S, NEW s \in Seq(S), NEW t \in Seq(S), NEW e \in S
  PROVE  s \o Append(t, e) = Append(s \o t, e)
<1>1. <<e>> \in Seq(S) /\ s \o t \in Seq(S)
  BY ConcatProperties
<1>2. Append(t, e) = t \o <<e>> /\ Append(s \o t, e) = (s \o t) \o <<e>>
  BY <1>1, AppendIsConcat
<1>3. QED
  BY <1>1, <1>2, ConcatAssociative

\* The first element of one sequence moved to the end of another in front.
LEMMA MoveHead ==
  ASSUME NEW S, NEW s \in Seq(S), NEW t \in Seq(S), t # <<>>
  PROVE  Append(s, Head(t)) \o Tail(t) = s \o t
<1>1. Len(t) \in Nat /\ 1 \in 1 .. Len(t) /\ Len(t) \in 1 .. Len(t) /\ Head(t) = t[1]
  BY EmptySeq
<1>2. t = <<Head(t)>> \o Tail(t)
  BY <1>1, SubSeqRecursiveFirst, SubSeqFull, TailIsSubSeq
<1>3. Head(t) \in S /\ Tail(t) \in Seq(S) /\ <<Head(t)>> \in Seq(S)
  BY HeadTailProperties
<1>4. Append(s, Head(t)) = s \o <<Head(t)>>
  BY <1>3, AppendIsConcat
<1>5. (s \o <<Head(t)>>) \o Tail(t) = s \o (<<Head(t)>> \o Tail(t))
  BY <1>3, ConcatAssociative
<1>6. QED
  BY <1>2, <1>4, <1>5

-----------------------------------------------------------------------------
(* Texts.                                                                   *)

\* The null pointer is not a text, and no letter is a NUL.
LEMMA NullIsNoText == Null \notin Text /\ Null # <<>> /\ "NUL" \notin Letters
<1>1. "NULL" \notin Chars /\ "NUL" \notin Letters
  BY VersionsAssumption DEF Chars, Letters
<1>2. ASSUME Null \in Text PROVE FALSE
  <2>1. Null[1] \in Chars
    BY <1>2, ElementOfSeq DEF Text, Null
  <2>2. QED
    BY <1>1, <2>1 DEF Null
<1>3. QED
  BY <1>1, <1>2 DEF Null

\* A digest line begins with the digest and has no NUL (md5sum).
LEMMA DigestLine ==
  ASSUME NEW v \in Versions \cup {"empty"}
  PROVE  /\ Digest(v) \in Seq(Letters) /\ Len(Digest(v)) = DigestLen
         /\ Digest(v) \o <<".", "nl">> \in Text
         /\ ~Contains(Digest(v) \o <<".", "nl">>, "NUL")
         /\ Len(Digest(v) \o <<".", "nl">>) = DigestLen + 2
         /\ \A i \in 1 .. DigestLen : (Digest(v) \o <<".", "nl">>)[i] = v
<1>1. v \in Letters /\ v \in Chars /\ v # "NUL"
  BY VersionsAssumption DEF Letters, Chars
<1>2. /\ Digest(v) \in Seq(Letters) /\ Digest(v) \in Text /\ Len(Digest(v)) = DigestLen
      /\ \A i \in 1 .. DigestLen : Digest(v)[i] = v
  BY <1>1, SizesAssumption DEF Digest, Text
<1> DEFINE e == <<".", "nl">>
<1>3. e \in Text /\ Len(e) = 2 /\ e[1] = "." /\ e[2] = "nl"
  BY DEF Text, Chars
<1>4. /\ Digest(v) \o e \in Text /\ Len(Digest(v) \o e) = DigestLen + 2
      /\ \A i \in 1 .. DigestLen + 2 :
           (Digest(v) \o e)[i] = IF i <= DigestLen THEN Digest(v)[i] ELSE e[i - DigestLen]
  <2>1. e \in Seq(Chars) /\ Digest(v) \in Seq(Chars)
    BY <1>2, <1>3 DEF Text
  <2> HIDE DEF e
  <2>2. /\ Digest(v) \o e \in Seq(Chars)
        /\ Len(Digest(v) \o e) = Len(Digest(v)) + Len(e)
        /\ \A i \in 1 .. Len(Digest(v)) + Len(e) :
             (Digest(v) \o e)[i] =
               IF i <= Len(Digest(v)) THEN Digest(v)[i] ELSE e[i - Len(Digest(v))]
    BY <2>1, ConcatProperties
  <2>3. QED
    BY <1>2, <1>3, <2>2 DEF Text
<1>5. ASSUME NEW i \in 1 .. DigestLen + 2 PROVE (Digest(v) \o e)[i] # "NUL"
  <2> HIDE DEF e
  <2>1. CASE i <= DigestLen
    BY <1>1, <1>2, <1>4, <2>1, SizesAssumption
  <2>2. CASE i > DigestLen
    <3>1. i - DigestLen \in {1, 2}
      BY <2>2, SizesAssumption
    <3>2. e[i - DigestLen] \in {".", "nl"}
      BY <1>3, <3>1
    <3>3. (Digest(v) \o e)[i] = e[i - DigestLen]
      BY <1>4, <2>2, SizesAssumption
    <3>4. QED
      BY <3>2, <3>3
  <2>3. i <= DigestLen \/ i > DigestLen
    BY SizesAssumption
  <2>4. QED
    BY <2>1, <2>2, <2>3
<1>6. QED
  BY <1>2, <1>4, <1>5, SizesAssumption DEF Contains

\* What a command may write is a text without NUL.
LEMMA LineIsText ==
  ASSUME seen \subseteq Contents, NEW t \in Lines
  PROVE  t \in Text /\ ~Contains(t, "NUL")
<1>1. CASE t \in Messages
  BY <1>1, MessagesAssumption DEF Text
<1>2. CASE t = <<>>
  BY <1>2 DEF Text, Contains
<1>3. ASSUME NEW v \in seen \ {"absent"}, t = Digest(v) \o <<".", "nl">>
      PROVE  t \in Text /\ ~Contains(t, "NUL")
  BY <1>3, DigestLine DEF Contents
<1>4. QED
  BY <1>1, <1>2, <1>3 DEF Lines

\* A text that is part of one without NUL has none.
LEMMA PrefixHasNoNul ==
  ASSUME NEW s \in Text, NEW t \in Text, IsPrefix(s, t), ~Contains(t, "NUL")
  PROVE  ~Contains(s, "NUL")
  BY PrefixElements, LenProperties DEF Contains, Text

\* strlen finds the end of a text without NUL (common.cpp:352-356).
LEMMA CStringOfText ==
  ASSUME NEW s \in Text
  PROVE  CString(s) \in Text /\ (~Contains(s, "NUL") => CString(s) = s)
<1> DEFINE I == {i \in 1 .. Len(s) : \A j \in 1 .. i : s[j] # "NUL"}
<1>1. Len(s) \in Nat
  BY LenProperties DEF Text
<1>2. IsFiniteSet(1 .. Len(s)) /\ Cardinality(1 .. Len(s)) = Len(s)
  <2>1. 1 \in Int /\ Len(s) \in Int
    BY <1>1
  <2>2. /\ IsFiniteSet(1 .. Len(s))
        /\ Cardinality(1 .. Len(s)) = IF 1 > Len(s) THEN 0 ELSE Len(s) - 1 + 1
    BY <2>1, FS_Interval
  <2>3. QED
    BY <1>1, <2>2
<1>3. IsFiniteSet(I) /\ Cardinality(I) <= Len(s)
  BY <1>2, FS_Subset
<1>4. Cardinality(I) \in 0 .. Len(s)
  BY <1>1, <1>3, FS_CardinalityType
<1>5. CString(s) \in Text
  <2>1. \A i \in 1 .. Cardinality(I) : s[i] \in Chars
    BY <1>1, <1>4, ElementOfSeq DEF Text
  <2>2. SubSeq(s, 1, Cardinality(I)) \in Seq(Chars)
    <3> HIDE DEF I
    <3>1. 1 \in Int /\ Cardinality(I) \in Int
      BY <1>1, <1>4
    <3>2. QED
      BY <2>1, <3>1, SubSeqProperties
  <2>3. QED
    BY <2>2 DEF CString, Text
<1>6. ASSUME ~Contains(s, "NUL") PROVE CString(s) = s
  <2>1. I = 1 .. Len(s)
    BY <1>1, <1>6 DEF Contains
  <2>2. CString(s) = SubSeq(s, 1, Len(s))
    BY <1>2, <2>1 DEF CString
  <2>3. QED
    BY <2>2, SubSeqFull DEF Text
<1>7. QED
  BY <1>5, <1>6

\* The middle of a text without NUL has none.
LEMMA PartHasNoNul ==
  ASSUME NEW r \in Text, NEW s \in Text, NEW t \in Text, ~Contains(r \o s \o t, "NUL")
  PROVE  ~Contains(s, "NUL")
<1>1. Len(r) \in Nat /\ Len(s) \in Nat /\ Len(t) \in Nat
  BY LenProperties DEF Text
<1>2. /\ r \o s \in Text /\ Len(r \o s) = Len(r) + Len(s)
      /\ \A i \in 1 .. Len(r) + Len(s) : (r \o s)[i] = IF i <= Len(r) THEN r[i] ELSE s[i - Len(r)]
  BY ConcatProperties DEF Text
<1>3. /\ (r \o s) \o t \in Text
      /\ Len((r \o s) \o t) = Len(r) + Len(s) + Len(t)
      /\ \A i \in 1 .. Len(r) + Len(s) : ((r \o s) \o t)[i] = (r \o s)[i]
  BY <1>1, <1>2, ConcatProperties DEF Text
<1>4. ASSUME NEW i \in 1 .. Len(s) PROVE s[i] # "NUL"
  <2>1. /\ i + Len(r) \in 1 .. Len(r) + Len(s)
        /\ i + Len(r) \in 1 .. Len(r) + Len(s) + Len(t)
        /\ ~(i + Len(r) <= Len(r)) /\ (i + Len(r)) - Len(r) = i
    BY <1>1
  <2>2. ((r \o s) \o t)[i + Len(r)] = s[i]
    BY <1>2, <1>3, <2>1
  <2>3. QED
    BY <1>3, <2>1, <2>2 DEF Contains
<1>5. QED
  BY <1>4 DEF Contains
-----------------------------------------------------------------------------
(* The invariant.                                                           *)

\* A call begins with nothing said, collected or done (common.cpp:330-337).
LEMMA InitInv == Init => Inv
<1> SUFFICES ASSUME Init PROVE Inv
  OBVIOUS
<1> USE DEF Init
<1>1. TypeOK
  <2>1. <<>> \in Text /\ Len(<<>>) = 0 /\ 0 < BufferSize /\ 0 <= PipeCap
    BY SizesAssumption DEF Text
  <2>2. QED
    BY <2>1 DEF TypeOK, Tasks
<1>2. NotBegun /\ Md5OfTheCall /\ MoveReported /\ file \in seen
  BY DEF NotBegun, Before, Returned, Md5OfTheCall, MoveReported, Tasks
<1>3. <<>> \o <<>> = <<>> /\ <<>> \in Text
  BY DEF Text
<1>4. Flow
  BY <1>3 DEF Flow
<1>5. Said
  <2>1. <<>> \in Lines /\ IsPrefix(<<>>, <<>>)
    BY <1>3, EmptyPrefix DEF Lines, Text
  <2>2. QED
    BY <1>3, <2>1 DEF Said
<1>6. QED
  BY <1>1, <1>2, <1>4, <1>5 DEF Inv

\* What TypeOK and the invariant say of the texts of a call that has begun.
LEMMA Texts ==
  ASSUME Inv
  PROVE  /\ buffer \in Text /\ pipe \in Text /\ written \in Text /\ out \in Text
         /\ child # "none" => result \in Text
         /\ seen \subseteq Contents
  BY DEF Inv, TypeOK, Flow

\* The looks at the file, a failing popen and the end of the output change
\* nothing of the texts (common.cpp:344-349, 360-364, 374-379).
LEMMA LookInv ==
  ASSUME Inv, FileExists \/ FileSize \/ PopenFails \/ NoMore \/ Pclose
  PROVE  Inv'
<1> DEFINE same == <<task, buffer, child, out, pipe, file, moved, written, killed, seen>>
<1>1. UNCHANGED same
  BY DEF FileExists, FileSize, PopenFails, NoMore, Pclose, worldVars, history
<1>2. TypeOK'
  <2>1. Digest("empty") \in [1 .. DigestLen -> Letters]
    BY DEF Digest, Letters
  <2>2. QED
    BY <1>1, <2>1 DEF FileExists, FileSize, PopenFails, NoMore, Pclose, Inv, TypeOK, Returned
<1>3. NotBegun'
  BY <1>1 DEF FileExists, FileSize, PopenFails, NoMore, Pclose, EndOfFile,
              Inv, NotBegun, Before, Returned
<1>4. Flow'
  BY <1>1, NullIsNoText DEF FileExists, FileSize, PopenFails, NoMore, Pclose, EndOfFile,
              Inv, NotBegun, Before, Flow, After, Returned
<1>5. Said' /\ (file \in seen)'
  BY <1>1 DEF Inv, Said, Lines
<1>6. Md5OfTheCall' /\ MoveReported'
  BY <1>1 DEF FileExists, FileSize, PopenFails, NoMore, Pclose,
              Inv, NotBegun, Md5OfTheCall, MoveReported
<1>7. QED
  BY <1>2, <1>3, <1>4, <1>5, <1>6 DEF Inv

\* popen starts a command that has said nothing (common.cpp:338-343).
LEMMA PopenInv == ASSUME Inv, Popen PROVE Inv'
<1>1. UNCHANGED <<task, buffer, result, value, out, pipe, file, moved, written, killed, seen>>
  BY DEF Popen, history
<1>2. /\ pc = "popen" /\ pc' = "fgets" /\ child = "none" /\ child' = "ready"
      /\ result = <<>> /\ written = <<>> /\ out = <<>>
  BY DEF Popen, Inv, NotBegun, Before
<1>3. TypeOK'
  BY <1>1, <1>2 DEF Inv, TypeOK
<1>4. NotBegun' /\ Md5OfTheCall' /\ MoveReported' /\ (file \in seen)'
  BY <1>1, <1>2 DEF Inv, NotBegun, Before, Md5OfTheCall, MoveReported
<1>5. Flow'
  BY <1>1, <1>2, NullIsNoText DEF Inv, Flow, After, Returned
<1>6. Said'
  BY <1>1, <1>2 DEF Inv, Said, Lines
<1>7. QED
  BY <1>3, <1>4, <1>5, <1>6 DEF Inv

\* A character moves from the pipe to the buffer, and stays in its place
\* (common.cpp:350).
LEMMA GetCharInv == ASSUME Inv, GetChar PROVE Inv'
<1>1. UNCHANGED <<task, pc, result, value, child, out, file, moved, written, killed, seen>>
  BY DEF GetChar, history
<1>2. pc = "fgets" /\ child # "none" /\ pipe # <<>>
  BY DEF GetChar, Inv, NotBegun
<1>3. /\ buffer \in Text /\ pipe \in Text /\ result \in Text /\ written \in Text
  BY <1>2, Texts
<1>4. /\ Head(pipe) \in Chars /\ Tail(pipe) \in Text /\ Len(Tail(pipe)) = Len(pipe) - 1
      /\ Len(pipe) \in Nat /\ Len(buffer) \in Nat
  BY <1>2, <1>3, HeadTailProperties, LenProperties DEF Text
<1>5. /\ buffer' = Append(buffer, Head(pipe)) /\ pipe' = Tail(pipe)
      /\ buffer' \in Text /\ Len(buffer') = Len(buffer) + 1
  BY <1>3, <1>4, AppendProperties DEF GetChar, Text
<1>6. TypeOK'
  <2>1. Len(buffer') < BufferSize /\ Len(pipe') <= PipeCap
    BY <1>4, <1>5, SizesAssumption DEF GetChar, ChunkComplete, Inv, TypeOK
  <2>2. QED
    BY <1>1, <1>4, <1>5, <2>1 DEF Inv, TypeOK
<1>7. NotBegun' /\ Md5OfTheCall' /\ MoveReported' /\ (file \in seen)' /\ Said'
  BY <1>1, <1>2 DEF Inv, NotBegun, Before, Md5OfTheCall, MoveReported, Said, Lines
<1>8. Flow'
  <2>1. result \o buffer \in Text
    BY <1>3, ConcatProperties DEF Text
  <2>2. result \o buffer' = Append(result \o buffer, Head(pipe))
    BY <1>3, <1>4, <1>5, ConcatAppend DEF Text
  <2>3. (result \o buffer') \o pipe' = (result \o buffer) \o pipe
    BY <1>2, <1>3, <1>5, <2>1, <2>2, MoveHead DEF Text
  <2>4. QED
    BY <1>1, <1>2, <2>3 DEF Inv, Flow, After, Returned
<1>9. QED
  BY <1>6, <1>7, <1>8 DEF Inv

\* A chunk without NUL is collected whole, behind what was collected before it
\* (common.cpp:350-359).
LEMMA ChunkInv == ASSUME Inv, Chunk PROVE Inv'
<1>1. UNCHANGED <<task, pc, value, child, out, pipe, file, moved, written, killed, seen>>
  BY DEF Chunk, worldVars, history
<1>2. pc = "fgets" /\ child # "none" /\ buffer' = <<>> /\ result' = result \o CString(buffer)
  BY DEF Chunk, Collect, Inv, NotBegun
<1>3. buffer \in Text /\ pipe \in Text /\ result \in Text /\ written \in Text
  BY <1>2, Texts
<1>4. CString(buffer) \in Text /\ result' \in Text /\ result' # Null
  <2>1. CString(buffer) \in Text
    BY <1>3, CStringOfText
  <2>2. QED
    BY <1>2, <1>3, <2>1, ConcatProperties, NullIsNoText DEF Text
<1>5. TypeOK'
  <2>1. buffer' \in Text /\ Len(buffer') < BufferSize
    BY <1>2, SizesAssumption, EmptySeq DEF Text
  <2>2. QED
    BY <1>1, <1>4, <2>1 DEF Inv, TypeOK
<1>6. NotBegun' /\ Md5OfTheCall' /\ MoveReported' /\ (file \in seen)' /\ Said'
  BY <1>1, <1>2 DEF Inv, NotBegun, Before, Md5OfTheCall, MoveReported, Said, Lines
<1>7. ASSUME ~Contains(written, "NUL") PROVE (result' \o buffer') \o pipe = written
  <2>1. (result \o buffer) \o pipe = written
    BY <1>2, <1>7 DEF Inv, Flow
  <2>2. CString(buffer) = buffer
    BY <1>3, <1>7, <2>1, PartHasNoNul, CStringOfText
  <2>3. result' \o buffer' = result \o buffer
    BY <1>2, <1>4, <2>2, ConcatEmptySeq DEF Text
  <2>4. QED
    BY <2>1, <2>3
<1>8. Flow'
  BY <1>1, <1>2, <1>4, <1>7 DEF Inv, Flow, After, Returned
<1>9. QED
  BY <1>5, <1>6, <1>8 DEF Inv

\* The command of movebycmd and of file_md5 writes no NUL.
LEMMA CommandsWriteText ==
  ASSUME Inv, task # "exec_cmd"
  PROVE  ~Contains(written, "NUL") /\ \E t \in Lines : IsPrefix(written, t)
<1>1. PICK t \in Lines : IsPrefix(written \o out, t)
  BY DEF Inv, Said
<1>2. t \in Text /\ ~Contains(t, "NUL")
  BY Texts, LineIsText
<1>3. IsPrefix(written, t)
  BY <1>1, <1>2, Texts, ConcatPrefix DEF Text
<1>4. QED
  BY <1>2, <1>3, Texts, PrefixHasNoNul

\* When the output has ended, the result is all of it (common.cpp:350-366).
LEMMA ResultIsOutput ==
  ASSUME Inv, child # "none", pc \in After, ~Contains(written, "NUL")
  PROVE  result = written /\ child = "exited" /\ out = <<>>
<1>1. /\ result \in Text /\ result # Null
      /\ buffer = <<>> /\ pipe = <<>> /\ child = "exited" /\ out = <<>>
  BY Texts DEF Inv, Flow, Said
<1>2. (result \o <<>>) \o <<>> = written
  BY <1>1 DEF Inv, Flow
<1>3. result \o <<>> = result
  BY <1>1, ConcatEmptySeq DEF Text
<1>4. QED
  BY <1>1, <1>2, <1>3

\* A line that matches the regular expression is a digest line (common.cpp:391-404).
LEMMA MatchIsDigest ==
  ASSUME Inv, NEW t \in Lines, NEW s \in Text, IsPrefix(s, t), IsDigest(s)
  PROVE  \E v \in seen \ {"absent"} : SubSeq(s, 1, DigestLen) = Digest(v)
<1>1. t \in Text
  BY Texts, LineIsText
<1>2. Len(s) \in Nat /\ Len(t) \in Nat /\ DigestLen \in Nat /\ DigestLen > 0
  BY <1>1, SizesAssumption, LenProperties DEF Text
<1>3. Len(s) <= Len(t) /\ \A i \in 1 .. Len(s) : s[i] = t[i]
  BY <1>1, PrefixElements DEF Text
<1>4. DigestLen <= Len(t) /\ \A i \in 1 .. DigestLen : s[i] = t[i] /\ t[i] \in Letters
  BY <1>2, <1>3 DEF IsDigest
<1>5. t \notin Messages
  BY <1>2, <1>4, MessagesAssumption
<1>6. t # <<>>
  BY <1>2, <1>4
<1>7. PICK v \in seen \ {"absent"} : t = Digest(v) \o <<".", "nl">>
  BY <1>5, <1>6 DEF Lines
<1>8. v \in Versions \cup {"empty"}
  BY Texts DEF Contents
<1>9. \A i \in 1 .. DigestLen : s[i] = v
  BY <1>4, <1>7, <1>8, DigestLine
<1>10. SubSeq(s, 1, DigestLen) = [i \in 1 .. DigestLen |-> v]
  <2>1. v \in Letters
    BY <1>8 DEF Letters
  <2>2. \A i \in 1 .. DigestLen : s[i] \in Letters
    BY <1>9, <2>1
  <2>3. /\ SubSeq(s, 1, DigestLen) \in Seq(Letters)
        /\ Len(SubSeq(s, 1, DigestLen)) = DigestLen
        /\ \A i \in 1 .. DigestLen : SubSeq(s, 1, DigestLen)[i] = s[i]
    BY <1>2, <2>2, SubSeqProperties
  <2>4. /\ Digest(v) \in Seq(Letters) /\ Len(Digest(v)) = DigestLen
        /\ \A i \in 1 .. DigestLen : Digest(v)[i] = v
    BY <1>8, DigestLine DEF Digest
  <2>5. SubSeq(s, 1, DigestLen) = Digest(v)
    BY <1>9, <2>3, <2>4, SeqEqual
  <2>6. QED
    BY <2>5 DEF Digest
<1>11. QED
  BY <1>10 DEF Digest

\* The callers judge the whole output, or a null pointer (common.cpp:397-407,
\* 478-487).
LEMMA JudgeInv == ASSUME Inv, Judge PROVE Inv'
<1>1. UNCHANGED <<task, buffer, result, child, out, pipe, file, moved, written, killed, seen>>
  BY DEF Judge, ReturnResult, JudgeMove, JudgeDigest, worldVars, history
<1>2. pc = "judge" /\ pc' \in Returned /\ pc \in After /\ pc' \in After
  BY DEF Judge, ReturnResult, JudgeMove, JudgeDigest, After, Returned
<1>3. child = "none" => result = Null
  BY <1>2 DEF Inv, NotBegun
<1>4. ASSUME child # "none", task = "file_md5", IsDigest(result)
      PROVE  /\ SubSeq(result, 1, DigestLen) \in [1 .. DigestLen -> Letters]
             /\ \E v \in seen \ {"absent"} : SubSeq(result, 1, DigestLen) = Digest(v)
  <2>1. ~Contains(written, "NUL") /\ \E t \in Lines : IsPrefix(written, t)
    BY <1>4, CommandsWriteText
  <2>2. result = written /\ written \in Text
    BY <1>2, <1>4, <2>1, ResultIsOutput, Texts
  <2>3. PICK v \in seen \ {"absent"} : SubSeq(result, 1, DigestLen) = Digest(v)
    BY <1>4, <2>1, <2>2, MatchIsDigest
  <2>4. v \in Letters
    BY Texts DEF Contents, Letters
  <2>5. QED
    BY <2>3, <2>4 DEF Digest
<1>5. ASSUME child # "none", task = "movebycmd", result = <<>>, ~killed PROVE moved
  <2>1. ~Contains(written, "NUL")
    BY <1>5, CommandsWriteText
  <2>2. result = written /\ out = <<>> /\ child = "exited"
    BY <1>2, <1>5, <2>1, ResultIsOutput
  <2>3. written \o out = <<>>
    BY <1>5, <2>2
  <2>4. QED
    BY <1>5, <2>2, <2>3 DEF Inv, Said
<1>6. ASSUME task = "file_md5", pc' = "returned"
      PROVE  child # "none" /\ IsDigest(result) /\ value' = SubSeq(result, 1, DigestLen)
  BY <1>3, <1>6 DEF Judge, ReturnResult, JudgeMove, JudgeDigest
<1>7. ASSUME task = "movebycmd", pc' = "returned" PROVE child # "none" /\ result = <<>>
  BY <1>3, <1>7, NullIsNoText DEF Judge, ReturnResult, JudgeMove, JudgeDigest
<1>8. TypeOK'
  <2>1. value' \in {<<>>} \cup [1 .. DigestLen -> Letters]
    <3>1. CASE value' = value
      BY <3>1 DEF Inv, TypeOK
    <3>2. CASE value' # value
      BY <1>3, <1>4, <3>2 DEF Judge, ReturnResult, JudgeMove, JudgeDigest
    <3>3. QED
      BY <3>1, <3>2
  <2>2. QED
    BY <1>1, <1>2, <2>1 DEF Inv, TypeOK
<1>9. NotBegun'
  BY <1>1, <1>2, <1>3, <1>6, <1>7 DEF Inv, NotBegun, Before, Returned, TypeOK, Tasks
<1>10. Flow' /\ Said' /\ (file \in seen)'
  BY <1>1, <1>2 DEF Inv, Flow, Said, Lines
<1>11. Md5OfTheCall' /\ MoveReported'
  BY <1>1, <1>4, <1>5, <1>6, <1>7 DEF Md5OfTheCall, MoveReported
<1>12. QED
  BY <1>8, <1>9, <1>10, <1>11 DEF Inv

-----------------------------------------------------------------------------
(* The command.                                                             *)

\* While the command lives the call is at the reading of its output.
LEMMA CommandLives ==
  ASSUME Inv, child \in {"ready", "writing"}
  PROVE  pc = "fgets" /\ result \in Text /\ result # Null
<1>1. pc \notin After /\ pc \notin Before
  BY DEF Inv, NotBegun, Flow
<1>2. pc = "fgets"
  BY <1>1 DEF Inv, TypeOK, After, Before
<1>3. QED
  BY <1>2, Texts DEF Inv, Flow

\* The command decides what to write (common.cpp:332, 383, 475).
LEMMA WorkInv == ASSUME Inv, Work PROVE Inv'
<1>1. UNCHANGED <<task, pc, buffer, result, value, pipe, file, written, killed, seen>>
  BY DEF Work, callVars, history
<1>2. /\ child = "ready" /\ child' = "writing" /\ pc = "fgets"
      /\ written = <<>> /\ out = <<>>
  BY CommandLives DEF Work, Inv, Said
<1>3. /\ task = "exec_cmd" => out' \in Outputs /\ moved' = moved
      /\ task = "movebycmd" =>
           \/ out' \in Messages /\ moved' \in BOOLEAN
           \/ out' = <<>> /\ moved' = TRUE
      /\ task = "file_md5" => out' \in Lines /\ moved' = moved
  <2>1. ASSUME task = "exec_cmd" PROVE out' \in Outputs /\ moved' = moved
    BY <2>1 DEF Work
  <2>2. ASSUME task = "movebycmd"
        PROVE  \/ out' \in Messages /\ moved' \in BOOLEAN
               \/ out' = <<>> /\ moved' = TRUE
    BY <2>2 DEF Work, Move, Captured, Inv, TypeOK
  <2>3. ASSUME task = "file_md5" PROVE out' \in Lines /\ moved' = moved
    <3>1. Md5sum
      BY <2>3 DEF Work
    <3>2. file \in seen
      BY DEF Inv
    <3>3. QED
      BY <3>1, <3>2 DEF Md5sum, Captured, Lines
  <2>4. QED
    BY <2>1, <2>2, <2>3
<1>4. out' \in Text /\ moved' \in BOOLEAN /\ (task # "exec_cmd" => out' \in Lines)
  <2>1. task # "exec_cmd" => out' \in Lines
    BY <1>3 DEF Lines, Inv, TypeOK, Tasks
  <2>2. out' \in Text
    BY <1>3, <2>1, Texts, LineIsText, OutputsAssumption DEF Text, Inv, TypeOK, Tasks
  <2>3. QED
    BY <1>3, <2>1, <2>2 DEF Inv, TypeOK, Tasks
<1>5. TypeOK'
  BY <1>1, <1>2, <1>4 DEF Inv, TypeOK
<1>6. NotBegun' /\ Flow' /\ Md5OfTheCall' /\ MoveReported' /\ (file \in seen)'
  BY <1>1, <1>2 DEF Inv, NotBegun, Before, Flow, After, Returned, Md5OfTheCall, MoveReported
<1>7. written' \o out' = out'
  BY <1>1, <1>2, <1>4, ConcatEmptySeq DEF Text
<1>8. Said'
  <2>1. Lines' = Lines
    BY <1>1 DEF Lines
  <2>2. IsPrefix(out', out')
    <3>1. Len(out') \in Nat
      BY <1>4, LenProperties DEF Text
    <3>2. QED
      BY <1>4, <3>1, PrefixElements DEF Text
  <2>3. task' # "exec_cmd" => \E t \in Lines' : IsPrefix(written' \o out', t)
    BY <1>1, <1>4, <1>7, <2>1, <2>2
  <2>4. task' = "movebycmd" => moved' \/ written' \o out' # <<>>
    BY <1>1, <1>3, <1>7, MessagesAssumption
  <2>5. QED
    BY <1>2, <2>3, <2>4 DEF Said
<1>9. QED
  BY <1>5, <1>6, <1>8 DEF Inv

\* A character written is the last of the pipe.
LEMMA WriteInv == ASSUME Inv, Write PROVE Inv'
<1>1. UNCHANGED <<task, pc, buffer, result, value, child, file, moved, killed, seen>>
  BY DEF Write, callVars
<1>2. child = "writing" /\ out # <<>> /\ pc = "fgets" /\ result \in Text /\ result # Null
  BY CommandLives DEF Write
<1>3. buffer \in Text /\ pipe \in Text /\ written \in Text /\ out \in Text
  BY Texts
<1>4. Head(out) \in Chars /\ Tail(out) \in Text
  BY <1>2, <1>3, HeadTailProperties DEF Text
<1>5. /\ pipe' = Append(pipe, Head(out)) /\ pipe' \in Text /\ Len(pipe') = Len(pipe) + 1
      /\ written' = Append(written, Head(out)) /\ written' \in Text
      /\ Len(written') = Len(written) + 1
      /\ \A i \in 1 .. Len(written) : written'[i] = written[i]
      /\ out' = Tail(out) /\ out' \in Text
  BY <1>3, <1>4, AppendProperties DEF Write, Text
<1>6. Len(pipe) \in Nat /\ Len(written) \in Nat
  BY <1>3, LenProperties DEF Text
<1>7. TypeOK'
  <2>1. Len(pipe') <= PipeCap
    BY <1>5, <1>6, SizesAssumption DEF Write
  <2>2. QED
    BY <1>1, <1>5, <2>1 DEF Inv, TypeOK
<1>8. NotBegun' /\ Md5OfTheCall' /\ MoveReported' /\ (file \in seen)'
  BY <1>1, <1>2 DEF Inv, NotBegun, Before, Md5OfTheCall, MoveReported
<1>9. Flow'
  <2>1. ASSUME ~Contains(written', "NUL") PROVE (result \o buffer) \o pipe' = written'
    <3>1. ~Contains(written, "NUL")
      BY <1>5, <1>6, <2>1 DEF Contains
    <3>2. (result \o buffer) \o pipe = written
      BY <1>2, <3>1 DEF Inv, Flow
    <3>3. result \o buffer \in Text
      BY <1>2, <1>3, ConcatProperties DEF Text
    <3>4. (result \o buffer) \o pipe' = Append((result \o buffer) \o pipe, Head(out))
      BY <1>3, <1>4, <1>5, <3>3, ConcatAppend DEF Text
    <3>5. QED
      BY <1>5, <3>2, <3>4
  <2>2. QED
    BY <1>1, <1>2, <2>1 DEF Flow, After, Returned
<1>10. Said'
  <2>1. written' \o out' = written \o out
    BY <1>2, <1>3, <1>5, MoveHead DEF Text
  <2>2. QED
    BY <1>1, <1>2, <2>1 DEF Inv, Said, Lines
<1>11. QED
  BY <1>7, <1>8, <1>9, <1>10 DEF Inv

\* The command ends, having written all it had to.
LEMMA ExitInv == ASSUME Inv, Exit PROVE Inv'
<1>1. UNCHANGED <<task, pc, buffer, result, value, out, pipe, file, moved, written, killed, seen>>
  BY DEF Exit, callVars, history
<1>2. child = "writing" /\ child' = "exited" /\ out = <<>> /\ pc = "fgets"
  BY CommandLives DEF Exit
<1>3. TypeOK'
  BY <1>1, <1>2 DEF Inv, TypeOK
<1>4. NotBegun' /\ Flow' /\ Md5OfTheCall' /\ MoveReported' /\ (file \in seen)'
  BY <1>1, <1>2 DEF Inv, NotBegun, Before, Flow, After, Returned, Md5OfTheCall, MoveReported
<1>5. Said'
  BY <1>1, <1>2 DEF Inv, Said, Lines
<1>6. QED
  BY <1>3, <1>4, <1>5 DEF Inv

\* A command that is killed leaves the beginning of a line.
LEMMA KilledInv == ASSUME Inv, Killed PROVE Inv'
<1>1. UNCHANGED <<task, pc, buffer, result, value, pipe, file, moved, written, seen>>
  BY DEF Killed, callVars
<1>2. /\ child \in {"ready", "writing"} /\ child' = "exited" /\ pc = "fgets"
      /\ out' = <<>> /\ killed' = TRUE
  BY CommandLives DEF Killed
<1>3. TypeOK'
  <2>1. <<>> \in Text
    BY DEF Text
  <2>2. QED
    BY <1>1, <1>2, <2>1 DEF Inv, TypeOK
<1>4. NotBegun' /\ Flow' /\ Md5OfTheCall' /\ MoveReported' /\ (file \in seen)'
  BY <1>1, <1>2 DEF Inv, NotBegun, Before, Flow, After, Returned, Md5OfTheCall, MoveReported
<1>5. Said'
  <2>1. written' \o out' = written
    BY <1>1, <1>2, Texts, ConcatEmptySeq DEF Text
  <2>2. task # "exec_cmd" => \E t \in Lines : IsPrefix(written, t)
    BY CommandsWriteText
  <2>3. Lines' = Lines
    BY <1>1 DEF Lines
  <2>4. QED
    BY <1>1, <1>2, <2>1, <2>2, <2>3 DEF Said
<1>6. QED
  BY <1>3, <1>4, <1>5 DEF Inv

\* A file that is replaced during the call is remembered.
LEMMA ReplaceFileInv == ASSUME Inv, ReplaceFile PROVE Inv'
<1>1. /\ UNCHANGED <<task, pc, buffer, result, value, child, out, pipe, moved, written, killed>>
      /\ file' \in Contents /\ seen' = seen \cup {file'} /\ pc \notin Returned
  BY DEF ReplaceFile, callVars
<1>2. TypeOK' /\ (file \in seen)'
  BY <1>1 DEF Inv, TypeOK
<1>3. NotBegun' /\ Flow' /\ Md5OfTheCall' /\ MoveReported'
  BY <1>1 DEF Inv, NotBegun, Before, Flow, After, Returned, Md5OfTheCall, MoveReported
<1>4. Said'
  <2>1. Lines \subseteq Lines'
    BY <1>1 DEF Lines
  <2>2. QED
    BY <1>1, <2>1 DEF Inv, Said
<1>5. QED
  BY <1>2, <1>3, <1>4 DEF Inv

\* Every step of the caller, the command and the other process preserves the
\* invariant.
LEMMA NextInv == Inv /\ [Next]_vars => Inv'
<1> SUFFICES ASSUME Inv, [Next]_vars PROVE Inv'
  OBVIOUS
<1>1. CASE Caller
  BY <1>1, LookInv, PopenInv, GetCharInv, ChunkInv, JudgeInv DEF Caller
<1>2. CASE Command
  BY <1>2, WorkInv, WriteInv, ExitInv DEF Command
<1>3. CASE UNCHANGED vars
  <2>1. UNCHANGED <<callVars, worldVars, history>>
    BY <1>3 DEF vars
  <2>2. QED
    BY <2>1 DEF callVars, worldVars, history, Inv, TypeOK, NotBegun, Flow, Said, Lines,
                Md5OfTheCall, MoveReported
<1>4. QED
  BY <1>1, <1>2, <1>3, KilledInv, ReplaceFileInv DEF Next

-----------------------------------------------------------------------------
(* Theorems.                                                                *)

\* The invariant of a call holds for any sizes, output and messages.
THEOREM Invariance == Spec => []Inv
<1>1. QED
  BY InitInv, NextInv, PTL DEF Spec

\* exec_cmd collects the whole output, whatever the sizes of the buffer and of
\* the pipe and however the command's writes meet its reads, as long as no
\* character is NUL (common.cpp:350-359).
THEOREM WholeOutputHolds == Spec => []WholeOutput
<1>1. Inv => WholeOutput
  BY ResultIsOutput DEF WholeOutput, After
<1>2. QED
  BY <1>1, Invariance, PTL

\* The digest that file_md5 returns is of a content the file had during the
\* call, whoever replaces the file meanwhile (common.cpp:374-407).
THEOREM Md5OfTheCallHolds == Spec => []Md5OfTheCall
<1>1. Inv => Md5OfTheCall
  BY DEF Inv
<1>2. QED
  BY <1>1, Invariance, PTL

\* movebycmd returns normally only when the file was moved or its command was
\* killed (common.cpp:332, 478-487).
THEOREM MoveReportedHolds == Spec => []MoveReported
<1>1. Inv => MoveReported
  BY DEF Inv
<1>2. QED
  BY <1>1, Invariance, PTL
=============================================================================
