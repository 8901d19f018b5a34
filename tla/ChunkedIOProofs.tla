--------------------------- MODULE ChunkedIOProofs ---------------------------
(***************************************************************************)
(* Proofs about ChunkedIO for chunks and files of any size.                *)
(***************************************************************************)
EXTENDS ChunkedIO, SequenceTheorems, TLAPS

-----------------------------------------------------------------------------
(* Sequences.                                                               *)

\* Appending to the second of two sequences in a row.
LEMMA ConcatAppend ==
  ASSUME NEW S, NEW s \in Seq(S), NEW t \in Seq(S), NEW e \in S
  PROVE  s \o Append(t, e) = Append(s \o t, e)
<1>1. <<e>> \in Seq(S) /\ s \o t \in Seq(S)
  BY ConcatProperties
<1>2. Append(t, e) = t \o <<e>> /\ Append(s \o t, e) = (s \o t) \o <<e>>
  BY <1>1, AppendIsConcat
<1>3. QED
  BY <1>1, <1>2, ConcatAssociative

-----------------------------------------------------------------------------
(* What the reader's array holds.                                           *)

\* The bytes of the array that the last read filled are a sequence of gcount
\* bytes (common.cpp:429-432).
LEMMA HeldType ==
  ASSUME TypeOK, ChunksAssumption
  PROVE  /\ Held \in Bytes
         /\ Len(Held) = gcount
         /\ \A i \in 1 .. gcount : Held[i] = buffer[i]
<1>1. buffer \in Seq(Nat) /\ Len(buffer) = ReadChunk
  BY LenProperties DEF TypeOK, ChunksAssumption
<1>2. gcount \in Nat /\ gcount <= ReadChunk /\ ReadChunk \in Nat
  BY DEF TypeOK, ChunksAssumption
<1>3. QED
  BY <1>1, <1>2, SubSeqProperties DEF Held, Bytes

\* A byte more in the array is a byte more held.
LEMMA HeldGrows ==
  ASSUME TypeOK, TypeOK', ChunksAssumption, GetByte
  PROVE  Held' = Append(Held, file[pos + 1])
<1>1. /\ Held \in Seq(Nat) /\ Len(Held) = gcount
      /\ \A i \in 1 .. gcount : Held[i] = buffer[i]
  BY HeldType DEF Bytes
<1>2. buffer' \in Seq(Nat) /\ Len(buffer') = ReadChunk
  BY LenProperties DEF TypeOK, ChunksAssumption
<1>3. gcount \in Nat /\ gcount' = gcount + 1 /\ gcount + 1 <= ReadChunk /\ ReadChunk \in Nat
  BY DEF TypeOK, ChunksAssumption, GetByte
<1>4. /\ Held' \in Seq(Nat) /\ Len(Held') = gcount + 1
      /\ \A i \in 1 .. gcount + 1 : Held'[i] = buffer'[i]
  BY <1>2, <1>3, SubSeqProperties DEF Held
<1>5. file[pos + 1] \in Nat
  BY DEF TypeOK, GetByte, Bytes
<1>6. /\ Append(Held, file[pos + 1]) \in Seq(Nat)
      /\ Len(Append(Held, file[pos + 1])) = gcount + 1
      /\ \A i \in 1 .. gcount : Append(Held, file[pos + 1])[i] = Held[i]
      /\ Append(Held, file[pos + 1])[gcount + 1] = file[pos + 1]
  BY <1>1, <1>5, AppendProperties
<1>7. /\ \A i \in 1 .. gcount : buffer'[i] = buffer[i]
      /\ buffer'[gcount + 1] = file[pos + 1]
  BY <1>3 DEF GetByte, TypeOK
<1>8. \A i \in 1 .. gcount + 1 : Held'[i] = Append(Held, file[pos + 1])[i]
  BY <1>1, <1>3, <1>4, <1>6, <1>7
<1>9. QED
  BY <1>4, <1>6, <1>8, SeqEqual

\* No bytes are bytes too.
LEMMA NoBytes == <<>> \in Bytes /\ Len(<<>>) = 0 /\ \A i \in DOMAIN <<>> : FALSE
  BY DEF Bytes

-----------------------------------------------------------------------------
(* One lemma per action.                                                    *)

\* Both functions start with nothing done.
LEMMA InitInv == ASSUME ChunksAssumption, Init PROVE Inv
<1>1. TypeOK
  <2>1. buffer \in [1 .. ReadChunk -> Nat] /\ gcount \in 0 .. ReadChunk
    BY DEF Init, ChunksAssumption
  <2>2. seen \subseteq Bytes
    BY DEF Init
  <2>3. file \in Bytes /\ pending \in Bytes /\ digest \in Bytes
    BY NoBytes DEF Init
  <2>4. QED
    BY <2>1, <2>2, <2>3 DEF Init, TypeOK
<1>2. WriterOK /\ ReaderOK /\ NoHole /\ HashOfAMoment
  BY NoBytes DEF Init, WriterOK, ReaderOK, NoHole, HashOfAMoment
<1>3. QED
  BY <1>1, <1>2 DEF Inv

\* A new call of create_random_file truncates the file, and nobody tells a reader
\* that has it open (common.cpp:593).
LEMMA OpensInv ==
  ASSUME Inv, SizesAssumption, NEW s \in Sizes, Opens(s) PROVE Inv'
<1> USE DEF Inv, Opens, Create, readerVars
<1>1. s \in Nat
  BY DEF SizesAssumption
<1>2. TypeOK'
  <2>1. seen' \subseteq Bytes /\ file' \in Bytes /\ pending' \in Bytes
    BY NoBytes DEF TypeOK
  <2>2. exists' \in BOOLEAN /\ good' \in BOOLEAN /\ cut' \in BOOLEAN
    OBVIOUS
  <2>3. QED
    BY <1>1, <2>1, <2>2 DEF TypeOK
<1>3. WriterOK' /\ NoHole'
  BY <1>1, NoBytes DEF TypeOK, WriterOK, NoHole
<1>4. ReaderOK' /\ HashOfAMoment'
  BY DEF ReaderOK, HashOfAMoment
<1>5. QED
  BY <1>2, <1>3, <1>4

\* A file that cannot be opened stays as it is; the stream is bad from the start
\* (common.cpp:593).
LEMMA OpenFailsInv ==
  ASSUME Inv, SizesAssumption, NEW s \in Sizes, OpenFails(s) PROVE Inv'
<1> USE DEF Inv, OpenFails, Create, readerVars, history
<1>1. s \in Nat
  BY DEF SizesAssumption
<1>2. TypeOK'
  <2>1. pending' \in Bytes /\ good' \in BOOLEAN
    BY NoBytes
  <2>2. QED
    BY <1>1, <2>1 DEF TypeOK
<1>3. WriterOK' /\ NoHole'
  BY <1>1, NoBytes DEF TypeOK, WriterOK, NoHole
<1>4. ReaderOK' /\ HashOfAMoment'
  BY DEF ReaderOK, HashOfAMoment, Held
<1>5. QED
  BY <1>2, <1>3, <1>4

\* The loop counts a chunk as written whether the stream takes it or not; a
\* stream that is good takes all of it (common.cpp:602-609).
LEMMA WriteNextInv == ASSUME Inv, ChunksAssumption, WriteNext PROVE Inv'
<1> DEFINE chunk == [i \in 1 .. ToWrite |-> drawn + i]
<1> USE DEF Inv, WriteNext, readerVars, history
<1>1. ToWrite \in Nat /\ written + ToWrite <= size
  BY DEF ToWrite, TypeOK, WriterOK, ChunksAssumption
<1>2. chunk \in Seq(Nat) /\ Len(chunk) = ToWrite
  BY <1>1, LenProperties DEF TypeOK
<1>3. pending \in Seq(Nat) /\ file \in Seq(Nat) /\ Len(pending) \in Nat /\ Len(file) \in Nat
  BY LenProperties DEF TypeOK, Bytes
<1>4. /\ pending \o chunk \in Seq(Nat)
      /\ Len(pending \o chunk) = Len(pending) + ToWrite
      /\ \A i \in 1 .. Len(pending) + ToWrite :
           (pending \o chunk)[i] = IF i <= Len(pending) THEN pending[i]
                                   ELSE chunk[i - Len(pending)]
  BY <1>2, <1>3, ConcatProperties
<1>5. pending' = IF good THEN pending \o chunk ELSE pending
  BY DEF Accept
<1>6. TypeOK'
  BY <1>1, <1>4, <1>5 DEF TypeOK, Bytes
<1>7. WriterOK'
  <2>1. CASE ~good
    BY <1>1, <1>5, <2>1 DEF WriterOK, TypeOK
  <2>2. CASE good
    <3>1. pending' = pending \o chunk
      BY <1>5, <2>2
    <3>2. /\ written = Len(file) + Len(pending) /\ drawn = start + written
          /\ \A i \in 1 .. Len(pending) : pending[i] = start + Len(file) + i
      BY <1>3, <2>2, LenProperties DEF WriterOK
    <3>3. \A i \in 1 .. ToWrite : chunk[i] = drawn + i
      OBVIOUS
    <3>4. ASSUME NEW i \in 1 .. Len(pending) + ToWrite
          PROVE  (pending \o chunk)[i] = start + Len(file) + i
      <4>1. CASE i <= Len(pending)
        BY <1>3, <1>4, <3>2, <4>1
      <4>2. CASE i > Len(pending)
        <5>1. i - Len(pending) \in 1 .. ToWrite
          BY <1>1, <1>3, <4>2
        <5>2. (pending \o chunk)[i] = drawn + (i - Len(pending))
          BY <1>1, <1>3, <1>4, <3>3, <4>2, <5>1
        <5>3. QED
          BY <1>1, <1>3, <3>2, <5>2 DEF TypeOK
      <4>3. QED
        BY <1>1, <1>3, <4>1, <4>2
    <3>5. DOMAIN pending' = 1 .. Len(pending) + ToWrite
      BY <1>4, <3>1, LenProperties
    <3>6. \A i \in DOMAIN pending' : pending'[i] = start' + Len(file') + i
      BY <3>1, <3>4, <3>5
    <3>7. written' = Len(file') + Len(pending') /\ drawn' = start' + written'
      BY <1>1, <1>3, <1>4, <3>1, <3>2 DEF TypeOK
    <3>8. written' <= size' /\ wpc' = "loop" /\ good' /\ exists'
      BY <1>1, <2>2 DEF WriterOK
    <3>9. QED
      BY <3>6, <3>7, <3>8 DEF WriterOK
  <2>3. QED
    BY <2>1, <2>2 DEF TypeOK
<1>8. NoHole' /\ ReaderOK' /\ HashOfAMoment'
  BY DEF NoHole, ReaderOK, HashOfAMoment, Held
<1>9. QED
  BY <1>6, <1>7, <1>8

\* The file grows at its end only, by the byte the call drew next; a reader finds
\* what it has read still there (common.cpp:608).
LEMMA FlushInv == ASSUME Inv, Flush PROVE Inv'
<1> DEFINE b == Head(pending)
<1> USE DEF Inv, Flush, readerVars
<1>1. pending \in Seq(Nat) /\ pending # <<>> /\ file \in Seq(Nat)
  BY DEF TypeOK, Bytes
<1>2. /\ Len(pending) \in Nat /\ Len(pending) > 0 /\ Len(file) \in Nat
      /\ DOMAIN pending = 1 .. Len(pending) /\ DOMAIN file = 1 .. Len(file)
  BY <1>1, LenProperties, EmptySeq
<1>3. /\ b \in Nat /\ b = pending[1]
      /\ pending' \in Seq(Nat) /\ Len(pending') = Len(pending) - 1
      /\ \A i \in 1 .. Len(pending) - 1 : pending'[i] = pending[i + 1]
  BY <1>1, HeadTailProperties
<1>4. /\ file' \in Seq(Nat) /\ Len(file') = Len(file) + 1
      /\ \A i \in 1 .. Len(file) : file'[i] = file[i]
      /\ file'[Len(file) + 1] = b
  BY <1>1, <1>3, AppendProperties
<1>5. DOMAIN file' = 1 .. Len(file) + 1 /\ DOMAIN pending' = 1 .. Len(pending) - 1
  BY <1>3, <1>4, LenProperties
<1>6. TypeOK'
  BY <1>3, <1>4 DEF TypeOK, Bytes
<1>7. /\ good /\ wpc = "loop" /\ exists
      /\ written = Len(file) + Len(pending) /\ drawn = start + written
      /\ \A i \in 1 .. Len(pending) : pending[i] = start + Len(file) + i
  BY <1>1, <1>2 DEF WriterOK
<1>8. WriterOK'
  <2>1. \A i \in 1 .. Len(pending) - 1 : pending'[i] = start + (Len(file) + 1) + i
    BY <1>2, <1>3, <1>7 DEF TypeOK
  <2>2. written' = Len(file') + Len(pending')
    BY <1>2, <1>3, <1>4, <1>7
  <2>3. \A i \in DOMAIN pending' : pending'[i] = start' + Len(file') + i
    BY <1>4, <1>5, <2>1
  <2>4. QED
    BY <1>7, <2>2, <2>3 DEF WriterOK
<1>9. NoHole'
  <2>1. b = start + (Len(file) + 1)
    BY <1>2, <1>3, <1>7 DEF TypeOK
  <2>2. \A i \in 1 .. Len(file) : file[i] = start + i
    BY <1>2 DEF NoHole
  <2>3. \A i \in 1 .. Len(file) + 1 : file'[i] = start + i
    BY <1>2, <1>4, <2>1, <2>2
  <2>4. QED
    BY <1>5, <2>3 DEF NoHole
<1>10. ASSUME rpc = "read", ~cut
       PROVE  pos <= Len(file') /\ SubSeq(file', 1, pos) = SubSeq(file, 1, pos)
  <2>1. pos \in Nat /\ pos <= Len(file)
    BY <1>10 DEF TypeOK, ReaderOK
  <2>2. /\ SubSeq(file, 1, pos) \in Seq(Nat) /\ Len(SubSeq(file, 1, pos)) = pos
        /\ \A i \in 1 .. pos : SubSeq(file, 1, pos)[i] = file[i]
    BY <1>1, <1>2, <2>1, SubSeqProperties
  <2>3. /\ SubSeq(file', 1, pos) \in Seq(Nat) /\ Len(SubSeq(file', 1, pos)) = pos
        /\ \A i \in 1 .. pos : SubSeq(file', 1, pos)[i] = file'[i]
    BY <1>2, <1>4, <2>1, SubSeqProperties
  <2>4. \A i \in 1 .. pos : SubSeq(file', 1, pos)[i] = SubSeq(file, 1, pos)[i]
    BY <1>2, <1>4, <2>1, <2>2, <2>3
  <2>5. QED
    BY <1>2, <1>4, <2>1, <2>2, <2>3, <2>4, SeqEqual
<1>11. ReaderOK'
  BY <1>10 DEF ReaderOK, Held
<1>12. HashOfAMoment'
  BY DEF HashOfAMoment
<1>13. QED
  BY <1>6, <1>8, <1>9, <1>11, <1>12

\* A full disk loses the end of the file and nothing else; the call ends when its
\* counter has reached the size (common.cpp:602, 610).
LEMMA EndOfWritingInv == ASSUME Inv, DiskFull \/ CreateReturns PROVE Inv'
<1> USE DEF Inv, readerVars, history
<1>1. TypeOK'
  BY NoBytes DEF DiskFull, CreateReturns, TypeOK
<1>2. WriterOK'
  <2>1. CASE DiskFull
    BY <2>1 DEF DiskFull, WriterOK
  <2>2. CASE CreateReturns
    BY <2>2 DEF CreateReturns, WriterOK, TypeOK
  <2>3. QED
    BY <2>1, <2>2
<1>3. NoHole' /\ ReaderOK' /\ HashOfAMoment'
  BY DEF DiskFull, CreateReturns, NoHole, ReaderOK, HashOfAMoment, Held
<1>4. QED
  BY <1>1, <1>2, <1>3

\* Hashing starts at the beginning of the file that is there
\* (common.cpp:411-429).
LEMMA OpenForHashInv == ASSUME Inv, ChunksAssumption, OpenForHash PROVE Inv'
<1> USE DEF Inv, OpenForHash, writerVars
<1>1. TypeOK'
  <2>1. seen' \subseteq Bytes /\ digest' \in Bytes
    BY NoBytes DEF TypeOK
  <2>2. gcount' \in 0 .. ReadChunk
    BY DEF ChunksAssumption
  <2>3. QED
    BY <2>1, <2>2 DEF TypeOK
<1>2. WriterOK' /\ NoHole' /\ HashOfAMoment'
  BY DEF WriterOK, NoHole, HashOfAMoment
<1>3. ReaderOK'
  <2>1. /\ buffer \in Seq(Nat) /\ file \in Seq(Nat) /\ Len(file) \in Nat
        /\ Len(buffer) = ReadChunk
    BY LenProperties DEF TypeOK, Bytes, ChunksAssumption
  <2>2. SubSeq(buffer, 1, 0) = <<>> /\ SubSeq(file, 1, 0) = <<>>
    BY <2>1, SubSeqEmpty
  <2>3. <<>> \o <<>> = <<>>
    OBVIOUS
  <2>4. Held' = <<>>
    BY <2>2 DEF Held
  <2>5. QED
    BY <2>1, <2>2, <2>3, <2>4 DEF ReaderOK
<1>4. QED
  BY <1>1, <1>2, <1>3

\* The beginning of a file with one byte more.
LEMMA PrefixGrows ==
  ASSUME NEW f \in Seq(Nat), NEW p \in Nat, p < Len(f)
  PROVE  /\ f[p + 1] \in Nat
         /\ SubSeq(f, 1, p + 1) = Append(SubSeq(f, 1, p), f[p + 1])
<1>1. Len(f) \in Nat /\ \A i \in 1 .. Len(f) : f[i] \in Nat
  BY LenProperties, ElementOfSeq
<1>2. f[p + 1] \in Nat
  BY <1>1
<1>3. /\ SubSeq(f, 1, p) \in Seq(Nat) /\ Len(SubSeq(f, 1, p)) = p
      /\ \A i \in 1 .. p : SubSeq(f, 1, p)[i] = f[i]
  BY <1>1, SubSeqProperties
<1>4. /\ SubSeq(f, 1, p + 1) \in Seq(Nat) /\ Len(SubSeq(f, 1, p + 1)) = p + 1
      /\ \A i \in 1 .. p + 1 : SubSeq(f, 1, p + 1)[i] = f[i]
  BY <1>1, SubSeqProperties
<1>5. /\ Append(SubSeq(f, 1, p), f[p + 1]) \in Seq(Nat)
      /\ Len(Append(SubSeq(f, 1, p), f[p + 1])) = p + 1
      /\ \A i \in 1 .. p : Append(SubSeq(f, 1, p), f[p + 1])[i] = SubSeq(f, 1, p)[i]
      /\ Append(SubSeq(f, 1, p), f[p + 1])[p + 1] = f[p + 1]
  BY <1>2, <1>3, AppendProperties
<1>6. \A i \in 1 .. p + 1 : SubSeq(f, 1, p + 1)[i] = Append(SubSeq(f, 1, p), f[p + 1])[i]
  BY <1>3, <1>4, <1>5
<1>7. QED
  BY <1>2, <1>4, <1>5, <1>6, SeqEqual

\* A byte read extends what is fed and held by the next byte of the file
\* (common.cpp:430).
LEMMA GetByteInv == ASSUME Inv, ChunksAssumption, GetByte PROVE Inv'
<1>1. TypeOK /\ file \in Seq(Nat) /\ pos \in Nat /\ digest \in Seq(Nat) /\ pos < Len(file)
  BY DEF Inv, TypeOK, Bytes, GetByte
<1>2. /\ file[pos + 1] \in Nat
      /\ SubSeq(file, 1, pos + 1) = Append(SubSeq(file, 1, pos), file[pos + 1])
  BY <1>1, PrefixGrows
<1>3. TypeOK'
  BY <1>1, <1>2 DEF GetByte, TypeOK, ChunksAssumption, writerVars, history
<1>4. WriterOK' /\ NoHole' /\ HashOfAMoment'
  BY DEF Inv, GetByte, WriterOK, NoHole, HashOfAMoment, writerVars, history
<1>5. ReaderOK'
  <2>1. Held \in Seq(Nat)
    BY <1>1, HeldType DEF Bytes
  <2>2. digest \o Append(Held, file[pos + 1]) = Append(digest \o Held, file[pos + 1])
    <3>1. \A d, h \in Seq(Nat), e \in Nat : d \o Append(h, e) = Append(d \o h, e)
      BY ConcatAppend
    <3>2. QED
      BY <1>1, <1>2, <2>1, <3>1
  <2>3. Held' = Append(Held, file[pos + 1])
    BY <1>1, <1>3, HeldGrows
  <2>4. /\ rpc = "read" /\ pos' = pos + 1
        /\ UNCHANGED <<rpc, file, digest, seen, cut>>
    BY DEF GetByte, history
  <2>5. ASSUME ~cut
        PROVE  /\ file \in seen /\ pos + 1 <= Len(file)
               /\ digest \o Append(Held, file[pos + 1]) = SubSeq(file, 1, pos + 1)
    <3>1. file \in seen /\ digest \o Held = SubSeq(file, 1, pos)
      BY <2>4, <2>5 DEF Inv, ReaderOK
    <3>2. Len(file) \in Nat /\ pos + 1 <= Len(file)
      BY <1>1, LenProperties
    <3>3. QED
      BY <1>2, <2>2, <3>1, <3>2
  <2>6. QED
    BY <2>3, <2>4, <2>5 DEF ReaderOK
<1>6. QED
  BY <1>3, <1>4, <1>5 DEF Inv

\* A full buffer is fed once and then counts for nothing; what is left at the end
\* of the file is fed once too (common.cpp:430-449).
LEMMA UpdateInv == ASSUME Inv, ChunksAssumption, HashChunk \/ HashRest PROVE Inv'
<1> USE DEF Inv, Update, writerVars, history
<1>1. Held \in Seq(Nat) /\ digest \in Seq(Nat) /\ digest' = digest \o Held
  BY HeldType DEF HashChunk, HashRest, Held, TypeOK, Bytes
<1>2. digest' \in Bytes
  BY <1>1, ConcatProperties DEF Bytes
<1>3. TypeOK'
  <2>1. CASE HashChunk
    BY <1>2, <2>1 DEF HashChunk, TypeOK, ChunksAssumption
  <2>2. CASE HashRest
    BY <1>2, <2>2 DEF HashRest, TypeOK
  <2>3. QED
    BY <2>1, <2>2
<1>4. WriterOK' /\ NoHole'
  <2>1. /\ UNCHANGED <<exists, file, start>>
        /\ UNCHANGED <<wpc, size, written, drawn, good, pending, calls>>
    BY DEF HashChunk, HashRest
  <2>2. QED
    BY <2>1 DEF WriterOK, NoHole
<1>5. ReaderOK'
  <2>1. CASE HashRest
    BY <2>1 DEF HashRest, ReaderOK
  <2>2. CASE HashChunk
    <3>1. buffer \in Seq(Nat) /\ Len(buffer) = ReadChunk
      BY LenProperties DEF TypeOK, ChunksAssumption
    <3>2. SubSeq(buffer, 1, 0) = <<>>
      BY <3>1, SubSeqEmpty
    <3>3. Held' = <<>>
      BY <2>2, <3>2 DEF HashChunk, Held
    <3>4. digest' \o <<>> = digest'
      BY <1>2, ConcatEmptySeq DEF Bytes
    <3>5. QED
      BY <1>1, <2>2, <3>3, <3>4 DEF HashChunk, ReaderOK
  <2>3. QED
    BY <2>1, <2>2
<1>6. HashOfAMoment'
  <2>1. CASE HashChunk
    BY <2>1 DEF HashChunk, HashOfAMoment
  <2>2. CASE HashRest
    BY <1>1, <2>2 DEF HashRest, HashOfAMoment, ReaderOK
  <2>3. QED
    BY <2>1, <2>2
<1>7. QED
  BY <1>3, <1>4, <1>5, <1>6

\* At the end of the file everything in it has been read: that is the moment the
\* digest is of (common.cpp:430, 439).
LEMMA EndOfFileInv == ASSUME Inv, EndOfFile PROVE Inv'
<1> USE DEF Inv, EndOfFile, writerVars, history
<1>1. TypeOK' /\ WriterOK' /\ NoHole' /\ HashOfAMoment'
  BY DEF TypeOK, WriterOK, NoHole, HashOfAMoment
<1>2. ReaderOK'
  <2>1. ASSUME ~cut PROVE digest \o Held = file
    <3>1. file \in Seq(Nat) /\ Len(file) \in Nat /\ pos = Len(file)
      BY <2>1, LenProperties DEF TypeOK, Bytes, ReaderOK
    <3>2. SubSeq(file, 1, pos) = file
      BY <3>1, SubSeqFull
    <3>3. QED
      BY <2>1, <3>2 DEF ReaderOK
  <2>2. QED
    BY <2>1 DEF ReaderOK, Held
<1>3. QED
  BY <1>1, <1>2

\* A call that throws returns nothing (common.cpp:412-448).
LEMMA ThrowsInv == ASSUME Inv, CannotHash \/ HashFails PROVE Inv'
  BY DEF CannotHash, HashFails, HashThrows, writerVars, history,
         Inv, TypeOK, WriterOK, ReaderOK, NoHole, HashOfAMoment, Held

-----------------------------------------------------------------------------

\* Every step of the writer, of the disk and of the reader preserves the
\* invariant.
LEMMA NextInv == ASSUME ChunksAssumption, SizesAssumption, Inv, [Next]_vars PROVE Inv'
<1>1. CASE \E s \in Sizes : Opens(s) \/ OpenFails(s)
  BY <1>1, OpensInv, OpenFailsInv
<1>2. CASE Writer \/ DiskFull
  BY <1>2, WriteNextInv, FlushInv, EndOfWritingInv DEF Writer
<1>3. CASE OpenForHash \/ CannotHash \/ HashFails
  BY <1>3, OpenForHashInv, ThrowsInv
<1>4. CASE Reader
  BY <1>4, GetByteInv, UpdateInv, EndOfFileInv DEF Reader
<1>5. CASE UNCHANGED vars
  BY <1>5 DEF vars, writerVars, readerVars, history,
              Inv, TypeOK, WriterOK, ReaderOK, NoHole, HashOfAMoment, Held
<1>6. QED
  BY <1>1, <1>2, <1>3, <1>4, <1>5 DEF Next

\* The inductive invariant of both functions and the file between them
\* (common.cpp:409-449, 591-611).
THEOREM Invariance == Spec => []Inv
<1>1. Init => Inv
  BY InitInv, ChunksAssumption
<1>2. Inv /\ [Next]_vars => Inv'
  BY NextInv, ChunksAssumption, SizesAssumption
<1>3. QED
  BY <1>1, <1>2, PTL DEF Spec

\* The digest returned is of something the file held during the call, for any
\* two chunk sizes, unless the file was truncated meanwhile
\* (common.cpp:430-449).
THEOREM HashOfAMomentHolds == Spec => []HashOfAMoment
<1>1. Inv => HashOfAMoment
  BY DEF Inv
<1>2. QED
  BY Invariance, <1>1, PTL

\* A call of create_random_file whose stream has not failed leaves a file of the
\* size asked for (common.cpp:601-610).
THEOREM WrittenWholeHolds == Spec => []WrittenWhole
<1>1. Inv => WrittenWhole
  <2> SUFFICES ASSUME Inv, wpc = "idle", good PROVE exists /\ Len(file) = size
    BY DEF WrittenWhole
  <2>1. pending = <<>> /\ file \in Seq(Nat)
    BY DEF Inv, WriterOK, TypeOK, Bytes
  <2>2. Len(pending) = 0 /\ Len(file) \in Nat
    BY <2>1, LenProperties
  <2>3. QED
    BY <2>2 DEF Inv, WriterOK
<1>2. QED
  BY Invariance, <1>1, PTL

\* The file is the beginning of what the call that truncated it drew
\* (common.cpp:608-609).
THEOREM NoHoleHolds == Spec => []NoHole
<1>1. Inv => NoHole
  BY DEF Inv
<1>2. QED
  BY Invariance, <1>1, PTL
=============================================================================
