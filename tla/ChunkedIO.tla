------------------------------ MODULE ChunkedIO ------------------------------
(***************************************************************************)
(* common::file_sha256 reading a file in chunks while                      *)
(* common::create_random_file, in another thread or process, writes it in  *)
(* chunks of another size.  Neither locks the file.  The disk may fill up, *)
(* a read may fail, and a later call of create_random_file truncates the   *)
(* file under a reader that has it open.                                   *)
(*                                                                         *)
(* Random bytes are numbered in the order they are drawn, so that every    *)
(* byte differs from every other; a digest is the bytes it was fed.        *)
(***************************************************************************)
EXTENDS Integers, Sequences, SequencesExt

CONSTANTS
  ReadChunk,   \* size of the buffer of file_sha256, 65536
  WriteChunk,  \* size of the vector of create_random_file, 1024 * 1024
  Sizes,       \* sizes that create_random_file is asked for
  MaxCalls     \* bound: calls of create_random_file

ASSUME ChunksAssumption == ReadChunk \in Nat \ {0} /\ WriteChunk \in Nat \ {0}
ASSUME SizesAssumption == Sizes \subseteq Nat
ASSUME MaxCallsAssumption == MaxCalls \in Nat

VARIABLES
  exists,   \* is there a file?
  file      \* its bytes

VARIABLES
  wpc,      \* create_random_file: idle or loop
  size,     \* its argument
  written,  \* its counter
  drawn,    \* random bytes drawn so far, by all calls
  good,     \* the state of its stream
  pending,  \* bytes the stream has taken and not yet given to the file
  calls     \* calls so far

writerVars == <<wpc, size, written, drawn, good, pending, calls>>

VARIABLES
  rpc,      \* file_sha256: idle, read, final, returned, threw
  pos,      \* position of its stream in the file
  buffer,   \* the array it reads into
  gcount,   \* bytes of it the last read has filled
  digest    \* the bytes fed to the digest

readerVars == <<rpc, pos, buffer, gcount, digest>>

(* History variables. *)
VARIABLES
  start,    \* bytes drawn when the file was last truncated
  seen,     \* what the file has held since file_sha256 opened it
  cut       \* the file was truncated since then

history == <<start, seen, cut>>
vars == <<exists, file, writerVars, readerVars, history>>

Init ==
  /\ exists = FALSE /\ file = <<>>
  /\ wpc = "idle" /\ size = 0 /\ written = 0 /\ drawn = 0
  /\ good = FALSE /\ pending = <<>> /\ calls = 0
  /\ rpc = "idle" /\ pos = 0 /\ gcount = 0 /\ digest = <<>>
  /\ buffer = [i \in 1 .. ReadChunk |-> 0]
  /\ start = 0 /\ seen = {} /\ cut = FALSE

-----------------------------------------------------------------------------
(* create_random_file.  Nothing looks at the state of the stream, but every *)
(* operation of a stream that has failed does nothing.                      *)

Create(s) ==
  /\ wpc = "idle" /\ calls < MaxCalls
  /\ wpc' = "loop"
  /\ size' = s /\ written' = 0 /\ pending' = <<>>
  /\ calls' = calls + 1
  /\ UNCHANGED <<drawn, readerVars>>

\* The stream opens the file, which truncates it.
Opens(s) ==
  /\ Create(s)
  /\ exists' = TRUE /\ file' = <<>>
  /\ good' = TRUE
  /\ start' = drawn /\ seen' = seen \cup {<<>>} /\ cut' = TRUE

OpenFails(s) ==
  /\ Create(s)
  /\ good' = FALSE
  /\ UNCHANGED <<exists, file, history>>

\* Mistakes: every chunk is a whole one; a stream that has failed is made to
\* go on.
ToWrite_Whole == WriteChunk
Accept_Clears(bytes) == pending' = pending \o bytes

\* min(chunk, size - written)
ToWrite == IF size - written < WriteChunk THEN size - written ELSE WriteChunk

Accept(bytes) == pending' = IF good THEN pending \o bytes ELSE pending

WriteNext ==
  /\ wpc = "loop" /\ written < size
  /\ Accept([i \in 1 .. ToWrite |-> drawn + i])
  /\ drawn' = drawn + ToWrite
  /\ written' = written + ToWrite
  /\ UNCHANGED <<exists, file, wpc, size, good, calls, readerVars, history>>

\* The stream gives bytes to the file, at the latest when it is destroyed.
Flush ==
  /\ pending # <<>>
  /\ file' = Append(file, Head(pending))
  /\ pending' = Tail(pending)
  /\ seen' = seen \cup {file'}
  /\ UNCHANGED <<exists, wpc, size, written, drawn, good, calls, readerVars, start, cut>>

DiskFull ==
  /\ pending # <<>>
  /\ pending' = <<>>
  /\ good' = FALSE
  /\ UNCHANGED <<exists, file, wpc, size, written, drawn, calls, readerVars, history>>

CreateReturns ==
  /\ wpc = "loop" /\ written >= size /\ pending = <<>>
  /\ wpc' = "idle"
  /\ UNCHANGED <<exists, file, size, written, drawn, good, pending, calls, readerVars, history>>

-----------------------------------------------------------------------------
(* file_sha256.  It throws when the file cannot be opened or the digest     *)
(* cannot be made.                                                          *)

HashThrows ==
  /\ rpc' = "threw"
  /\ UNCHANGED <<exists, file, writerVars, pos, buffer, gcount, digest, history>>

OpenForHash ==
  /\ rpc \in {"idle", "returned", "threw"}
  /\ exists
  /\ rpc' = "read"
  /\ pos' = 0 /\ gcount' = 0 /\ digest' = <<>>
  /\ seen' = {file} /\ cut' = FALSE
  /\ UNCHANGED <<exists, file, writerVars, buffer, start>>

CannotHash == rpc = "idle" /\ HashThrows

\* file.read takes a byte.
GetByte ==
  /\ rpc = "read" /\ gcount < ReadChunk
  /\ pos < Len(file)
  /\ buffer' = [buffer EXCEPT ![gcount + 1] = file[pos + 1]]
  /\ gcount' = gcount + 1
  /\ pos' = pos + 1
  /\ UNCHANGED <<exists, file, writerVars, rpc, digest, history>>

\* Mistakes: the whole array is fed, whatever gcount says; a chunk takes the
\* place of those before it.
Update_Whole == digest' = digest \o buffer
Update_Restarts == digest' = SubSeq(buffer, 1, gcount)

\* EVP_DigestUpdate(context, buffer, file.gcount())
Update == digest' = digest \o SubSeq(buffer, 1, gcount)

\* read has filled the buffer; the loop goes on.
HashChunk ==
  /\ rpc = "read" /\ gcount = ReadChunk
  /\ Update
  /\ gcount' = 0
  /\ UNCHANGED <<exists, file, writerVars, rpc, pos, buffer, history>>

\* A mistake: a stream at the end of the file does not leave the loop.
EndOfFile_Retries ==
  /\ rpc = "read" /\ gcount < ReadChunk
  /\ pos >= Len(file)
  /\ gcount' = 0
  /\ UNCHANGED <<exists, file, writerVars, rpc, pos, buffer, digest, history>>

\* read finds the end of the file before it has filled the buffer.
EndOfFile ==
  /\ rpc = "read" /\ gcount < ReadChunk
  /\ pos >= Len(file)
  /\ rpc' = "final"
  /\ UNCHANGED <<exists, file, writerVars, pos, buffer, gcount, digest, history>>

\* The update after the loop, with what the last read has left.
HashRest ==
  /\ rpc = "final"
  /\ Update
  /\ rpc' = "returned"
  /\ UNCHANGED <<exists, file, writerVars, pos, buffer, gcount, history>>

\* A read or an update of the digest fails.
HashFails == rpc \in {"read", "final"} /\ HashThrows

-----------------------------------------------------------------------------

Writer == WriteNext \/ Flush \/ CreateReturns
Reader == GetByte \/ HashChunk \/ EndOfFile \/ HashRest

Next ==
  \/ \E s \in Sizes : Opens(s) \/ OpenFails(s)
  \/ Writer \/ DiskFull
  \/ OpenForHash \/ CannotHash \/ Reader \/ HashFails

Spec == Init /\ [][Next]_vars

\* The thread in file_sha256 runs; that in create_random_file may stop.
FairSpec == Spec /\ WF_vars(Reader)

-----------------------------------------------------------------------------
(* Properties.                                                              *)

Bytes == Seq(Nat)

TypeOK ==
  /\ exists \in BOOLEAN /\ file \in Bytes
  /\ wpc \in {"idle", "loop"}
  /\ size \in Nat /\ written \in Nat /\ drawn \in Nat /\ calls \in Nat
  /\ good \in BOOLEAN /\ pending \in Bytes
  /\ rpc \in {"idle", "read", "final", "returned", "threw"}
  /\ pos \in Nat /\ gcount \in 0 .. ReadChunk
  /\ buffer \in [1 .. ReadChunk -> Nat]
  /\ digest \in Bytes
  /\ start \in Nat /\ seen \subseteq Bytes /\ cut \in BOOLEAN

\* The digest file_sha256 returns is that of something the file held during the
\* call, however the writer and the chunks of both meet, unless the file was
\* truncated under it (common.cpp:430-449).
HashOfAMoment == rpc = "returned" /\ ~cut => digest \in seen

\* When create_random_file returns and its stream has not failed, the file holds
\* all the bytes asked for; this holds too when the last chunk is a short one or
\* the size is zero (common.cpp:601-610).
WrittenWhole == wpc = "idle" /\ calls > 0 /\ good => exists /\ Len(file) = size

\* The file has no hole: it is the beginning of what the call that truncated it
\* drew, although that call goes on after the disk was full (common.cpp:608-609).
NoHole == \A i \in DOMAIN file : file[i] = start + i

\* What the steps preserve.  While its stream is good, create_random_file has
\* drawn what is in the file and in the stream, in that order; before the end of
\* the file is found, what file_sha256 has fed and holds is the file up to its
\* position, and afterwards it is something the file has held.
WriterOK ==
  /\ written <= size
  /\ pending # <<>> => good /\ wpc = "loop"
  /\ good =>
       /\ exists
       /\ written = Len(file) + Len(pending)
       /\ drawn = start + written
       /\ \A i \in DOMAIN pending : pending[i] = start + Len(file) + i
       /\ wpc = "idle" => written = size

Held == SubSeq(buffer, 1, gcount)

ReaderOK ==
  /\ rpc = "read" /\ ~cut =>
       /\ file \in seen
       /\ pos <= Len(file)
       /\ digest \o Held = SubSeq(file, 1, pos)
  /\ rpc = "final" /\ ~cut => digest \o Held \in seen

Inv == TypeOK /\ WriterOK /\ ReaderOK /\ NoHole /\ HashOfAMoment

\* file_sha256 ends, whatever the writer does (common.cpp:430).
HashEnds == (rpc \in {"read", "final"}) ~> (rpc \in {"returned", "threw"})
=============================================================================
