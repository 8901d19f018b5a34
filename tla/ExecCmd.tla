------------------------------- MODULE ExecCmd -------------------------------
(***************************************************************************)
(* common::exec_cmd and the two functions that judge a command by what it  *)
(* writes, movebycmd and file_md5.  The command runs in a child process;   *)
(* its output, errors included, comes back through a pipe while it runs.   *)
(* Meanwhile another process replaces the file that file_md5 is asked      *)
(* about.  The commands, the shell and the pipe are outside the code.      *)
(*                                                                         *)
(* A character stands for a class of characters: a version of the file for *)
(* the letters and digits of its digest, "m" for other lower case letters, *)
(* "." for what no digest contains, "nl" and "NUL" for themselves.         *)
(***************************************************************************)
EXTENDS Integers, Sequences, SequencesExt, FiniteSets

CONSTANTS
  Versions,    \* contents the file may have
  BufferSize,  \* buffer_size, 128 in the code
  DigestLen,   \* length of a digest, 32
  PipeCap,     \* capacity of the pipe
  Messages,    \* what a command or the shell writes when something is wrong
  Outputs      \* what a command given to exec_cmd by the user writes

VARIABLES
  task,     \* the function called: exec_cmd, movebycmd or file_md5
  pc,       \* where the caller is
  buffer,   \* characters of the fgets in progress
  result,   \* text collected
  value     \* the digest file_md5 returns

callVars == <<task, pc, buffer, result, value>>

VARIABLES
  child,    \* none, ready, writing, exited
  out,      \* what the command has still to write
  pipe,     \* characters in the pipe
  file,     \* absent, empty or a version
  moved     \* the file to be moved is at its destination

worldVars == <<child, out, pipe, file, moved>>

(* History variables. *)
VARIABLES
  written,  \* all the command wrote
  killed,   \* the command was killed
  seen      \* what the file was since the call began

history == <<written, killed, seen>>
vars == <<callVars, worldVars, history>>

Tasks == {"exec_cmd", "movebycmd", "file_md5"}
Contents == {"absent", "empty"} \cup Versions
Letters == Versions \cup {"empty", "m"}
Chars == Letters \cup {".", "nl", "NUL"}
Returned == {"returned", "threw", "crashed"}

Null == <<"NULL">>  \* a null char *, no text of Chars
Digest(v) == [i \in 1 .. DigestLen |-> v]

\* A mistake: any line that begins with a letter is taken for a digest.
IsDigest_Short(s) == Len(s) >= DigestLen /\ s[1] \in Letters

\* The regular expression ^([a-z\d]{32}).
IsDigest(s) == Len(s) >= DigestLen /\ \A i \in 1 .. DigestLen : s[i] \in Letters

ASSUME SizesAssumption ==
  BufferSize \in Nat \ {0, 1} /\ DigestLen \in Nat \ {0} /\ PipeCap \in Nat \ {0}
ASSUME VersionsAssumption ==
  Versions \cap {"m", ".", "nl", "NUL", "NULL", "absent", "empty"} = {}

\* A message is a line of text that names the program first, "md5sum: ...".
ASSUME MessagesAssumption ==
  \A t \in Messages :
    /\ t \in Seq(Chars) /\ t # <<>> /\ ~Contains(t, "NUL")
    /\ Len(t) >= DigestLen => \E i \in 1 .. DigestLen : t[i] \notin Letters
ASSUME OutputsAssumption == Outputs \subseteq Seq(Chars)

Init ==
  /\ task \in Tasks
  /\ pc = IF task = "file_md5" THEN "exists" ELSE "popen"
  /\ buffer = <<>> /\ result = <<>> /\ value = <<>>
  /\ child = "none"
  /\ out = <<>> /\ pipe = <<>>
  /\ file \in Contents
  /\ moved = FALSE
  /\ written = <<>>
  /\ killed = FALSE
  /\ seen = {file}

-----------------------------------------------------------------------------
(* file_md5 before the command.                                             *)

FileExists ==
  /\ pc = "exists"
  /\ pc' = IF file = "absent" THEN "threw" ELSE "size"
  /\ UNCHANGED <<task, buffer, result, value, worldVars, history>>

\* file_size throws when the file has vanished; an empty file needs no command.
FileSize ==
  /\ pc = "size"
  /\ CASE file = "absent" -> pc' = "threw" /\ UNCHANGED value
       [] file = "empty" -> pc' = "returned" /\ value' = Digest("empty")
       [] OTHER -> pc' = "popen" /\ UNCHANGED value
  /\ UNCHANGED <<task, buffer, result, worldVars, history>>

-----------------------------------------------------------------------------
(* exec_cmd.                                                                *)

\* A mistake: the command is waited for and then read.
Popen_WaitsFirst ==
  /\ pc = "popen"
  /\ pc' = "pclose"
  /\ child' = "ready"
  /\ UNCHANGED <<task, buffer, result, value, out, pipe, file, moved, history>>

Popen ==
  /\ pc = "popen"
  /\ pc' = "fgets"
  /\ child' = "ready"
  /\ UNCHANGED <<task, buffer, result, value, out, pipe, file, moved, history>>

PopenFails ==
  /\ pc = "popen"
  /\ pc' = "judge"
  /\ result' = Null
  /\ UNCHANGED <<task, buffer, value, worldVars, history>>

ChunkComplete == Len(buffer) = BufferSize - 1 \/ (buffer # <<>> /\ Last(buffer) = "nl")
EndOfFile == pipe = <<>> /\ child = "exited"

\* fgets takes a character, waiting for it when the pipe is empty.
GetChar ==
  /\ pc = "fgets"
  /\ ~ChunkComplete /\ pipe # <<>>
  /\ buffer' = Append(buffer, Head(pipe))
  /\ pipe' = Tail(pipe)
  /\ UNCHANGED <<task, pc, result, value, child, out, file, moved, history>>

\* What strlen and memcpy see of a buffer: the characters before the first NUL.
CString(s) ==
  SubSeq(s, 1, Cardinality({i \in 1 .. Len(s) : \A j \in 1 .. i : s[j] # "NUL"}))

\* A mistake: the chunk takes the place of what was collected.
Collect_Replaces == result' = CString(buffer)
Collect == result' = result \o CString(buffer)

\* fgets returns: a line, a full buffer, or what there is at the end.
Chunk ==
  /\ pc = "fgets"
  /\ buffer # <<>>
  /\ ChunkComplete \/ EndOfFile
  /\ Collect
  /\ buffer' = <<>>
  /\ UNCHANGED <<task, pc, value, worldVars, history>>

NoMore ==
  /\ pc = "fgets"
  /\ buffer = <<>> /\ EndOfFile
  /\ pc' = "pclose"
  /\ UNCHANGED <<task, buffer, result, value, worldVars, history>>

\* pclose waits for the command; what it returns is ignored.
Pclose ==
  /\ pc = "pclose"
  /\ child = "exited"
  /\ pc' = "judge"
  /\ UNCHANGED <<task, buffer, result, value, worldVars, history>>

-----------------------------------------------------------------------------
(* What the callers make of the result.                                     *)

ReturnResult == task = "exec_cmd" /\ pc' = "returned" /\ UNCHANGED value

\* A std::string made from a null pointer throws; any text is an error, but for
\* what move says on Windows and mv never does.
JudgeMove ==
  /\ task = "movebycmd"
  /\ pc' = IF result = <<>> THEN "returned" ELSE "threw"
  /\ UNCHANGED value

\* regex_search does not check its pointer.
JudgeDigest ==
  /\ task = "file_md5"
  /\ IF result = Null THEN pc' = "crashed" /\ UNCHANGED value
     ELSE IF IsDigest(result)
       THEN pc' = "returned" /\ value' = SubSeq(result, 1, DigestLen)
       ELSE pc' = "threw" /\ UNCHANGED value

Judge ==
  /\ pc = "judge"
  /\ ReturnResult \/ JudgeMove \/ JudgeDigest
  /\ UNCHANGED <<task, buffer, result, worldVars, history>>

Caller ==
  \/ FileExists \/ FileSize
  \/ Popen \/ PopenFails \/ GetChar \/ Chunk \/ NoMore \/ Pclose
  \/ Judge

-----------------------------------------------------------------------------
(* The command, and other processes.                                        *)

\* A mistake: standard error does not go into the pipe.
Captured_StdoutOnly(text) == <<>>

\* command + " 2>&1"
Captured(text) == text

\* mv says nothing, or has something to say, whether it moved the file or not.
Move ==
  \/ moved' = TRUE /\ out' \in {<<>>} \cup {Captured(t) : t \in Messages}
  \/ UNCHANGED moved /\ out' \in {Captured(t) : t \in Messages}

\* md5sum writes a line with the digest and the name, or what went wrong.
Md5sum ==
  /\ \/ file # "absent" /\ out' = Digest(file) \o <<".", "nl">>
     \/ out' \in {Captured(t) : t \in Messages}
  /\ UNCHANGED moved

Work ==
  /\ child = "ready"
  /\ child' = "writing"
  /\ CASE task = "exec_cmd" -> out' \in Outputs /\ UNCHANGED moved
       [] task = "movebycmd" -> Move
       [] task = "file_md5" -> Md5sum
  /\ UNCHANGED <<callVars, pipe, file, history>>

\* write blocks while the pipe is full.
Write ==
  /\ child = "writing"
  /\ out # <<>> /\ Len(pipe) < PipeCap
  /\ pipe' = Append(pipe, Head(out))
  /\ written' = Append(written, Head(out))
  /\ out' = Tail(out)
  /\ UNCHANGED <<callVars, child, file, moved, killed, seen>>

Exit ==
  /\ child = "writing" /\ out = <<>>
  /\ child' = "exited"
  /\ UNCHANGED <<callVars, out, pipe, file, moved, history>>

Killed ==
  /\ child \in {"ready", "writing"}
  /\ child' = "exited"
  /\ killed' = TRUE
  /\ out' = <<>>
  /\ UNCHANGED <<callVars, pipe, file, moved, written, seen>>

Command == Work \/ Write \/ Exit

\* The file is replaced as a whole, by a rename, or removed.
ReplaceFile ==
  /\ task = "file_md5" /\ pc \notin Returned
  /\ file' \in Contents \ {file}
  /\ seen' = seen \cup {file'}
  /\ UNCHANGED <<callVars, child, out, pipe, moved, written, killed>>

-----------------------------------------------------------------------------

Next == Caller \/ Command \/ Killed \/ ReplaceFile

Spec == Init /\ [][Next]_vars

\* The caller runs, and the command does its work, writes and exits by itself.
FairSpec == Spec /\ WF_vars(Caller) /\ WF_vars(Command)

-----------------------------------------------------------------------------
(* Properties.                                                              *)

Text == Seq(Chars)

TypeOK ==
  /\ task \in Tasks
  /\ pc \in {"exists", "size", "popen", "fgets", "pclose", "judge"} \cup Returned
  /\ child \in {"none", "ready", "writing", "exited"}
  /\ buffer \in Text /\ out \in Text /\ pipe \in Text /\ written \in Text
  /\ result \in Text \cup {Null}
  /\ value \in {<<>>} \cup [1 .. DigestLen -> Letters]
  /\ Len(buffer) < BufferSize /\ Len(pipe) <= PipeCap
  /\ file \in Contents /\ seen \subseteq Contents
  /\ moved \in BOOLEAN /\ killed \in BOOLEAN

\* However the command's writes, the capacity of the pipe and the size of the
\* buffer cut the output, exec_cmd collects every character the command wrote,
\* in order, when none of them is NUL (common.cpp:350-359).
WholeOutput ==
  child = "exited" /\ pc \in {"pclose", "judge"} \cup Returned /\ ~Contains(written, "NUL")
    => result = written

\* The digest file_md5 returns is that of a content the file had during the
\* call: whatever replaces the file between the three looks at it, and whatever
\* the command writes instead of a digest or before it is killed
\* (common.cpp:374-407).
Md5OfTheCall ==
  task = "file_md5" /\ pc = "returned" => \E v \in seen \ {"absent"} : value = Digest(v)

\* movebycmd returns normally only when the file was moved, unless the command
\* was killed: what the command says went wrong reaches the caller through the
\* pipe (common.cpp:332, 478-487).
MoveReported ==
  task = "movebycmd" /\ pc = "returned" /\ ~killed => moved

\* What the steps preserve.  The characters collected, held in the buffer and in
\* the pipe are those written, in that order; at the end of the file they are
\* all collected; a command that is not the user's writes a line it can write,
\* or the beginning of one; and mv is silent only when it has moved the file.
Lines == Messages \cup {<<>>} \cup {Digest(v) \o <<".", "nl">> : v \in seen \ {"absent"}}

Before == {"exists", "size", "popen"}
After == {"pclose", "judge"} \cup Returned

NotBegun ==
  /\ child = "none" =>
       /\ buffer = <<>> /\ pipe = <<>> /\ written = <<>> /\ out = <<>> /\ ~killed
       /\ result \in {<<>>, Null}
       /\ pc \in Before => result = <<>>
       /\ pc = "judge" => result = Null
       /\ pc \notin {"fgets", "pclose"}
       /\ pc = "returned" /\ task # "exec_cmd" =>
            task = "file_md5" /\ value = Digest("empty") /\ "empty" \in seen
  /\ pc \in Before => child = "none"
  /\ pc \in {"exists", "size"} => task = "file_md5"

Flow ==
  /\ child # "none" => result # Null
  /\ result # Null /\ ~Contains(written, "NUL") => result \o buffer \o pipe = written
  /\ child # "none" /\ pc \in After => buffer = <<>> /\ pipe = <<>> /\ child = "exited"

Said ==
  /\ task # "exec_cmd" => \E t \in Lines : IsPrefix(written \o out, t)
  /\ task = "movebycmd" /\ child \in {"writing", "exited"} /\ ~killed =>
       moved \/ written \o out # <<>>
  /\ child \in {"ready", "exited"} => out = <<>>
  /\ child = "ready" => written = <<>>

Inv ==
  /\ TypeOK /\ NotBegun /\ Flow /\ Said /\ Md5OfTheCall /\ MoveReported
  /\ file \in seen

\* Every call ends: a command that writes more than the pipe holds is not left
\* waiting for the caller that waits for it (common.cpp:350-361).
Ends == <>(pc \in Returned)

\* test/common_test.cpp:18-19 asserts that the destination exists once
\* movebycmd has returned.
MovedAsTested ==
  task = "movebycmd" /\ pc = "returned" => moved
=============================================================================
