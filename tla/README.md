# Models and proofs for common-cpp

`common-cpp` is a small C++ library: a recursive directory monitor, an HTTPS
client on top of Boost.Beast, and helpers for files, commands, strings and
random numbers. There is no document beside the code; what it should do is
read from `src/common.cpp`, `src/linux_monitor.cpp`, `src/http.cpp`,
`src/monitor.cpp`, the headers in `src/include/`, and the test program
`src/test/common_test.cpp`, which calls most of it once.

Few functions here keep state for long, but many of them are *sequences of
system calls during which somebody else acts*: another process that renames a
directory, another caller of `makedir`, a server that answers late, a command
that writes while it is being read. Those interleavings are what the models are
about.

## 1. Inventory

| component | source | state | operations | module |
|---|---|---|---|---|
| Linux directory monitor | `linux_monitor.cpp`, `include/monitor.h` | `wd_map` (descriptor to path), the inotify descriptor `fd`, the reader thread, the batch being read | constructor, `watch`, `read_async`, reader loop, callback, destructor | `LinuxMonitor`, `ChangeFeed` |
| kernel and other processes | external | directory tree, watches, bounded event queue | mkdir, rmdir, rename, file changes, `inotify_add_watch`, `read` | `Inotify` |
| recursive listing | `common.cpp:132-173` | the open directory streams of the recursion, the caller's vector | `find_files` | `FindFiles`; `LinuxMonitor` (as `watch` calls it) |
| HTTP client | `http.cpp`, `include/http.h` | request, response, buffer, stream, `io_context`, error, response text | `GET`, `PUT`, `POST`, `connect`, five handlers | `HttpClient`, `OneShotRpc` |
| HTTP values | `http.cpp:13-58, 102-124`, `common.cpp:174-188, 312-329` | blocks of the heap that values own | `value`, `data_block`, `UrlValues::add`, the body of `POST`, `strcpy`, `url_encode` | `FormValues`, `Strings` |
| makedir | `common.cpp:280-304` | the path in the file system | five file system calls | `MakeDir` |
| external commands | `common.cpp:330-408, 468-488` | pipe, text collected | `exec_cmd`, `movebycmd`, `file_md5` | `ExecCmd` |
| chunked file I/O | `common.cpp:409-467, 490-494, 591-611` | streams, counters, digest, the file | `file_sha256`, `create_random_file`, `file_size` | `ChunkedIO` (the two loops) |
| strings and paths | `common.cpp`, `common.h` | none | `trim_right`, `trim_trailing_space`, `compare_md5`, `get_relative_path`, `get_file_name`, `formalize_path`, ... | `Strings` |
| console output, pause | `common.cpp:228-246` | `print_mtx` | `print_debug`, `print_info`, `pause` | not modelled |
| random numbers, date | `common.cpp:514-536` | seed | `random_num`, `currentDateTime` | not modelled |
| errors | `common.cpp:537-554` | message | `error` | within `HttpClient` |
| Windows monitor | `monitor.cpp` | `OVERLAPPED`, buffer, whether a read is outstanding | constructor, `read_async`, completion routine | `WinMonitor`, `ChangeSignal` |
| build files, vendored headers | `CMakeLists.txt`, `sqlite3.h`, `dirent-win.h` | none | none | not modelled |

How they interact. The monitor's `watch` calls `find_files`, and its reader
thread calls `watch` for every directory it meets; the user's callback runs on
the reader thread. `movebycmd` and `file_md5` go through `exec_cmd`, and judge
the command only by the text it collected. The HTTP client's five methods meet
in `connect`, which runs an `io_context` on the calling thread; each handler
starts the next operation. `file_md5` throws what the caller must handle;
exceptions in the reader thread have no handler at all.

What makes each hard, and what makes it correct:

* **Monitor.** The tree changes between the kernel's event and the lookup,
  between listing and watching, and inside a batch. Correct means that the
  reader catches up: every directory is watched (`Covered`), under its present
  path (`PathsCurrent`), never under another's (`PathWasReal`); each event is
  delivered once and in order (`FeedFair`); and the reader dies of a missing
  path only when somebody took the path away (`DeathCause`).
* **HTTP client.** One object serves call after call while a request may reach
  the server late or never. Correct means that a call sees only its own answer
  (`OwnAnswer`), sends only its own request (`AsAsked`), says reliably that the
  request has not left (`SafeToRepeat`), and always ends, with an empty text only
  for an empty answer (`OneShot`).
* **Listing.** A directory is opened by name some time after its name was read,
  and read while others change it; an exception passes the levels above. Correct
  means that what stays in place is listed once (`Complete`), nothing is invented
  (`Real`), and streams are accounted for (`HandleBalance`, `ThrowsForCause`).
* **Form values.** Every value owns a string and is passed by value. Correct means
  that each block has one owner (`Owned`), and that what is sent is what was meant
  (`SentAsMeant`); that the text of an integer is lost for good is a fact of the
  code that the model counts (`LostAreInts`).
* **Strings.** Loops and regular expressions over the edges of strings. Correct
  means agreement with what their names promise (`TrimsAll`, `DigestsCompared`,
  `PathsAgree`, `DecodesBack`), where it holds.
* **Windows monitor.** One buffer is written by the system and read by a routine
  that runs in some later alertable wait. Correct means that the two never overlap
  (`OneAtATime`), that changes are told once and in order (`ToldInOrder`), that
  none goes unnoticed, and that there are no calls without a change (`Signalled`).
* **makedir.** It asks, then acts on an answer that may be stale. Correct means
  a directory at the end (`QuietMeansDir`) and no loss where nothing had to be
  removed (`ContentsSafe`, `SettledStays`).
* **Commands.** Output is cut by the writer, the pipe and `fgets`; a command may
  fail, be killed, or look at a file that has just been replaced. Correct means
  `WholeOutput`, `Md5OfTheCall`, `MoveReported` and `Ends`.
* **Chunked I/O.** A file is hashed in pieces while another process writes it in
  pieces of another size, onto a disk that may be full. Correct means a digest of
  something the file once was (`HashOfAMoment`), a whole file (`WrittenWhole`) or
  at least its beginning (`NoHole`), and an end (`HashEnds`).

The full list of hazards, each at its line, is in `PROJECT.json`; those without
a property say why.

## 2. Modules

```
Inotify <- LinuxMonitor <- MCLinuxMonitor (TLC)
                |  ^------ LinuxMonitorProofs
                '--> ChangeFeed (refined: Feed)
HttpClient --> OneShotRpc (refined: Rpc)      HttpClient <- HttpClientProofs
ExecCmd <- MCExecCmd (TLC), ExecCmdProofs
ChunkedIO <- ChunkedIOProofs
FindFiles <- MCFindFiles (TLC), FindFilesProofs
FormValues <- MCFormValues (TLC), FormValuesProofs
Strings <- MCStrings (TLC, with the properties)
MakeDir, MCStrings <- CommonProofs
WinMonitor --> ChangeSignal (refined: Signals)      WinMonitor <- WinMonitorProofs
```

An arrow `A <- B` reads "B extends A".

### Inotify and LinuxMonitor

`Inotify` is the outside world. A directory is a number that is never used
again, and stands for its inode and for its watch descriptor; `tree` gives the
path of each. `Outer` (0) is the working directory and is not watched; `Root`
(1) is the directory the user asks for, so a move out of or into the watched
tree is a rename between them. Files are kept only as the events they cause.
The queue is bounded, merges an event equal to the last one and reports an
overflow once, as `IN_Q_OVERFLOW` does.

`LinuxMonitor` follows the threads through one `pc`. In the test
(`test/common_test.cpp:77-85`) `watch` returns before `read_async` starts the
reader and nothing else is called, so at most one thread is inside the monitor:
`caller` says which. Correspondence:

| TLA+ | code |
|---|---|
| `wd_map` | `wd_map`, line 11; `Lookup` and the `Put` in `Decode` are its `operator[]`, which inserts an empty string |
| `batch`, `fullpath` | `buf` between `read` and the end of the loop, and `fullpath`, lines 46-62 |
| `todo`, `paths` | the recursion of `find_files` and the vector it fills |
| `Construct`, `CallWatch`, `ReadAsync`, `Destroy` | the members of the class |
| `ListDir`, `OpendirFails` | one level of `find_files`: `opendir` and `readdir` to its end or to an error, or its exception |
| `AddNext`, `AddWatchFails` | one round of the loop at lines 30-39 |
| `Read`, `ReadFails`, `Handle`, `HandleFails`, `Callback` | the reader loop, lines 44-106; `ChangeType` is its chain of masks |
| `Throw` | an exception: ends the call on the main thread, the process on the reader thread |

Four history variables, which no guard reads, let properties speak of the past: `hist`
(paths a directory has had), `blind` (directories that appeared where neither a
listing nor an event could tell of them, or that an error of `readdir` kept out of a
listing), `disturbed` (somebody moved or removed
a path the running `watch` works on) and `lost` (the kernel dropped an event).

Calls of the system fail for two kinds of reason. A path may be no directory any
more: `opendir`, `inotify_add_watch`. Or the system refuses what is there, at any
moment: `max_user_watches`, a limit on streams or memory, a permission; that is the
fault `refused`, of `opendir` (`common.cpp:139`), of `inotify_add_watch`
(`linux_monitor.cpp:32`) and of `is_directory` (line 99), which has no `error_code`
and throws. Each of them ends the reader. A callback may throw on a change it does
not know, or not.

Abstractions. `opendir` and the whole of `readdir` of one directory are one step,
which after an error of `readdir` has found any part of the directory. The `/` that
`path.append("")` leaves at the end of a path names the same directory and is left
out. Entries whose `d_type` is `DT_UNKNOWN`, symbolic links and renames onto an
existing directory do not occur. `event->name` of an event without a name is
undefined by the code: `NamesRead` chooses nothing or any name.

`ChangeFeed` is what the user is promised: events that occurred are reported
once, in order, and, while the feed is alive, eventually. The refinement takes
`batch \o queue` for the events pending and `pc \notin Ended` for "alive".

### HttpClient

One object, one calling thread, up to `MaxCalls` calls. `op` is the single
asynchronous operation in flight, and also the tag its handler puts into
`error`. `stream` is null or says whether the deadline of the TLS stream
(`expires_after`, 120 s) has passed. Byte strings become sequences of the numbers
of the calls they belong to, so that a response made of another call's bytes is
visible. The server answers a call with a text or with an empty body (`texts`), and
an empty body leaves `resp_text` empty and no error (line 221). `Resolved`,
`ContextThrows`, `Connected`, `Handshaken`, `Written`, `ReadDone` are the
handlers on success, `Fails` their common error branch. `Leaves` and `Execute`
are the network and the server: a request that left may be processed at any
later time, during a later call too, and the client may be told of a failure
although it left.

`OneShotRpc` is the promise: calls one after the other, each ends; with a text only
after the server processed that very call and answered with a text; with neither text
nor error only after it processed that very call and answered with an empty body; else
with a failure; no call processed twice. A caller cannot take an empty text for a
failure, as the test does where it is built for other systems than Linux
(`test/common_test.cpp:35-40`): the server has processed the call.

### MakeDir

Any set of callers runs `makedir` on one path; each of the file system calls
(`exists`, `is_directory`, `remove_all`, `exists`, `create_directories`) is a
step, and callers use the directory between calls. `remove_all` is one step when
it succeeds and may leave any part of the contents when it fails. Parents exist
and nobody but the callers touches the path.

### ExecCmd

One call of `exec_cmd`, `movebycmd` or `file_md5`, beside the command it
started, a pipe of `PipeCap` characters and a process that replaces the file
whose digest is asked for. `GetChar`, `Chunk` and `NoMore` are `fgets`: the
read-ahead of stdio is left out, and characters are taken one by one. `CString`
is what `strlen` and `memcpy` see of a buffer. Characters are classes: what the
regular expression of `file_md5` tells apart. File names, quoting,
`formalize_path` and the text Windows' `move` writes are left out; files are
replaced as a whole, as a rename does. The assumption on `Messages`, that no
message begins with 32 letters and digits, stands for what `mv`, `md5sum` and
the shell do: they name themselves first.

### ChunkedIO

One file, calls of `create_random_file` one after the other, and calls of
`file_sha256` beside them. Random bytes are numbered as they are drawn
(`drawn`), so that no two are equal and a byte tells where it belongs; a digest
is the sequence of bytes it was fed. `good` is the state of the output stream,
which the code never reads but every stream operation does. How much of what it
has taken an `ofstream` keeps back is the library's affair: `pending` reaches
the file byte by byte (`Flush`), at the latest before the function returns,
since the destructor flushes; `DiskFull` loses it and spoils the stream.
`GetByte`, `HashChunk` and `EndOfFile` are `file.read` with its loop, `HashRest`
the update after it and the end. `buffer` keeps old bytes beyond `gcount`, as the
array does. Left out: `file_size`, a mere query; exceptions of `random_device`
and of allocations.

### FindFiles

One call of `find_files` after another, entry by entry, beside processes that make,
remove and rename. `stack` holds a level of the recursion with its open stream;
`opening` is the path given to `opendir`, which is resolved when it is opened and
not when its name was read. POSIX leaves open whether a stream returns an entry made
or removed after it was opened: `owed` is what it has still to return, `may` what it
still may. `Unwind` is the way of an exception through the levels above, which
closes nothing. `handles` outlives the call, so that a second call meets what the
first has left open. `Leads` is what the system does with a path: there is a way
from the root to the node, one step for each name. History: `moved`, `renamed`,
`ever` (every tree there has been during the call), `broken` (`readdir` failed),
`refused` (`opendir` failed on a directory that is there, for want of a permission
or of memory, which may happen to any). `Still` is what stayed in place: a way to it
that nobody has touched, of at most one step more than there are directories, since
a way meets none twice. Left out: `d_type` `DT_UNKNOWN`, renames onto something that
exists, and a directory listed that is itself moved.

`LinuxMonitor` uses a coarser listing, a directory a step and directories only;
`FindFiles` is where the promise it relies on, `Complete`, is examined.

### FormValues

The heap, with addresses that are used again as soon as they are free, and a slot
for every value there can be: the caller's, those in its data blocks, the
parameter of `add` or of `data_block`, and the copy in the loop of `POST`. A step
constructs or destroys one value, or calls `str()`. `meant` and `named` remember
what a value or a name was when it was made. `own` are the caller's buffers, which
it fills, rewrites and frees between calls; the code makes it keep the buffer of a
name as long as the block (`Used`), since `data_block` copies the pointer only.
`lost` are the blocks of `str()`. A query is the sequence of the texts given to
`url_encode`, a body that of names and texts; names of fields are left out of the
query. The vector that `POST` takes by value is the caller's: its copies are made
before and destroyed after.

### Strings

Operators on sequences of bytes, for a build for Linux with assertions. A regular
expression is modelled by what `regex_search` finds, the leftmost match.
`trim_right` is its loop of passes. `MCStrings` holds the properties, which compare
what an operator computes with what it is for, over all pairs of strings there are:
`Inputs` begins with two empty strings (`Empty`), and a step adds a byte of
`Alphabet` to one of them (`Grow`) while it is shorter than `MaxLen` or `MaxArg`. It
is a way to enumerate inputs and stands for no code; the two bounds, and `MaxSpaces`
on the spaces after a digest, are TLC's alone, the proofs leave them open. Bytes are
unsigned, as in `url_encode`; none is 0, since the functions take C strings or what
was read from one, nor a line break, which a regular expression might take for an
end. The properties say where the functions do what they promise: digests without
spaces in them, last words, names without separators, bytes from 16 on.

### WinMonitor

One monitor and the system's change buffer. `armed` and `apc` say that a read is
outstanding, or has completed and waits for the thread to wait alertably; `lpBuffer`
holds the records of the last read, empty for all zeros, where the routine finds
one record that stands for no change. `gone` is the end of the directory; every
read may be refused. The change given to the callback is always the same, so that
the user learns no more than that something changed; `told` is which change a call
was for.

`ChangeSignal` is what the user is promised: while the monitor is alive a change is
followed by a call of the callback, and there are never more calls than there were
changes, but one for the deletion of the directory, which completes the outstanding
read with nothing to report. The refinement takes `changes`, `Len(told)` and
`pc # "threw"` for the changes, the calls and "alive".

## 3. Runs

| run | question | bounds and why they are enough |
|---|---|---|
| `monitor_tree` | does the monitor catch up with any changes to the tree? | two names, four directories, depth three, five operations, reads of two events, a queue that never overflows: enough for a subtree to be created, moved out, replaced by another of the same name and moved back while a listing is under way |
| `monitor_feed` | is every event delivered once, in order and eventually? | a queue and a buffer of two, so that overflow and several batches happen with four operations; file events included; the callback throws on `unknown`, as the test's does, or not, so that reading goes on after an overflow |
| `monitor_unknown` | is the test's list of change types complete? | violated, see below |
| `http` | do calls on one object disturb each other or fail to end? | three calls: state left by the first can meet the second, and a late request the third |
| `makedir` | what do concurrent calls leave at the path? | four callers: one that removes, one that is removed from under, one that asks again, one that uses |
| `exec_cmd` | is output complete, and judged rightly? | a buffer of three (chunks of two), a pipe of two and a digest of three: outputs run over each of them, exactly and by one; messages shorter and longer than a digest |
| `chunked_io` | do chunks add up, with a writer beside the reader? | chunks of two and three bytes, sizes zero, four and six: on and off the boundaries of each; a full disk cuts the file anywhere; two calls of the writer, so that one truncates under the reader |
| `find_files` | what does a listing promise while the tree changes? | a file two levels down, a second directory beside it, in it or not yet there; two changes; two calls and three streams, as many as the tree is deep, so that one failure starves the next call |
| `form_values` | who owns which block, and what is sent? | two variables, one data block, four addresses: a name, a block's value, its copy and the text of an integer fill the heap |
| `strings` | do the functions on strings compute what they should? | strings of three and two bytes over eight: a word between spaces, a path of a name and two separators, a percent sign before two digits; up to two spaces after a digest, none, one and more |
| `win_monitor` | is any change missed, repeated or overwritten? | three changes to a buffer and eight in all: two buffers full and an overflow |
| `exec_cmd_killed` | is a normal return of `movebycmd` a move? | violated, see below |

The safety properties of `monitor_tree` need `lost = FALSE` where they say so;
`monitor_feed` covers the other case. `CHECK_DEADLOCK FALSE` stands where the
system may stop: the process has died, the bound on calls or operations is used
up, or the call has returned.

Every property has in `PROJECT.json` a mutant, a definition changed as a
plausible mistake in the code would (the operators marked as mistakes in the
modules), which makes it fail.

**Fairness.** `LinuxMonitor!FairSpec`: both threads are scheduled (weak fairness
of the monitor's own steps). Not assumed: that other processes do or stop doing
anything, that a read fails, that the monitor is destroyed. `HttpClient!FairSpec`:
the resolver of the operating system answers, time passes, the timer's handler
runs and `ioc.run()` returns when there is no work; the network and the server
owe nothing, not even that a connection completes. `ExecCmd!FairSpec`: the caller
runs, and the command runs, writes while it may and exits; it need not be killed,
and nobody need replace the file. `ChunkedIO!FairSpec`: the thread in `file_sha256`
runs; the writer may stop anywhere. `FindFiles!FairSpec`: the thread in
`find_files` runs; at most `MaxOps` changes stand for others that stop some time,
since a directory that grows for ever can be read for ever. `WinMonitor!FairSpec`:
reads complete, the thread that called `read_async` waits alertably again and
again, and callbacks return. (The test's `pause` does not wait alertably; with it
no callback would ever run on Windows.) `makedir`, `FormValues` and `Strings` have
no liveness property.

**What the two violations show.**

* The reader delivers `change_type::unknown` (`linux_monitor.cpp:94`) when a
  watched directory is removed (`IN_IGNORED`) or the queue overflows. The test's
  callback treats this as impossible and throws (`test/common_test.cpp:67-68`);
  nothing catches an exception in the reader thread, so the process ends.
* `exec_cmd` drops the status `pclose` returns (`common.cpp:361`), and `movebycmd`
  takes silence for success. A `mv` killed before it renames is silent: the call
  returns normally, and the assertion at `test/common_test.cpp:18-19` fails.

What the other runs show of the code's limits is in the premises of the properties,
and worth a reader's attention: `Covered` and `PathsCurrent` except directories that
appeared between the listing of their parent and its `inotify_add_watch`, which
`watch` cannot see since it adds watches only after listing everything, and those an
error of `readdir` left out of a listing (`blind`); `DeathCause` excepts refusals,
so that a tree that only grows ends the reader when it has more directories than
`max_user_watches`; and `ContentsSafe` holds only where no file stood at the path,
since a `makedir` that saw the file may remove a directory another call has made and
filled meanwhile. `HandleBalance` says how many streams a failed listing leaves
open: as many as the failing directory was deep. `LostAreInts` says that each
integer in a query or a body loses a block of memory. `Real` excepts renamed
directories, whose entries are listed under paths that may never have been.
`ThrowsForCause` excepts refusals as `DeathCause` does. `DigestsCompared` says that
texts with a space in them are compared by their last word.

## 4. Proofs

All theorems hold for every value of the constants that satisfies the named
assumptions (`NamesAssumption`, `BoundsAssumption`, `FileKindsAssumption`,
`MonitorAssumption`; `MaxCallsAssumption`; `SizesAssumption`,
`VersionsAssumption`, `MessagesAssumption`, `OutputsAssumption`;
`ChunksAssumption` and, in `ChunkedIO`, another `SizesAssumption`;
`NodesAssumption`, `TreesAssumption` and another `BoundsAssumption` in
`FindFiles`; `DecimalAssumption`, `FieldsAssumption`, `SlotsAssumption`,
`NullAssumption`; `CapAssumption`; `AlphabetAssumption`, by which a byte is neither
0 nor a line break, and `MaxSpacesAssumption`), which TLC evaluates in the runs. Each
component with a state has one inductive invariant `Inv`, which a run checks as
well, and the theorems follow from it.

* **LinuxMonitorProofs.** `Invariance`: `Inv` holds. `TypeOK` alone is not
  inductive, nor is `EventsKnown`: an event is queued only for a watched directory,
  so that one needs to know that watched directories are in `wd_map`
  (`WatchesKnown`), and that no path given to `inotify_add_watch` is empty (`PcOK`).
  `PathWasReal` needs that `hist` records the present path (`TreeOK`). `DeathCause`
  needs `CallUndisturbed`: while nobody disturbs the call, each path it works on is
  still a directory, so that only a refusal can end it. Consequences: `TypeCorrect`,
  `EventsKnownHolds`, `PathWasRealHolds`, `DeathCauseHolds`; and `FeedSafety`, the
  refinement of the safety part of `ChangeFeed`, whose steps rest on `Read`
  splitting the queue without loss and on a push only extending it.

  `CoveredHolds` and `PathsCurrentHolds` need to know, in the middle of the work,
  that it will end well (`CoverInv`). Each directory that must come to be watched
  (`Promised`) has a *place* in the line of the events not yet decoded: place 0
  when it is watched under its present path (`Right`) or the running `watch` will
  come to it (`Claimed`), else the place of an event that tells where it, or a
  directory above it, has arrived. The directory of that event must have an earlier
  place (`InPlace`), or the event would be decoded with an old path. The invariant
  says that such places exist (`Reached`); the proof moves them: an event decoded
  moves every place one down, what is made or moved gets the place of its own event or,
  where the directory it is now in has no watch yet, the place of that directory, and
  a listing hands what it claims on to the listings below, except what it failed to
  read, which is blind from then on. When the
  reader has caught up, the line is empty and every place is 0. `TreeShape` and
  `OutsideBlind` are what the tree owes.
* **HttpClientProofs.** `Invariance`, with `InFlight` (nothing is reported while
  an operation is in flight; before the write nothing has left) and `Processing`
  (what left is what was asked; each request is processed once; an empty text without
  an error is the answer of the call that was made, which `OncePerCall` shows cannot
  change afterwards). Consequences:
  `TypeCorrect`, `OwnAnswerHolds`, `SafeToRepeatHolds`, `AsAskedHolds`, and
  `OneShotSafety`, the refinement of the safety part of `OneShotRpc`.
* **CommonProofs**, on two parts of `common.cpp`. For `makedir`, `Invariance`: while
  the file stands no caller is past its removal, and while the path is empty after a
  return somebody is still on the way to fill it. Consequences:
  `QuietMeansDirHolds`, `ContentsSafeHolds`, and the action property
  `SettledStaysHolds`.

  For the functions on strings the invariant is only that the inputs are strings of
  the alphabet (`InputsAreStrings`); the work is in what the operators compute, for
  strings of any length. `PathsAgreeHolds` and `DigestsComparedHolds` find the longest
  suffix that matches (`LongestEnding`, `WordTaken`, `TrimBlanks`, and
  `TrimLast` for a word behind any text).
  The folds and recursive functions behind `trim_right`, `url_encode` and `Decoded`
  are `CHOOSE`s of a function with a recursion equation: that there is one is shown
  by extending one for shorter strings (`FoldExists`, `ChainExists`, `ReaderExists`),
  an induction over a set of numbers (`Induction`, proved here as in
  `FindFilesProofs`). `TrimsAllHolds`: a pass leaves a beginning of the text that
  lacks only bytes of the cutset, and a pass that cuts nothing ends on no byte of the
  cutset (`OnePass`); the passes must come to such a one, since the text cannot
  get shorter every time (`AllPasses`), so the loop of `trim_right` ends.
  `DecodesBackHolds`: each byte is encoded to text that is read back as that byte
  whatever follows it (`ByteEncoded`, `DigitsBack`), and the encoding of a text is read
  from its end to its beginning (`DecodedRead`).
* **ExecCmdProofs.** `Invariance`, with `Flow` (what is collected, buffered and in
  the pipe is what was written), `Said` (a command's text is the beginning of a
  line it can write) and `NotBegun`. Consequences: `WholeOutputHolds`,
  `Md5OfTheCallHolds`, `MoveReportedHolds`.
* **ChunkedIOProofs.** `Invariance`, with `WriterOK` (while the stream is good, file
  and `pending` together are exactly what the call has drawn) and `ReaderOK` (what
  is fed and held is the file up to `pos`; once the end was found it is in `seen`,
  and the file may go on growing). Consequences: `HashOfAMomentHolds`,
  `WrittenWholeHolds`, `NoHoleHolds`.

* **FindFilesProofs.** `Invariance`, in three parts. `StreamInv` counts streams:
  every level has one of its own, at the depth of its path (`LevelsOK`), so that
  `HandleBalance` says what a call leaves open. `PathInv`: a level's directory,
  unless it was removed, is where its path leads, and so is or was what its stream
  may return (`LevelsReal`); while no directory is moved, it is still there
  (`LevelsStand`). `ListInv`, for each way that nobody touches (`Progress`): a
  level whose path lies on the way is that of the directory there, since no two
  nodes are in one place (`OnlyOne`); its stream either has still to return what
  comes next, and the end of the way is not yet listed, or has returned it, and
  then the end is done with unless the call is below; and the entry a stream
  returns under that name is no other (`StreamsOK`). Consequences: `RealHolds`,
  `ThrowsForCauseHolds`, `CompleteHolds`. That a path leads along one way only is
  an induction on its length: `Induction`, for sets of numbers, is proved from the
  well-foundedness of their order.
* **FormValuesProofs.** `Invariance`: a block of the heap that is in use has exactly
  one owner, the caller, a value, or nobody any more (`Owned`); with it a step that
  writes or frees one block leaves the text of every other value as it was, so that
  each holds the text it was made of (`ValuesOK`) and nothing is freed twice. `StepOK`
  says which values exist at each step; `LostAreInts` counts what nobody frees.
  Consequence: `SentAsMeantHolds`.
* **WinMonitorProofs.** `Invariance`: what was told, what the buffer has left
  (`Rest`) and what the system holds are, one after the other, the changes in order
  (`InOrder`); a read completes only into a buffer that is done with (`OneAtATime`),
  and the routine always finds a record (`BufferOK`). `CallsPaid` counts: the calls
  made, those still to come for records and for a buffer of zeros, and the one of an
  overflow come to no more than the changes, the deletion giving one more as long as
  its read is outstanding. Consequences: `ToldInOrderHolds`, and `SignalSafety`, the
  refinement of the safety part of `ChangeSignal`.

**Only model-checked.** `KnownChangeTypes` and `MovedAsTested`, which fail, and the
liveness properties: the liveness parts of `FeedFair`, `OneShot`
and `Signalled`, and `Ends` and `HashEnds`, since liveness under fairness is beyond
the proof system.

## 5. Plan and limits

Every safety property of a passing run is stated by a theorem. What is left to
prove is liveness, which waits for a prover that has it.

**Not modelled**, and why:

* `print_debug`, `print_info`: interleaved lines are all that can go wrong.
  `pause`, `uuid`, `currentDateTime`, `to_size_t`, `string_format`, `file_size`,
  `file_exist`, `delete_file`: one call of a library each.
* `random_num`: its edges (a `greatest` of INT_MAX or -1, `least` above it) are
  conditions on arguments, and its numbers are the C library's.
* Two monitors in one process, and `watch` beside the reader: the globals are used
  without a lock, which is undefined behaviour, and nothing says either is meant.
* A third party at the path of `makedir`, and where `mv` puts its source: outside
  what the code can promise.
* Functions for Windows only, except the monitor: `to_wcstr`, `to_cstr`,
  `full_path`, `GetLastErrorMsg`, the `find_files` of wide strings. On Linux each
  only throws.
* `sqlite3.h` (12136 lines, used by no function here) and `dirent-win.h` (1160
  lines) are other authors' headers. They are nine tenths of the lines under
  `src/`; what is modelled is more than half of the rest, headers and build
  files included.
