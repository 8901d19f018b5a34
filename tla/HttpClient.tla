------------------------------ MODULE HttpClient ------------------------------
(***************************************************************************)
(* common::http_client: one object, used for one call after another from   *)
(* one thread.  A call prepares the request, starts a chain of             *)
(* asynchronous operations (resolve, connect, handshake, write, read) on   *)
(* its io_context, each handler starting the next, and runs the context    *)
(* until nothing is left to do.  The network and the server are outside    *)
(* the code: any operation may fail or never complete, and a request that  *)
(* left may be processed at any later time or never.                       *)
(***************************************************************************)
EXTENDS Integers, Sequences, SequencesExt

CONSTANT MaxCalls  \* bound: calls made on the object

ASSUME MaxCallsAssumption == MaxCalls \in Nat

VARIABLES
  running,    \* is the caller inside connect()?
  op,         \* the asynchronous operation in flight; its name is also the
              \* error its handler reports
  stopped,    \* ioc.stopped(): run() has run out of work
  stream,     \* null, or the state of the deadline of the TLS stream
  error,      \* the operation that failed, "none" for the empty string
  threw,      \* the call ended by an exception
  req,        \* the request message
  buffer,     \* the calls whose response bytes the read buffer holds
  res,        \* the calls whose bytes the response message holds
  resp_text   \* the calls whose bytes the user sees as the response; none when
              \* the string is empty

clientVars == <<running, op, stopped, stream, error, threw, req, buffer, res, resp_text>>

VARIABLES
  asked,      \* history: the method of each call
  sent,       \* requests that left the client whole, with their call
  executed,   \* requests the server has processed, in order
  texts       \* the calls it answers with a text; the others get an empty body

worldVars == <<asked, sent, executed, texts>>
vars == <<clientVars, worldVars>>

n == Len(asked)  \* the current call

-----------------------------------------------------------------------------
(* The request each of the five methods describes: the verb, whether the    *)
(* parameters go into the target, and what the body is.                     *)

Request(verb, query, body) == [verb |-> verb, query |-> query, body |-> body]

Method ==
  [GET       |-> Request("get", FALSE, "none"),
   GET_args  |-> Request("get", TRUE, "none"),
   PUT_args  |-> Request("put", TRUE, "none"),
   POST_data |-> Request("post", FALSE, "multipart"),
   POST_args |-> Request("post", FALSE, "parameters")]

Requests == {Method[m] : m \in DOMAIN Method}
Blank == Request("unknown", FALSE, "none")

Init ==
  /\ running = FALSE
  /\ op = "none"
  /\ stopped = FALSE
  /\ stream = "null"
  /\ error = "none"
  /\ threw = FALSE
  /\ req = Blank
  /\ buffer = <<>>
  /\ res = <<>>
  /\ resp_text = <<>>
  /\ asked = <<>>
  /\ sent = {}
  /\ executed = <<>>
  /\ texts = {}

-----------------------------------------------------------------------------
(* A call.  Mistakes the properties must catch stand before the definition  *)
(* they change.                                                             *)

\* A mistake: only the verb and the target of the message are assigned.
NewRequest_KeepsBody(m) ==
  req' = [Method[m] EXCEPT !.body = IF @ = "none" THEN req.body ELSE @]

\* this->req = {verb, target, 11} replaces the whole message.
NewRequest(m) == req' = Method[m]

ClearResult_KeepsError == resp_text' = <<>> /\ UNCHANGED error
ClearResult == resp_text' = <<>> /\ error' = "none"

Restart_Missing == UNCHANGED stopped
Restart == stopped' = FALSE

\* GET, PUT, POST up to ioc.run().
Call(m) ==
  /\ ~running /\ n < MaxCalls
  /\ asked' = Append(asked, m)
  /\ NewRequest(m)
  /\ ClearResult
  /\ op' = "resolve"
  /\ Restart
  /\ running' = TRUE
  /\ threw' = FALSE
  /\ UNCHANGED <<stream, buffer, res, sent, executed, texts>>

\* ioc.run() returns and the stream is deleted.
RunReturns ==
  /\ running
  /\ stopped \/ op = "none"
  /\ running' = FALSE
  /\ stopped' = TRUE
  /\ stream' = "null"
  /\ UNCHANGED <<op, error, threw, req, buffer, res, resp_text, worldVars>>

-----------------------------------------------------------------------------
(* Handlers, on the thread that is in ioc.run().                            *)

Completes(o) == running /\ ~stopped /\ op = o

NewStream_NoDeadline == stream' = "untimed"
NewStream == stream' = "armed"

\* The deadline set here bounds the connect and all that follows it.
Resolved ==
  /\ Completes("resolve")
  /\ NewStream
  /\ op' = "connect"
  /\ UNCHANGED <<running, stopped, error, threw, req, buffer, res, resp_text, worldVars>>

\* The ssl::context or the stream cannot be made; the exception leaves run(),
\* whose last work this was, and connect().
ContextThrows ==
  /\ Completes("resolve")
  /\ op' = "none"
  /\ stopped' = TRUE
  /\ running' = FALSE
  /\ threw' = TRUE
  /\ UNCHANGED <<stream, error, req, buffer, res, resp_text, worldVars>>

Connected ==
  /\ Completes("connect")
  /\ op' = "handshake"
  /\ UNCHANGED <<running, stopped, stream, error, threw, req, buffer, res, resp_text, worldVars>>

Handshaken ==
  /\ Completes("handshake")
  /\ op' = "write"
  /\ UNCHANGED <<running, stopped, stream, error, threw, req, buffer, res, resp_text, worldVars>>

\* A mistake: the buffer keeps what an earlier read left in it.
StartRead_KeepsBuffer == op' = "read" /\ res' = <<>> /\ UNCHANGED buffer
StartRead == op' = "read" /\ res' = <<>> /\ buffer' = <<>>

Written ==
  /\ Completes("write")
  /\ \E r \in sent : r.call = n
  /\ StartRead
  /\ UNCHANGED <<running, stopped, stream, error, threw, req, resp_text, worldVars>>

\* async_read takes one message, from the buffer first; bytes of the same
\* connection beyond the message stay in the buffer.  An empty body gives an
\* empty string.
ReadDone ==
  LET bytes == Append(buffer, n) IN
  /\ Completes("read")
  /\ \E i \in DOMAIN executed : executed[i].call = n
  /\ res' = Append(res, Head(bytes))
  /\ resp_text' = IF ToSet(res') \cap texts = {} THEN <<>> ELSE res'
  /\ buffer' \in {Tail(bytes), Append(Tail(bytes), n)}
  /\ op' = "none"
  /\ UNCHANGED <<running, stopped, stream, error, threw, req, worldVars>>

\* The handler is given an error: a failure of the operation or, once the
\* deadline has passed, a timeout.  A failed read leaves bytes in the buffer.
Fails ==
  /\ op # "none" /\ Completes(op)
  /\ error' = op
  /\ op' = "none"
  /\ IF op = "read"
       THEN res' = <<>> /\ buffer' \in {buffer, Append(buffer, n)}
       ELSE UNCHANGED <<res, buffer>>
  /\ UNCHANGED <<running, stopped, stream, threw, req, resp_text, worldVars>>

-----------------------------------------------------------------------------
(* The world.                                                               *)

Expire ==
  /\ stream = "armed"
  /\ stream' = "expired"
  /\ UNCHANGED <<running, op, stopped, error, threw, req, buffer, res, resp_text, worldVars>>

\* The last byte of the request leaves; the handler of the write may still be
\* told of a failure afterwards.
Leaves ==
  /\ op = "write"
  /\ sent' = sent \cup {[call |-> n, req |-> req]}
  /\ UNCHANGED <<clientVars, asked, executed, texts>>

\* The server processes a request, perhaps long after its call has ended, and
\* answers with a text or without one.
Execute ==
  /\ \E r \in sent :
       /\ ~Contains(executed, r)
       /\ executed' = Append(executed, r)
       /\ texts' \in {texts, texts \cup {r.call}}
  /\ UNCHANGED <<clientVars, asked, sent>>

-----------------------------------------------------------------------------

Handlers == Resolved \/ ContextThrows \/ Connected \/ Handshaken \/ Written \/ ReadDone \/ Fails

Next ==
  \/ \E m \in DOMAIN Method : Call(m)
  \/ RunReturns \/ Handlers
  \/ Expire \/ Leaves \/ Execute

Spec == Init /\ [][Next]_vars

\* The system's resolver always answers, time passes, the timer's handler runs,
\* and the thread leaves run() when there is no work.  Of the network and of
\* the server nothing is assumed.
Fairness ==
  /\ WF_vars(op = "resolve" /\ Handlers)
  /\ WF_vars(Expire)
  /\ WF_vars(stream = "expired" /\ Fails)
  /\ WF_vars(RunReturns)

FairSpec == Spec /\ Fairness

-----------------------------------------------------------------------------
(* Properties.                                                              *)

Operations == {"resolve", "connect", "handshake", "write", "read"}

ControlTypeOK ==
  /\ running \in BOOLEAN /\ stopped \in BOOLEAN /\ threw \in BOOLEAN
  /\ op \in {"none"} \cup Operations
  /\ op \in Operations \ {"resolve"} => stream # "null"
  /\ stream \in {"null", "armed", "expired"}
  /\ error \in {"none"} \cup Operations

DataTypeOK ==
  /\ req \in Requests \cup {Blank}
  /\ buffer \in Seq(Nat) /\ res \in Seq(Nat) /\ resp_text \in Seq(Nat)
  /\ asked \in Seq(DOMAIN Method)
  /\ sent \subseteq [call : 1 .. n, req : Requests]
  /\ executed \in Seq(sent)
  /\ texts \subseteq 1 .. n

\* Type invariant of the client and of the requests in the world; no operation
\* is ever in flight on a null stream or on one without a deadline.
TypeOK == ControlTypeOK /\ DataTypeOK

\* The response text is empty, or it is the whole answer to the current call
\* and there is no error: never bytes of an earlier call on the same object,
\* whatever that one left in the buffers (http.cpp:139-144, 210-229).
OwnAnswer ==
  resp_text # <<>> => resp_text = <<n>> /\ error = "none"

\* After an error of resolve, connect or handshake the request of this call has
\* not left and never will, so that the caller may repeat the call without the
\* server doing it twice (http.cpp:139, 153-157, 170-173, 186-189).
SafeToRepeat ==
  error \in {"resolve", "connect", "handshake"} =>
    op = "none" /\ \A r \in sent : r.call # n

\* What the server processes is what the call asked for: nothing of an earlier
\* request, such as its body, is left in the message, and a late request is
\* still the one of its own call (http.cpp:74, 84, 94, 115-122, 127-134).
AsAsked ==
  \A i \in DOMAIN executed : executed[i].req = Method[asked[executed[i].call]]

\* What the steps preserve besides: while an operation is in flight nothing has
\* been reported and the message is that of the call; before the write nothing
\* of the call has left; when nothing is in flight the result is there, and it is
\* an empty text only for a call the server answered so; what left is what was
\* asked; an answered call was processed, and once.
Processed(call) == \E i \in DOMAIN executed : executed[i].call = call

InFlight ==
  /\ running => ~stopped /\ ~threw /\ n > 0
  /\ op # "none" =>
       /\ running /\ error = "none" /\ resp_text = <<>>
       /\ req = Method[asked[n]]
  /\ op \in {"resolve", "connect", "handshake"} => \A r \in sent : r.call # n
  /\ op = "read" => buffer = <<>> /\ res = <<>>
  /\ op = "none" /\ n > 0 =>
       \/ threw \/ error # "none" \/ resp_text # <<>>
       \/ Processed(n) /\ n \notin texts

Processing ==
  /\ \A r \in sent : r.req = Method[asked[r.call]]
  /\ \A i, j \in DOMAIN executed : executed[i] = executed[j] => i = j
  /\ \A c \in texts : Processed(c)
  /\ resp_text # <<>> => n \in texts

Inv == TypeOK /\ OwnAnswer /\ SafeToRepeat /\ InFlight /\ Processing

\* The client implements OneShotRpc: every call ends, in a failure or with the
\* answer to itself, which is an empty text only when that is what the server
\* answered, and is processed at most once (http.cpp:137-229).
Outcome ==
  IF running \/ n = 0 THEN "none"
  ELSE IF threw \/ error # "none" THEN "failure"
  ELSE IF resp_text # <<>> THEN "text" ELSE "empty"

Rpc == INSTANCE OneShotRpc WITH
  calls <- n, open <- running, outcome <- Outcome,
  processed <- [i \in DOMAIN executed |-> executed[i].call]

OneShot == Rpc!FairRpcSpec
=============================================================================
