--------------------------- MODULE HttpClientProofs ---------------------------
(***************************************************************************)
(* Proofs about HttpClient for any number of calls.                        *)
(***************************************************************************)
EXTENDS HttpClient, SequenceTheorems, TLAPS

\* The methods of http_client assign one of five requests (http.cpp:72-136).
LEMMA MethodType == \A m \in DOMAIN Method : Method[m] \in Requests
  BY DEF Requests

\* The object starts with nothing in flight, sent or answered (http.cpp:61-67).
LEMMA InitInv == Init => Inv
<1> SUFFICES ASSUME Init PROVE Inv
  OBVIOUS
<1>1. n = 0
  BY DEF Init, n
<1>2. ControlTypeOK
  BY DEF Init, ControlTypeOK, Operations
<1>3. DataTypeOK
  BY <1>1 DEF Init, DataTypeOK
<1>4. QED
  BY <1>1, <1>2, <1>3
     DEF Init, Inv, TypeOK, OwnAnswer, SafeToRepeat, InFlight, Processing, Processed

-----------------------------------------------------------------------------
(* One lemma per action that touches requests or answers.                   *)

\* A call starts from a clean object: its request replaces the last one, and
\* what the earlier calls left is of other calls (http.cpp:139-142).
LEMMA CallInv == ASSUME Inv, NEW m \in DOMAIN Method, Call(m) PROVE Inv'
<1> USE DEF Inv, TypeOK, ControlTypeOK, DataTypeOK,
            Call, NewRequest, ClearResult, Restart
<1>1. /\ n \in Nat /\ n' = n + 1
      /\ asked' \in Seq(DOMAIN Method)
      /\ asked'[n'] = m
      /\ \A i \in 1 .. n : asked'[i] = asked[i]
  BY AppendProperties, LenProperties DEF n
<1>2. ControlTypeOK'
  BY DEF Operations
<1>3. DataTypeOK'
  BY <1>1, MethodType
<1>4. OwnAnswer' /\ SafeToRepeat'
  BY DEF OwnAnswer, SafeToRepeat
<1>5. InFlight'
  BY <1>1 DEF InFlight
<1>6. Processing'
  BY <1>1 DEF Processing, Processed
<1>7. QED
  BY <1>2, <1>3, <1>4, <1>5, <1>6

\* When run returns, the result of the call is there (http.cpp:143-144).
LEMMA RunReturnsInv == ASSUME Inv, RunReturns PROVE Inv'
<1> USE DEF Inv, TypeOK, ControlTypeOK, DataTypeOK, InFlight, RunReturns, worldVars, n
<1>1. op = "none"
  OBVIOUS
<1>2. ControlTypeOK'
  BY <1>1 DEF Operations
<1>3. DataTypeOK'
  OBVIOUS
<1>4. OwnAnswer' /\ SafeToRepeat'
  BY DEF OwnAnswer, SafeToRepeat
<1>5. InFlight'
  BY <1>1 DEF Processed
<1>6. Processing'
  BY DEF Processing, Processed
<1>7. QED
  BY <1>2, <1>3, <1>4, <1>5, <1>6

\* The handlers before the write report nothing and send nothing
\* (http.cpp:149-191).
LEMMA EarlyHandlerInv ==
  ASSUME Inv, Resolved \/ ContextThrows \/ Connected \/ Handshaken PROVE Inv'
<1> USE DEF Inv, TypeOK, ControlTypeOK, DataTypeOK, Resolved, ContextThrows, Connected,
            Handshaken, NewStream, Completes, worldVars, n
<1>1. ControlTypeOK'
  BY DEF Operations
<1>2. DataTypeOK'
  OBVIOUS
<1>3. OwnAnswer' /\ SafeToRepeat'
  BY DEF OwnAnswer, SafeToRepeat, InFlight
<1>4. InFlight'
  <2>1. CASE ContextThrows
    BY <2>1 DEF InFlight
  <2>2. CASE Resolved
    BY <2>2 DEF InFlight
  <2>3. CASE Connected
    BY <2>3 DEF InFlight
  <2>4. CASE Handshaken
    BY <2>4 DEF InFlight
  <2>5. QED
    BY <2>1, <2>2, <2>3, <2>4
<1>5. Processing'
  BY DEF Processing, Processed
<1>6. QED
  BY <1>1, <1>2, <1>3, <1>4, <1>5

\* The read starts with an empty buffer and an empty message
\* (http.cpp:212-214).
LEMMA WrittenInv == ASSUME Inv, Written PROVE Inv'
<1> USE DEF Inv, TypeOK, ControlTypeOK, DataTypeOK, Written, StartRead, Completes,
            worldVars, n
<1>1. ControlTypeOK'
  BY DEF Operations
<1>2. DataTypeOK'
  OBVIOUS
<1>3. OwnAnswer' /\ SafeToRepeat'
  BY DEF OwnAnswer, SafeToRepeat, InFlight
<1>4. InFlight'
  BY DEF InFlight
<1>5. Processing'
  BY DEF Processing, Processed
<1>6. QED
  BY <1>1, <1>2, <1>3, <1>4, <1>5

\* The message read is the answer to the current call (http.cpp:218-223).
LEMMA ReadDoneInv == ASSUME Inv, ReadDone PROVE Inv'
<1> USE DEF Inv, TypeOK, ControlTypeOK, DataTypeOK
<1>1. n \in Nat /\ n' = n
  BY LenProperties DEF n, ReadDone, worldVars
<1>2. buffer = <<>> /\ res = <<>>
  BY DEF InFlight, ReadDone, Completes
<1>3. /\ resp_text' = IF n \in texts THEN <<n>> ELSE <<>>
      /\ res' = <<n>> /\ buffer' \in {<<>>, <<n>>}
  <2>1. res' = <<n>> /\ buffer' \in {<<>>, <<n>>}
    BY <1>1, <1>2 DEF ReadDone
  <2>2. ToSet(res') = {n}
    BY <2>1 DEF ToSet
  <2>3. QED
    BY <2>1, <2>2 DEF ReadDone
<1>4. /\ op = "read" /\ op' = "none" /\ error = "none"
      /\ Processed(n)
      /\ UNCHANGED <<running, stopped, stream, error, threw, req, asked, sent, executed, texts>>
  BY DEF ReadDone, Completes, worldVars, InFlight, Processed
<1>5. <<n>> \in Seq(Nat) /\ <<>> \in Seq(Nat) /\ <<n>> # <<>>
  BY <1>1
<1>6. ControlTypeOK'
  BY <1>4 DEF Operations
<1>7. DataTypeOK'
  <2>1. buffer' \in Seq(Nat) /\ res' \in Seq(Nat) /\ resp_text' \in Seq(Nat)
    BY <1>3, <1>5
  <2>2. QED
    BY <1>1, <1>4, <2>1
<1>8. OwnAnswer' /\ SafeToRepeat'
  BY <1>1, <1>3, <1>4 DEF OwnAnswer, SafeToRepeat
<1>9. InFlight'
  BY <1>1, <1>3, <1>4, <1>5 DEF InFlight, Processed
<1>10. Processing'
  BY <1>1, <1>3, <1>4, <1>5 DEF Processing, Processed
<1>11. QED
  BY <1>6, <1>7, <1>8, <1>9, <1>10

\* A failed operation leaves an error and no answer; before the write nothing
\* of the call has left (http.cpp:153-157, 170-173, 186-189, 203-206, 224-227).
LEMMA FailsInv == ASSUME Inv, Fails PROVE Inv'
<1> USE DEF Inv, TypeOK, ControlTypeOK, DataTypeOK
<1>1. n \in Nat /\ n' = n
  BY LenProperties DEF n, Fails, worldVars
<1>2. /\ op # "none" /\ op' = "none" /\ error' = op
      /\ UNCHANGED <<running, stopped, stream, threw, req, resp_text, asked, sent, executed, texts>>
  BY DEF Fails, worldVars
<1>3. buffer' \in Seq(Nat) /\ res' \in Seq(Nat)
  <2>1. CASE op = "read"
    <3>1. res' = <<>> /\ (buffer' = buffer \/ buffer' = Append(buffer, n))
      BY <2>1 DEF Fails
    <3>2. buffer \in Seq(Nat) /\ Append(buffer, n) \in Seq(Nat) /\ <<>> \in Seq(Nat)
      BY <1>1, AppendProperties
    <3>3. QED
      BY <3>1, <3>2
  <2>2. CASE op # "read"
    BY <2>2 DEF Fails
  <2>3. QED
    BY <2>1, <2>2
<1>4. ControlTypeOK'
  BY <1>2 DEF Operations
<1>5. DataTypeOK'
  BY <1>1, <1>2, <1>3
<1>6. OwnAnswer' /\ SafeToRepeat'
  BY <1>1, <1>2 DEF OwnAnswer, SafeToRepeat, InFlight
<1>7. InFlight'
  BY <1>1, <1>2 DEF InFlight
<1>8. Processing'
  BY <1>1, <1>2 DEF Processing, Processed
<1>9. QED
  BY <1>4, <1>5, <1>6, <1>7, <1>8

\* What leaves is the request of the current call, and no error is set while
\* the write is in flight (http.cpp:193-208).
LEMMA LeavesInv == ASSUME Inv, Leaves PROVE Inv'
<1> USE DEF Inv, TypeOK, ControlTypeOK, DataTypeOK, Leaves, clientVars
<1>1. /\ n \in Nat /\ n' = n /\ n > 0
      /\ asked[n] \in DOMAIN Method
  BY LenProperties, ElementOfSeq DEF n, InFlight
<1>2. req = Method[asked[n]] /\ req \in Requests
  BY <1>1, MethodType DEF InFlight
<1>3. ControlTypeOK'
  BY DEF Operations
<1>4. DataTypeOK'
  <2>1. sent' \subseteq [call : 1 .. n, req : Requests]
    BY <1>1, <1>2
  <2>2. executed' \in Seq(sent')
    BY SeqMonotonic
  <2>3. QED
    BY <1>1, <2>1, <2>2
<1>5. OwnAnswer' /\ SafeToRepeat'
  BY <1>1 DEF OwnAnswer, SafeToRepeat, InFlight
<1>6. InFlight'
  BY <1>1 DEF InFlight
<1>7. Processing'
  BY <1>1, <1>2 DEF Processing, Processed
<1>8. QED
  BY <1>3, <1>4, <1>5, <1>6, <1>7

\* A request that left and is not processed is of a call not processed: two different
\* requests that left are of different calls.
LEMMA OncePerCall ==
  ASSUME Inv, NEW r \in sent, ~Contains(executed, r)
  PROVE  ~Processed(r.call)
<1>1. ASSUME NEW i \in DOMAIN executed, executed[i].call = r.call PROVE FALSE
  <2>1. executed[i] \in sent /\ i \in 1 .. Len(executed)
    BY LenProperties, ElementOfSeq DEF Inv, TypeOK, DataTypeOK
  <2>2. executed[i].req = r.req
    BY <1>1, <2>1 DEF Inv, Processing
  <2>3. \A s, t \in [call : 1 .. n, req : Requests] :
          s.call = t.call /\ s.req = t.req => s = t
    OBVIOUS
  <2>4. executed[i] = r
    BY <1>1, <2>1, <2>2, <2>3 DEF Inv, TypeOK, DataTypeOK
  <2>5. QED
    BY <2>1, <2>4 DEF Contains
<1>2. QED
  BY <1>1 DEF Processed

\* The server processes each request that left at most once.
LEMMA ExecuteInv == ASSUME Inv, Execute PROVE Inv'
<1> USE DEF Inv, TypeOK, ControlTypeOK, DataTypeOK, Execute, clientVars
<1>1. n' = n
  BY DEF n
<1>2. PICK r \in sent : /\ ~Contains(executed, r)
                        /\ executed' = Append(executed, r)
                        /\ texts' \in {texts, texts \cup {r.call}}
  OBVIOUS
<1>3. /\ executed' \in Seq(sent)
      /\ DOMAIN executed = 1 .. Len(executed) /\ Len(executed) \in Nat
      /\ DOMAIN executed' = 1 .. Len(executed) + 1
      /\ \A i \in DOMAIN executed : executed'[i] = executed[i]
      /\ executed'[Len(executed) + 1] = r
  BY <1>2, AppendProperties, LenProperties
<1>4. ~Processed(r.call)
  BY <1>2, OncePerCall
<1>5. /\ \A i \in DOMAIN executed : executed[i] # r
      /\ \E i \in DOMAIN executed' : executed'[i].call = r.call
      /\ \A c : Processed(c) => \E i \in DOMAIN executed' : executed'[i].call = c
  <2>1. Len(executed) + 1 \in DOMAIN executed' /\ DOMAIN executed \subseteq DOMAIN executed'
    BY <1>3
  <2>2. \A c : Processed(c) => \E i \in DOMAIN executed' : executed'[i].call = c
    BY <1>3, <2>1 DEF Processed
  <2>3. QED
    BY <1>3, <1>4, <2>1, <2>2 DEF Processed
<1>6. r.call \in 1 .. n /\ texts \subseteq texts' /\ texts' \subseteq texts \cup {r.call}
  BY <1>2
<1>7. ControlTypeOK'
  BY DEF Operations
<1>8. DataTypeOK'
  BY <1>1, <1>3, <1>6
<1>9. OwnAnswer' /\ SafeToRepeat'
  BY <1>1 DEF OwnAnswer, SafeToRepeat
<1>10. InFlight'
  <2>1. Processed(n) /\ n \notin texts =>
          (\E i \in DOMAIN executed' : executed'[i].call = n) /\ n \notin texts'
    BY <1>4, <1>5, <1>6
  <2>2. QED
    BY <1>1, <2>1 DEF InFlight, Processed
<1>11. Processing'
  <2>1. \A c \in texts' : \E i \in DOMAIN executed' : executed'[i].call = c
    BY <1>5, <1>6 DEF Processing
  <2>2. \A i, j \in DOMAIN executed' : executed'[i] = executed'[j] => i = j
    BY <1>3, <1>5 DEF Processing
  <2>3. UNCHANGED <<sent, asked, resp_text, n>>
    BY <1>1
  <2>4. QED
    BY <1>6, <2>1, <2>2, <2>3 DEF Processing, Processed
<1>12. QED
  BY <1>7, <1>8, <1>9, <1>10, <1>11

\* Every step of the client, the network and the server preserves the
\* invariant.
LEMMA NextInv == Inv /\ [Next]_vars => Inv'
<1> SUFFICES ASSUME Inv, [Next]_vars PROVE Inv'
  OBVIOUS
<1>1. ASSUME NEW m \in DOMAIN Method, Call(m) PROVE Inv'
  BY <1>1, CallInv
<1>2. CASE RunReturns
  BY <1>2, RunReturnsInv
<1>3. CASE Handlers
  BY <1>3, EarlyHandlerInv, WrittenInv, ReadDoneInv, FailsInv DEF Handlers
<1>4. CASE Expire
  BY <1>4 DEF Expire, Inv, TypeOK, ControlTypeOK, DataTypeOK, OwnAnswer, SafeToRepeat,
              InFlight, Processing, Processed, worldVars, n
<1>5. CASE Leaves
  BY <1>5, LeavesInv
<1>6. CASE Execute
  BY <1>6, ExecuteInv
<1>7. CASE UNCHANGED vars
  BY <1>7 DEF vars, clientVars, worldVars, n, Inv, TypeOK, ControlTypeOK, DataTypeOK,
              OwnAnswer, SafeToRepeat, InFlight, Processing, Processed
<1>8. QED
  BY <1>1, <1>2, <1>3, <1>4, <1>5, <1>6, <1>7 DEF Next

\* The invariant of the client holds for any number of calls.
THEOREM Invariance == Spec => []Inv
<1>1. QED
  BY InitInv, NextInv, PTL DEF Spec

\* Every value the client keeps is of its type (http.h:66-91).
THEOREM TypeCorrect == Spec => []TypeOK
<1>1. Inv => TypeOK
  BY DEF Inv
<1>2. QED
  BY <1>1, Invariance, PTL

\* After any number of calls on one object the response text is the answer to
\* the current call, or empty (http.cpp:139-144, 210-229).
THEOREM OwnAnswerHolds == Spec => []OwnAnswer
<1>1. Inv => OwnAnswer
  BY DEF Inv
<1>2. QED
  BY <1>1, Invariance, PTL

\* An error of resolve, connect or handshake means that the request never left
\* (http.cpp:139, 153-157, 170-173, 186-189).
THEOREM SafeToRepeatHolds == Spec => []SafeToRepeat
<1>1. Inv => SafeToRepeat
  BY DEF Inv
<1>2. QED
  BY <1>1, Invariance, PTL

\* The server is only ever asked what the call asked for (http.cpp:72-136).
THEOREM AsAskedHolds == Spec => []AsAsked
<1>1. Inv => AsAsked
  BY LenProperties, ElementOfSeq DEF Inv, TypeOK, DataTypeOK, Processing, AsAsked
<1>2. QED
  BY <1>1, Invariance, PTL

-----------------------------------------------------------------------------
(* The client implements OneShotRpc, apart from its fairness.               *)

\* An object that has made no call is an RPC that has not begun.
LEMMA RpcInit == Init => Rpc!RpcInit
<1> SUFFICES ASSUME Init PROVE Rpc!RpcInit
  OBVIOUS
<1>1. n = 0 /\ [i \in DOMAIN executed |-> executed[i].call] = <<>>
  BY DEF Init, n
<1>2. QED
  BY <1>1 DEF Rpc!RpcInit, Outcome, Init

\* A call begins with nothing in flight and no outcome (http.cpp:137-142).
LEMMA CallStep == ASSUME Inv, NEW m \in DOMAIN Method, Call(m) PROVE Rpc!Begin
<1>1. n \in Nat /\ n' = n + 1
  BY AppendProperties, LenProperties DEF Inv, TypeOK, DataTypeOK, Call, n
<1>2. QED
  BY <1>1 DEF Call, Rpc!Begin, Outcome

\* A call that returns from run has an error or the answer to itself: an empty text
\* without an error is the server's, never that of a run that returned at once
\* (http.cpp:142-144, 219-228).
LEMMA RunReturnsStep == ASSUME Inv, RunReturns PROVE Rpc!Answer \/ Rpc!Fail
<1> DEFINE processed == [i \in DOMAIN executed |-> executed[i].call]
<1> USE DEF Inv, InFlight, RunReturns, worldVars
<1>1. n \in Nat /\ n > 0 /\ n' = n /\ processed' = processed
  BY LenProperties DEF TypeOK, DataTypeOK, n
<1>2. CASE error # "none"
  BY <1>1, <1>2 DEF Rpc!Fail, Rpc!End, Outcome
<1>3. CASE error = "none"
  <2>1. ~threw' /\ (resp_text # <<>> \/ (Processed(n) /\ n \notin texts))
    BY <1>1, <1>3
  <2>2. Processed(n) /\ (resp_text # <<>> <=> n \in texts)
    BY <2>1 DEF Processing
  <2>3. PICK i \in DOMAIN executed : executed[i].call = n
    BY <2>2 DEF Processed
  <2>4. i \in 1 .. Len(processed) /\ processed[i] = n
    BY <2>3, LenProperties DEF TypeOK, DataTypeOK
  <2>5. Contains(processed, n)
    BY <2>4 DEF Contains
  <2>6. /\ Outcome' = IF n \in texts THEN "text" ELSE "empty"
        /\ running /\ ~running' /\ UNCHANGED texts
    BY <1>1, <1>3, <2>1, <2>2 DEF Outcome
  <2>7. QED
    BY <1>1, <2>5, <2>6 DEF Contains, Rpc!Answer, Rpc!End, Rpc!Contains
<1>4. QED
  BY <1>2, <1>3

\* A call that ends by an exception has failed (http.cpp:158-161).
LEMMA ThrowStep == ASSUME Inv, ContextThrows PROVE Rpc!Fail
  BY DEF Inv, InFlight, ContextThrows, Completes, worldVars, n, Rpc!Fail, Rpc!End, Outcome

\* A request is processed at most once, and answered as the server chooses.
LEMMA ExecuteStep == ASSUME Inv, Execute PROVE Rpc!Process
<1> DEFINE processed == [i \in DOMAIN executed |-> executed[i].call]
<1>1. PICK r \in sent : /\ ~Contains(executed, r)
                        /\ executed' = Append(executed, r)
                        /\ texts' \in {texts, texts \cup {r.call}}
  BY DEF Execute
<1>2. /\ executed \in Seq(sent) /\ r.call \in 1 .. n
      /\ DOMAIN executed = 1 .. Len(executed) /\ Len(executed) \in Nat
      /\ DOMAIN executed' = 1 .. Len(executed) + 1
      /\ \A i \in DOMAIN executed : executed'[i] = executed[i]
      /\ executed'[Len(executed) + 1] = r
  BY <1>1, AppendProperties, LenProperties DEF Inv, TypeOK, DataTypeOK
<1>3. processed \in Seq(1 .. n) /\ Len(processed) = Len(executed)
  BY <1>2, ElementOfSeq DEF Inv, TypeOK, DataTypeOK
<1>4. processed' = Append(processed, r.call)
  BY <1>2, <1>3, AppendProperties
<1>5. ~Contains(processed, r.call)
  <2>1. ~Processed(r.call)
    BY <1>1, OncePerCall
  <2>2. QED
    BY <1>2, <1>3, <2>1 DEF Contains, Processed
<1>6. UNCHANGED <<n, running, Outcome>>
  BY DEF Execute, clientVars, n, Outcome
<1>7. QED
  BY <1>1, <1>2, <1>4, <1>5, <1>6 DEF Contains, Rpc!Process, Rpc!Contains

\* Every step of the client, the network or the server is a step of the RPC or
\* changes nothing of it.
LEMMA NextStep == Inv /\ [Next]_vars => [Rpc!RpcNext]_(Rpc!rpcVars)
<1> SUFFICES ASSUME Inv, [Next]_vars PROVE [Rpc!RpcNext]_(Rpc!rpcVars)
  OBVIOUS
<1> USE DEF Rpc!RpcNext
<1>1. ASSUME NEW m \in DOMAIN Method, Call(m) PROVE Rpc!RpcNext
  BY <1>1, CallStep
<1>2. CASE RunReturns
  BY <1>2, RunReturnsStep
<1>3. CASE ContextThrows
  BY <1>3, ThrowStep
<1>4. CASE Execute
  BY <1>4, ExecuteStep
<1>5. CASE Resolved \/ Connected \/ Handshaken \/ Written \/ ReadDone \/ Fails
  <2>1. running /\ running' /\ UNCHANGED worldVars
    BY <1>5 DEF Resolved, Connected, Handshaken, Written, ReadDone, Fails, Completes
  <2>2. QED
    BY <2>1 DEF worldVars, n, Outcome, Rpc!rpcVars
<1>6. CASE Expire \/ Leaves \/ UNCHANGED vars
  BY <1>6 DEF Expire, Leaves, vars, clientVars, worldVars, n, Outcome, Rpc!rpcVars
<1>7. QED
  BY <1>1, <1>2, <1>3, <1>4, <1>5, <1>6 DEF Next, Handlers

\* The client implements the safety of OneShotRpc for any number of calls: a call
\* that has not failed was processed by the server, it ends with a text if and only
\* if the server answered with one, and none is processed twice (http.cpp:137-229).
THEOREM OneShotSafety == Spec => Rpc!RpcSpec
<1>1. QED
  BY RpcInit, NextStep, Invariance, PTL DEF Spec, Rpc!RpcSpec
=============================================================================
