------------------------------ MODULE FormValues ------------------------------
(***************************************************************************)
(* http::value, the values of a form, http::UrlValues::add, which puts one *)
(* into a query, and the multipart body of http_client::POST.  A value of  *)
(* a string owns a block of the heap, copied when the value is copied and  *)
(* freed when it is destroyed.  Every construction and destruction of a    *)
(* value is a step; the value an operation is given and those it makes are *)
(* slots of their own.                                                     *)
(*                                                                         *)
(* A text is a model value; url_encode is the operator Encoded on texts.   *)
(***************************************************************************)
EXTENDS Integers, FiniteSets, Sequences

CONSTANTS
  Vars,      \* variables of type value of the caller
  Blocks,    \* data_blocks of the caller
  Addrs,     \* addresses new may return
  Texts,     \* contents of strings
  Ints,      \* integers of values
  Decimal,   \* what %d prints for each
  Null,      \* the null pointer
  Free,      \* the content of a block that is not allocated
  MaxFields  \* bound: fields of a query

ASSUME DecimalAssumption == Decimal \in [Ints -> Texts]
ASSUME FieldsAssumption == MaxFields \in Nat

\* The parameter of add and of the constructor of data_block, and the value of
\* the block that the loop of POST copies.
Param == "param"
Loop == "loop"
ASSUME SlotsAssumption ==
  /\ Vars \cap Blocks = {} /\ {Param, Loop} \cap (Vars \cup Blocks) = {}

Slots == Vars \cup Blocks \cup {Param, Loop}

\* What prints for a null string after %s.
NullText == "(null)"

ASSUME NullAssumption == Null \notin Addrs \cup Texts /\ Free \notin Texts \cup {Null, NullText}

VARIABLES
  heap,     \* the content of each block
  val,      \* the value in each slot; Dead when there is none
  names,    \* the buffers that the names of data_blocks point to
  own,      \* buffers of the caller
  pc,       \* idle, or the step of add, of data_block or of POST
  block,    \* the data_block being made or copied
  todo,     \* the data_blocks POST has not yet copied
  text,     \* the pointer that str() has returned
  url,      \* UrlValues::str, a sequence of encoded texts
  body      \* the multipart body, a sequence of names and texts

objVars == <<heap, val, names, own>>
callVars == <<pc, block, todo, text, url, body>>

\* History.
VARIABLES
  meant,    \* what each value was made of: a text, or Null
  named,    \* what each name was when its data_block was made
  fields,   \* what url was meant to be
  sent,     \* what body was meant to be
  lost,     \* blocks that str() has made and nobody owns
  printed,  \* integers turned into text so far
  bad       \* a block was read or freed that was not allocated

history == <<meant, named, fields, sent, lost, printed, bad>>
vars == <<objVars, callVars, history>>

Dead == [vt |-> 0, int |-> 0, str |-> Null]
AnInt(i) == [vt |-> 1, int |-> i, str |-> Null]
AString(p) == [vt |-> 2, int |-> 0, str |-> p]

Init ==
  /\ heap = [a \in Addrs |-> Free]
  /\ val = [s \in Slots |-> Dead]
  /\ names = [b \in Blocks |-> Null] /\ own = {}
  /\ pc = "idle" /\ block = Null /\ todo = <<>> /\ text = Null
  /\ url = <<>> /\ body = <<>>
  /\ meant = [s \in Slots |-> Null] /\ named = [b \in Blocks |-> Null]
  /\ fields = <<>> /\ sent = <<>> /\ lost = {} /\ printed = 0 /\ bad = FALSE

Live(s) == val[s].vt # 0

-----------------------------------------------------------------------------
(* The heap.                                                                *)

\* new char[], with a text in it.
New(q, t) == q \in Addrs /\ heap[q] = Free /\ heap' = [heap EXCEPT ![q] = t]

\* A mistake: the copy of a value has the pointer of the original.
StrCpy_Shares(p, q) == q = p /\ UNCHANGED <<heap, bad>>

\* common::strcpy, q is what it returns.
StrCpy(p, q) ==
  \/ p = Null /\ q = Null /\ UNCHANGED <<heap, bad>>
  \/ p # Null /\ New(q, heap[p]) /\ bad' = (bad \/ heap[p] = Free)

\* delete[]
DeleteStr(p) ==
  \/ p = Null /\ UNCHANGED <<heap, bad>>
  \/ p # Null /\ heap' = [heap EXCEPT ![p] = Free] /\ bad' = (bad \/ heap[p] = Free)

-----------------------------------------------------------------------------
(* value.                                                                   *)

\* value(const char *)
ConstructString(dst, p) ==
  \E q \in Addrs \cup {Null} :
    /\ StrCpy(p, q)
    /\ val' = [val EXCEPT ![dst] = AString(q)]
    /\ meant' = [meant EXCEPT ![dst] = IF p = Null THEN Null ELSE heap[p]]

\* value(int)
ConstructInt(dst, i) ==
  /\ val' = [val EXCEPT ![dst] = AnInt(i)]
  /\ meant' = [meant EXCEPT ![dst] = Decimal[i]]
  /\ UNCHANGED <<heap, bad>>

\* value(const value &)
Copy(dst, src) ==
  \E q \in Addrs \cup {Null} :
    /\ StrCpy(val[src].str, q)
    /\ val' = [val EXCEPT ![dst] = [val[src] EXCEPT !.str = q]]
    /\ meant' = [meant EXCEPT ![dst] = meant[src]]

\* ~value()
Destruct(s) ==
  /\ DeleteStr(val[s].str)
  /\ val' = [val EXCEPT ![s] = Dead]
  /\ meant' = [meant EXCEPT ![s] = Null]

\* A mistake: str() makes a copy of a string too.
Str_Copies(s) ==
  /\ val[s].str # Null \/ val[s].vt = 1
  /\ \E q \in Addrs :
       /\ New(q, IF val[s].vt = 1 THEN Decimal[val[s].int] ELSE heap[val[s].str])
       /\ text' = q /\ lost' = lost \cup {q}
  /\ printed' = IF val[s].vt = 1 THEN printed + 1 ELSE printed

\* str().  The text of an integer is a block that nobody frees.
Str(s) ==
  \/ /\ val[s].vt = 1
     /\ \E q \in Addrs : New(q, Decimal[val[s].int]) /\ text' = q /\ lost' = lost \cup {q}
     /\ printed' = printed + 1
  \/ /\ val[s].vt = 2
     /\ text' = val[s].str
     /\ UNCHANGED <<heap, lost, printed>>

-----------------------------------------------------------------------------
(* The caller makes buffers, values and blocks.  It keeps the buffer of a   *)
(* name while a data_block uses it, which holds no copy.                    *)

Idle == pc = "idle" /\ UNCHANGED callVars

Used(a) == \E b \in Blocks : Live(b) /\ names[b] = a

Fill(t) ==
  /\ Idle
  /\ \E q \in Addrs : New(q, t) /\ own' = own \cup {q}
  /\ UNCHANGED <<val, names, history>>

Rewrite(a, t) ==
  /\ Idle /\ a \in own /\ ~Used(a)
  /\ heap' = [heap EXCEPT ![a] = t]
  /\ UNCHANGED <<val, names, own, history>>

Discard(a) ==
  /\ Idle /\ a \in own /\ ~Used(a)
  /\ heap' = [heap EXCEPT ![a] = Free]
  /\ own' = own \ {a}
  /\ UNCHANGED <<val, names, history>>

Kept == UNCHANGED <<names, own, named, fields, sent, lost, printed>>

MakeValue(v) ==
  /\ Idle /\ ~Live(v)
  /\ \/ \E p \in own \cup {Null} : ConstructString(v, p)
     \/ \E i \in Ints : ConstructInt(v, i)
     \/ \E w \in Vars : Live(w) /\ Copy(v, w)
  /\ Kept

DestroyValue(s) ==
  /\ Idle /\ s \in Vars \cup Blocks /\ Live(s)
  /\ Destruct(s)
  /\ Kept

-----------------------------------------------------------------------------
(* data_block(const char *name, value value).                               *)

BlockCalled(b, v, n) ==
  /\ pc = "idle" /\ ~Live(b) /\ Live(v) /\ n \in own
  /\ Copy(Param, v)
  /\ names' = [names EXCEPT ![b] = n]
  /\ named' = [named EXCEPT ![b] = heap[n]]
  /\ block' = b /\ pc' = "data_block"
  /\ UNCHANGED <<own, todo, text, url, body, fields, sent, lost, printed>>

BlockCopies ==
  /\ pc = "data_block"
  /\ Copy(block, Param)
  /\ pc' = "destroy"
  /\ Kept /\ UNCHANGED <<block, todo, text, url, body>>

\* The parameter is destroyed when the constructor, or add, returns.
ParamDestroyed ==
  /\ pc = "destroy"
  /\ Destruct(Param)
  /\ pc' = "idle" /\ text' = Null
  /\ Kept /\ UNCHANGED <<block, todo, url, body>>

-----------------------------------------------------------------------------
(* UrlValues::add(std::string name, value value).                           *)

AddCalled(v) ==
  /\ pc = "idle" /\ Live(v) /\ Len(url) < MaxFields
  /\ Copy(Param, v)
  /\ pc' = "add"
  /\ Kept /\ UNCHANGED <<block, todo, text, url, body>>

AddStr ==
  /\ pc = "add"
  /\ Str(Param)
  /\ pc' = "encode"
  /\ UNCHANGED <<val, names, own, block, todo, url, body, meant, named, fields, sent, bad>>

\* url_encode reads the text, and crashes on the null pointer.
AddEncodes ==
  /\ pc = "encode" /\ text # Null
  /\ url' = Append(url, heap[text])
  /\ fields' = Append(fields, meant[Param])
  /\ bad' = (bad \/ heap[text] = Free)
  /\ pc' = "destroy"
  /\ UNCHANGED <<objVars, block, todo, text, body, meant, named, sent, lost, printed>>

AddCrashes ==
  /\ pc = "encode" /\ text = Null
  /\ pc' = "crashed"
  /\ UNCHANGED <<objVars, block, todo, text, url, body, history>>

-----------------------------------------------------------------------------
(* POST(std::vector<data_block> data): the loop that makes the body.        *)

PostCalled(data) ==
  /\ pc = "idle"
  /\ \A i \in DOMAIN data : Live(data[i])
  /\ todo' = data /\ body' = <<>> /\ sent' = <<>>
  /\ pc' = "post"
  /\ UNCHANGED <<objVars, block, text, url, meant, named, fields, lost, printed, bad>>

PostCopies ==
  /\ pc = "post" /\ todo # <<>>
  /\ block' = Head(todo) /\ todo' = Tail(todo)
  /\ Copy(Loop, Head(todo))
  /\ pc' = "str"
  /\ Kept /\ UNCHANGED <<text, url, body>>

PostStr ==
  /\ pc = "str"
  /\ Str(Loop)
  /\ pc' = "part"
  /\ UNCHANGED <<val, names, own, block, todo, url, body, meant, named, fields, sent, bad>>

TextOr(p) == IF p = Null THEN NullText ELSE heap[p]

PostAppends ==
  /\ pc = "part"
  /\ body' = Append(body, <<heap[names[block]], TextOr(text)>>)
  /\ sent' = Append(sent, <<named[block], IF meant[Loop] = Null THEN NullText ELSE meant[Loop]>>)
  /\ bad' = (bad \/ Free \in {heap[names[block]], TextOr(text)})
  /\ pc' = "next"
  /\ UNCHANGED <<objVars, block, todo, text, url, meant, named, fields, lost, printed>>

LoopDestroyed ==
  /\ pc = "next"
  /\ Destruct(Loop)
  /\ pc' = "post" /\ text' = Null
  /\ Kept /\ UNCHANGED <<block, todo, url, body>>

\* The request is sent; HttpClient is the model of that.
PostReturns ==
  /\ pc = "post" /\ todo = <<>>
  /\ pc' = "idle"
  /\ UNCHANGED <<objVars, block, todo, text, url, body, history>>

-----------------------------------------------------------------------------

Caller ==
  \/ \E t \in Texts : Fill(t) \/ \E a \in Addrs : Rewrite(a, t)
  \/ \E a \in Addrs : Discard(a)
  \/ \E v \in Vars : MakeValue(v)
  \/ \E s \in Slots : DestroyValue(s)

DataBlock == (\E b \in Blocks, v \in Vars, n \in Addrs : BlockCalled(b, v, n)) \/ BlockCopies
Add == (\E v \in Vars : AddCalled(v)) \/ AddStr \/ AddEncodes \/ AddCrashes

\* One or two blocks, or none.
Post ==
  \/ \E data \in {<<>>} \cup {<<b>> : b \in Blocks} \cup (Blocks \X Blocks) : PostCalled(data)
  \/ PostCopies \/ PostStr \/ PostAppends \/ LoopDestroyed \/ PostReturns

Next == Caller \/ DataBlock \/ Add \/ ParamDestroyed \/ Post

Spec == Init /\ [][Next]_vars

-----------------------------------------------------------------------------
(* Properties.                                                              *)

TypeOK ==
  /\ heap \in [Addrs -> Texts \cup {Free}]
  /\ val \in [Slots -> [vt : 0 .. 2, int : Ints \cup {0}, str : Addrs \cup {Null}]]
  /\ \A s \in Slots : val[s].vt = 1 => val[s].int \in Ints
  /\ names \in [Blocks -> Addrs \cup {Null}] /\ own \subseteq Addrs
  /\ pc \in {"idle", "data_block", "destroy", "add", "encode", "post", "str", "part", "next",
             "crashed"}
  /\ block \in Blocks \cup {Null} /\ todo \in Seq(Blocks)
  /\ text \in Addrs \cup {Null}
  /\ meant \in [Slots -> Texts \cup {Null}] /\ named \in [Blocks -> Texts \cup {Null}]
  /\ lost \subseteq Addrs /\ IsFiniteSet(lost) /\ printed \in Nat /\ bad \in BOOLEAN

\* Every block is the caller's, a value's or lost, and never two of these: no value
\* frees what another still holds, whatever copies and destructions came before
\* (http.cpp:22-39).
Owned ==
  /\ \A s, t \in Slots : s # t /\ val[s].str = val[t].str => val[s].str = Null
  /\ \A s \in Slots : val[s].str \notin own \cup lost
  /\ own \cap lost = {}
  /\ \A a \in Addrs : heap[a] # Free <=> a \in own \cup lost \cup {val[s].str : s \in Slots}

\* A value holds the text it was made of.
TextAt(p) == IF p = Null THEN Null ELSE heap[p]
ValuesOK ==
  \A s \in Slots :
    /\ val[s].vt # 2 => val[s].str = Null
    /\ val[s].vt = 1 => meant[s] = Decimal[val[s].int]
    /\ val[s].vt = 2 => meant[s] = TextAt(val[s].str)

\* Which slots are in use at each step, and what text points to.
StepOK ==
  /\ Live(Param) <=> pc \in {"data_block", "destroy", "add", "encode"} \/ pc = "crashed"
  /\ Live(Loop) <=> pc \in {"str", "part", "next"}
  /\ pc = "data_block" => block \in Blocks /\ ~Live(block)
  /\ pc \in {"str", "part", "next"} => block \in Blocks /\ Live(block)
  /\ pc \in {"post", "str", "part", "next"} => \A i \in DOMAIN todo : Live(todo[i])
  /\ pc = "encode" => meant[Param] = TextAt(text)
  /\ pc = "part" => meant[Loop] = TextAt(text)
  /\ \A b \in Blocks :
       Live(b) \/ (pc = "data_block" /\ b = block) =>
         names[b] \in own /\ heap[names[b]] = named[b]

\* What the heap loses for good: a block for each integer that add or POST has
\* turned into text, and nothing else (http.cpp:44).
LostAreInts == Cardinality(lost) = printed

\* A value keeps the text it was made of, whatever becomes of the buffer it came
\* from and of its copies: the query and the body are made of these texts, and of
\* the names as they were when the blocks were made (http.cpp:19 and 106-113).
SentAsMeant == url = fields /\ body = sent

\* What the steps preserve: besides the above, no block is read or freed that is
\* not allocated (http.cpp:22-50).
Inv == TypeOK /\ Owned /\ LostAreInts /\ ValuesOK /\ StepOK /\ ~bad
=============================================================================
