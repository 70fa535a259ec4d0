----------------------------- MODULE ClientHandler -----------------------------
(***************************************************************************)
(* One connection of the server, src/client-handler.ts: the socket piped   *)
(* into a Writable whose write awaits _onData, the request parser          *)
(* (HTTPRequest), one _onRequest activation per request, and _handleError. *)
(* JavaScript runs to completion: while the parser's loop is on the stack  *)
(* (parsing) nothing else runs; between two steps of a thread, at each of  *)
(* its awaits, every other thread and the network may take steps.          *)
(*                                                                         *)
(* Thread 0 is the Writable (write -> _onData); thread t > 0 is the t-th   *)
(* activation of _onRequest.                                               *)
(***************************************************************************)
EXTENDS HTTPRequest

LOCAL INSTANCE SequencesExt

CONSTANTS
  Streams,       \* what the peer may send: sequences of tokens
  Readers,       \* where a route has its body reader: "none", "first", "later"
  Outcomes,      \* what a route's last callback does: "respond", "pass", "throw"
  PeerMayClose,  \* whether the peer may close or reset the connection
  MaxRequests    \* bound on the activations of _onRequest

ASSUME StreamsAssumption == Streams \subseteq Seq(Token)

(* What the number of a request in a token means.  Lines are numbered in    *)
(* the order they are sent; the head of a request is its line and what      *)
(* follows up to the first empty line, and belongs to it; a head with a     *)
(* content-length is followed by that much data of the request's own, or by *)
(* the end of what the peer sends.  Nothing else is asked of a peer.        *)
LinesInOrder(s) ==
  \A i, j \in 1..Len(s) :
    (i < j /\ s[i].kind = "line" /\ s[j].kind = "line") => s[i].req < s[j].req

IsHead(s, i, j) ==
  /\ i < j /\ s[i].kind = "line" /\ s[j].kind = "blank"
  /\ \A k \in (i + 1)..(j - 1) : s[k].kind # "blank"

Framed(s) ==
  \A i, j \in 1..Len(s) :
    IsHead(s, i, j) =>
      \A k \in i..j :
        /\ s[k].req = s[i].req /\ s[k].kind # "data"
        /\ s[k].kind = "length" =>
             \A m \in 1..s[k].n :
               j + m <= Len(s) => s[j + m] = [kind |-> "data", req |-> s[i].req, n |-> m]

ASSUME FramesAssumption == \A s \in Streams : LinesInOrder(s) /\ Framed(s)

ASSUME ReadersAssumption == Readers \subseteq {"none", "first", "later"}
ASSUME OutcomesAssumption == Outcomes \subseteq {"respond", "pass", "throw"}
ASSUME PeerAssumption == PeerMayClose \in BOOLEAN
ASSUME MaxRequestsAssumption == MaxRequests \in Nat

VARIABLES
  net,         \* the tokens the socket has not delivered yet
  writable,    \* the chunks the Writable holds while a write is pending
  pc,          \* where each thread is
  dispatched,  \* how many times _onRequest was called
  served,      \* for each activation, the req it was called for
  caller,      \* the thread whose update() loop is on the stack
  socket,      \* "open" or "destroyed"
  out          \* what was written to the socket: [who, page, part], who the
               \* activation whose response it is, 0 for an error page

connectionVars == <<net, writable, pc, dispatched, served, caller, socket, out>>
vars == <<requestVars, connectionVars>>

Tasks == 1..MaxRequests
Threads == 0..MaxRequests

(* Where a thread waits while it writes an error page, and where it ends. *)
ErrorPcs == {"errStatus", "errHeaders", "errBody", "errHung"}

(* An activation from its call until router.handle settles: "chain" in an   *)
(* asynchronous callback before the body reader, "reading" in the reader,   *)
(* "handler" before the last callback, then in the writes of the response.  *)
ServingPcs == {"chain", "reading", "readFailed", "handler", "status", "headers", "body"}

(* router.handle rejected, or will never settle. *)
BrokenPcs == {"failed", "hung"}

ActivePcs == ServingPcs \cup BrokenPcs \cup {"next"}

WritablePcs == {"idle", "parsing", "rejected"} \cup ErrorPcs
TaskPcs == {"unused", "next", "parsing", "done", "closed", "rejected"}
             \cup ServingPcs \cup BrokenPcs \cup ErrorPcs

Open == socket = "open"

(* A promise nobody handles was rejected: node ends the process. *)
Crashed == \E t \in Threads : pc[t] = "rejected"

Goto(t, where) == pc' = [pc EXCEPT ![t] = where]

(* What out records: whose response it is, the page and the part. *)
Written == [who : Threads, page : {"router", "error"},
            part : {"status", "headers", "body"}]

(* client.write: on a destroyed socket nothing is sent. *)
Sent(t, page, part) ==
  IF Open THEN Append(out, [who |-> t, page |-> page, part |-> part]) ELSE out

(* Where a thread is once update() returned to it or _handleError settled. *)
Returned(t) == IF t = 0 THEN "idle" ELSE "done"
Handled(t) == IF t = 0 THEN "idle" ELSE "closed"

Init ==
  /\ RequestInit
  /\ net \in Streams
  /\ writable = <<>>
  /\ pc = [t \in Threads |-> IF t = 0 THEN "idle" ELSE "unused"]
  /\ dispatched = 0
  /\ served = [t \in Tasks |-> 0]
  /\ caller = 0
  /\ socket = "open"
  /\ out = <<>>
--------------------------------------------------------------------------------
(* The socket and the Writable. *)

(* A chunk of k tokens: handed to _onData at once, or held back while a     *)
(* write of the Writable is pending.                                        *)
Deliver(k) ==
  /\ ~parsing /\ Open
  /\ net' = SubSeq(net, k + 1, Len(net))
  /\ LET chunk == SubSeq(net, 1, k)
     IN  IF pc[0] = "idle" /\ writable = <<>>
         THEN /\ Write(chunk)
              /\ Goto(0, "parsing")
              /\ caller' = 0
              /\ UNCHANGED writable
         ELSE /\ writable' = Append(writable, chunk)
              /\ UNCHANGED <<requestVars, pc, caller>>
  /\ UNCHANGED <<dispatched, served, socket, out>>

(* callback(): the Writable hands on the next chunk it holds, whether or    *)
(* not the socket is still open.                                            *)
Drain ==
  /\ pc[0] = "idle"
  /\ writable # <<>>
  /\ Write(Head(writable))
  /\ writable' = Tail(writable)
  /\ Goto(0, "parsing")
  /\ caller' = 0
  /\ UNCHANGED <<net, dispatched, served, socket, out>>

(* The peer ends or resets the connection.  The 'error' listener reports it *)
(* to _handleError, which destroys; pending and later writes fail.          *)
PeerCloses ==
  /\ PeerMayClose
  /\ ~parsing /\ Open
  /\ socket' = "destroyed"
  /\ UNCHANGED <<requestVars, net, writable, pc, dispatched, served, caller, out>>

--------------------------------------------------------------------------------
(* _handleError(error) called by thread t: a syntax or a version error is   *)
(* answered with a page first, any other destroys the socket at once.       *)
HandleError(t, error) ==
  IF error \in {"syntax", "version"}
  THEN /\ Goto(t, "errStatus")
       /\ out' = Sent(0, "error", "status")
       /\ UNCHANGED socket
  ELSE /\ Goto(t, Handled(t))
       /\ socket' = "destroyed"
       /\ UNCHANGED out

ErrorPageStatus(t) ==
  /\ ~parsing /\ Open
  /\ pc[t] = "errStatus"
  /\ Goto(t, "errHeaders")
  /\ out' = Sent(0, "error", "headers")
  /\ UNCHANGED <<requestVars, net, writable, dispatched, served, caller, socket>>

ErrorPageHeaders(t) ==
  /\ ~parsing /\ Open
  /\ pc[t] = "errHeaders"
  /\ Goto(t, "errBody")
  /\ out' = Sent(0, "error", "body")
  /\ UNCHANGED <<requestVars, net, writable, dispatched, served, caller, socket>>

(* Mutant: the page is the last word, and the connection stays. *)
ErrorPageDoneStays(t) ==
  /\ ~parsing
  /\ pc[t] = "errBody"
  /\ Goto(t, Handled(t))
  /\ UNCHANGED <<requestVars, net, writable, dispatched, served, caller, socket, out>>

(* response.text resolved: client.destroy(), and the error is handled. *)
ErrorPageDone(t) ==
  /\ ~parsing
  /\ pc[t] = "errBody"
  /\ Goto(t, Handled(t))
  /\ socket' = "destroyed"
  /\ UNCHANGED <<requestVars, net, writable, dispatched, served, caller, out>>

(* A write of the page failed: the await in _handleError throws, and so     *)
(* does the catch block that called it.                                     *)
ErrorPageFails(t) ==
  /\ ~parsing /\ ~Open
  /\ pc[t] \in {"errStatus", "errHeaders"}
  /\ Goto(t, "rejected")
  /\ UNCHANGED <<requestVars, net, writable, dispatched, served, caller, socket, out>>

(* The socket closed under the page's body stream, which never closes. *)
ErrorPageHangs(t) ==
  /\ ~parsing /\ ~Open
  /\ pc[t] = "errBody"
  /\ Goto(t, "errHung")
  /\ UNCHANGED <<requestVars, net, writable, dispatched, served, caller, socket, out>>

--------------------------------------------------------------------------------
(* The update() loop, on behalf of the thread that called write or next. *)

Parse ==
  /\ ParseRequestLine \/ ParseHeader
  /\ UNCHANGED connectionVars

ParseReturns ==
  /\ AwaitLine \/ LeaveLoop
  /\ Goto(caller, Returned(caller))
  /\ UNCHANGED <<net, writable, dispatched, served, caller, socket, out>>

ParseFails ==
  /\ \E error \in {"syntax", "version", "unknown"} :
       RejectLine(error) /\ HandleError(caller, error)
  /\ UNCHANGED <<net, writable, dispatched, served, caller>>

BodyChunk ==
  /\ UpdateBody
  /\ pc' = [pc EXCEPT
       ![caller] = Returned(caller),
       ![dispatched] = IF @ = "reading" /\ state' = "FINISHED" THEN "handler" ELSE @]
  /\ UNCHANGED <<net, writable, dispatched, served, caller, socket, out>>

BodyChunkFails ==
  /\ UpdateBodyThrows
  /\ HandleError(caller, "general")
  /\ UNCHANGED <<net, writable, dispatched, served, caller>>

(* HeadersLoaded: _onRequest is called and runs up to its first await. *)
Start(where) ==
  /\ dispatched < MaxRequests
  /\ dispatched' = dispatched + 1
  /\ served' = [served EXCEPT ![dispatched + 1] = line]
  /\ Goto(dispatched + 1, where)
  /\ UNCHANGED <<net, writable, caller, socket, out>>

(* A route without body reader, or whose reader comes after a callback that *)
(* awaits; a reader with no content-length to go by returns at once.        *)
Dispatch ==
  /\ EndHeaders
  /\ \/ "none" \in Readers /\ Start("handler")
     \/ "later" \in Readers /\ Start("chain")
     \/ "first" \in Readers /\ DeclaredLength = 0 /\ Start("handler")

(* A route whose first callback is the body reader: it runs here. *)
DispatchLoading ==
  /\ "first" \in Readers
  /\ DeclaredLength > 0
  /\ EndHeadersLoading(DeclaredLength)
  /\ Start(CASE state' = "FINISHED"           -> "handler"
             [] AfterLine(buffer) = <<>>      -> "readFailed"
             [] OTHER                         -> "reading")

--------------------------------------------------------------------------------
(* An activation of _onRequest. *)

(* The body reader after an asynchronous callback. *)
ReadBody(t) ==
  /\ pc[t] = "chain"
  /\ ~parsing
  /\ \/ /\ DeclaredLength = 0
        /\ Goto(t, "handler")
        /\ UNCHANGED requestVars
     \/ /\ DeclaredLength > 0
        /\ LoadBufferBody(DeclaredLength)
        /\ Goto(t, CASE state' = "FINISHED" -> "handler"
                     [] buffer = <<>>       -> "readFailed"
                     [] OTHER               -> "reading")
  /\ UNCHANGED <<net, writable, dispatched, served, caller, socket, out>>

(* Mutant: the error is logged and the connection stays. *)
FailsSilently(t) ==
  /\ Goto(t, "failed")
  /\ UNCHANGED <<requestVars, net, writable, dispatched, served, caller, socket, out>>

(* router.handle rejects and the error is neither syntax nor version. *)
Fails(t) ==
  /\ Goto(t, "failed")
  /\ socket' = "destroyed"
  /\ UNCHANGED <<requestVars, net, writable, dispatched, served, caller, out>>

ReadFails(t) ==
  /\ pc[t] = "readFailed"
  /\ ~parsing
  /\ Fails(t)

(* The last callback of the route answers with response.text and the like. *)
Respond(t) ==
  /\ "respond" \in Outcomes
  /\ pc[t] = "handler"
  /\ ~parsing
  /\ Goto(t, "status")
  /\ out' = Sent(t, "router", "status")
  /\ UNCHANGED <<requestVars, net, writable, dispatched, served, caller, socket>>

(* No callback matches: router.handle resolves with nothing written. *)
Pass(t) ==
  /\ "pass" \in Outcomes
  /\ pc[t] = "handler"
  /\ ~parsing
  /\ Goto(t, "next")
  /\ UNCHANGED <<requestVars, net, writable, dispatched, served, caller, socket, out>>

Throw(t) ==
  /\ "throw" \in Outcomes
  /\ pc[t] = "handler"
  /\ ~parsing
  /\ Fails(t)

(* Mutant: the body stream is piped before the headers are written. *)
StatusWrittenThenBody(t) ==
  /\ ~parsing /\ Open
  /\ pc[t] = "status"
  /\ Goto(t, "headers")
  /\ out' = Sent(t, "router", "body")
  /\ UNCHANGED <<requestVars, net, writable, dispatched, served, caller, socket>>

StatusWritten(t) ==
  /\ ~parsing /\ Open
  /\ pc[t] = "status"
  /\ Goto(t, "headers")
  /\ out' = Sent(t, "router", "headers")
  /\ UNCHANGED <<requestVars, net, writable, dispatched, served, caller, socket>>

HeadersWritten(t) ==
  /\ ~parsing /\ Open
  /\ pc[t] = "headers"
  /\ Goto(t, "body")
  /\ out' = Sent(t, "router", "body")
  /\ UNCHANGED <<requestVars, net, writable, dispatched, served, caller, socket>>

WriteFails(t) ==
  /\ pc[t] \in {"status", "headers"}
  /\ ~parsing /\ ~Open
  /\ Fails(t)

BodyClosed(t) ==
  /\ pc[t] = "body"
  /\ ~parsing
  /\ Goto(t, "next")
  /\ UNCHANGED <<requestVars, net, writable, dispatched, served, caller, socket, out>>

(* The socket closed under the body stream: its 'close' never comes. *)
BodyHangs(t) ==
  /\ pc[t] = "body"
  /\ ~parsing /\ ~Open
  /\ Goto(t, "hung")
  /\ UNCHANGED <<requestVars, net, writable, dispatched, served, caller, socket, out>>

(* router.handle resolved: request.next(), in the same try block. *)
RunNext(t) ==
  /\ pc[t] = "next"
  /\ NextRequest
  /\ Goto(t, "parsing")
  /\ caller' = t
  /\ UNCHANGED <<net, writable, dispatched, served, socket, out>>

--------------------------------------------------------------------------------
ErrorStep(t) ==
  \/ ErrorPageStatus(t) \/ ErrorPageHeaders(t) \/ ErrorPageDone(t)
  \/ ErrorPageFails(t) \/ ErrorPageHangs(t)

TaskStep(t) ==
  \/ ReadBody(t) \/ ReadFails(t)
  \/ Respond(t) \/ Pass(t) \/ Throw(t)
  \/ StatusWritten(t) \/ HeadersWritten(t) \/ WriteFails(t)
  \/ BodyClosed(t) \/ BodyHangs(t) \/ RunNext(t)

ParserStep ==
  \/ Parse \/ ParseReturns \/ ParseFails
  \/ BodyChunk \/ BodyChunkFails \/ Dispatch \/ DispatchLoading

(* What the event loop and the network do by themselves. *)
Step ==
  /\ ~Crashed
  /\ \/ \E k \in 1..Len(net) : Deliver(k)
     \/ Drain
     \/ ParserStep
     \/ \E t \in Threads : ErrorStep(t)
     \/ \E t \in Tasks : TaskStep(t)

Next == Step \/ (~Crashed /\ PeerCloses)

Spec == Init /\ [][Next]_vars

FairSpec == Spec /\ WF_vars(Step)

--------------------------------------------------------------------------------
(* The variables hold what the code can put there. *)
TypeOK ==
  /\ RequestTypeOK
  /\ net \in Seq(Token)
  /\ writable \in Seq(Seq(Token))
  /\ pc \in [Threads -> WritablePcs \cup TaskPcs]
  /\ pc[0] \in WritablePcs
  /\ \A t \in Tasks : pc[t] \in TaskPcs
  /\ dispatched \in 0..MaxRequests
  /\ served \in [Tasks -> Nat]
  /\ caller \in Threads
  /\ socket \in {"open", "destroyed"}
  /\ out \in Seq(Written)

(* At most one request is between its dispatch and the end of               *)
(* router.handle, it is the last one that was dispatched, and while it is   *)
(* the parser stays out of the request line and the headers: HTTPRequest is *)
(* one object per connection (client-handler.ts:36), and a second request   *)
(* parsed into it would overwrite the one being handled.                    *)
OneActive ==
  \A t \in Tasks :
    pc[t] \in ActivePcs =>
      t = dispatched /\ state \in {"FINISHED", "BODY"}

(* The strengthening under which OneActive is inductive: the activations    *)
(* are the first ones, and a loop on the stack belongs to a thread that     *)
(* waits for it, hence not to an active one.                                *)
IInv ==
  /\ TypeOK
  /\ \A t \in Tasks : pc[t] = "unused" <=> t > dispatched
  /\ parsing => pc[caller] = "parsing"
  /\ OneActive

(* What an active request's callbacks see in the shared request object is   *)
(* its own: the line, every header, and, once the body reader has passed it *)
(* on, exactly the units of its own body, in order (request.ts:137-150,     *)
(* 318-348, 401-420).                                                       *)
OwnData ==
  \A t \in Tasks :
    pc[t] \in ServingPcs =>
      /\ line = served[t]
      /\ \A i \in 1..Len(headers) : headers[i].req = served[t]
      /\ pc[t] \in {"handler", "status", "headers", "body"} =>
           /\ Len(body.data) = body.size
           /\ \A i \in 1..body.size :
                body.data[i] = [kind |-> "data", req |-> served[t], n |-> i]

(* Requests are taken up in the order they were sent, none of them twice. *)
DispatchInOrder ==
  \A t, u \in 1..dispatched : t < u => served[t] < served[u]

(* The input not yet consumed, wherever it waits. *)
Pending == buffer \o FlattenSeq(writable) \o net

(* No step duplicates or reorders input on its way from the socket through  *)
(* the Writable to the parser: each consumes a prefix of what is pending    *)
(* (client-handler.ts:53-67, request.ts:199-215, 329-334, 390-391).         *)
InputInOrder ==
  [][\E k \in 0..Len(Pending) : Pending' = SubSeq(Pending, k + 1, Len(Pending))]_vars

--------------------------------------------------------------------------------
(* The refinement mapping to RequestPipeline. *)

Phase ==
  IF dispatched = 0 THEN "idle"
  ELSE CASE pc[dispatched] \in {"chain", "reading", "readFailed", "handler"} -> "serving"
         [] pc[dispatched] \in {"status", "headers", "body"} -> pc[dispatched]
         [] pc[dispatched] \in BrokenPcs -> "broken"
         [] OTHER -> "idle"

Pipeline == INSTANCE RequestPipeline
  WITH accepted <- dispatched, phase <- Phase, open <- Open, sent <- out

(* A connection keeps the promise of RequestPipeline. *)
PipelineSpec == Pipeline!Spec

(* Leaving error pages aside, what the client receives is the status,       *)
(* headers and body of one request after another, in order.                 *)
ResponsesInOrder == Pipeline!ResponsesInOrder

--------------------------------------------------------------------------------
(* An error that is being handled ends with the connection destroyed        *)
(* (client-handler.ts:175-176), or with the process gone.                   *)
ErrorsDestroy ==
  \A t \in Threads : pc[t] \in ErrorPcs ~> (socket = "destroyed" \/ Crashed)

(* A request whose body is being read goes on to its handler once the rest  *)
(* of the body arrived (request.ts:337-343).                                *)
BodiesComplete ==
  \A t \in Tasks : pc[t] = "reading" ~> (pc[t] # "reading" \/ socket = "destroyed")

(* Every request is answered: with a peer that sends well-formed requests   *)
(* and stays, a request line that is on its way, or waits in the buffer     *)
(* behind the request being handled, is taken up and its response completed *)
(* (client-handler.ts:193-222).                                             *)
AllServed ==
  \A r \in Tasks :
    (\E i \in 1..Len(Pending) : Pending[i].kind = "line" /\ Pending[i].req = r)
      ~> (\E t \in 1..dispatched : served[t] = r /\ pc[t] = "done")

(* What a peer of a well-formed connection sends: requests without bodies,  *)
(* a line, headers and an empty line each, cut into pieces anywhere.  j is  *)
(* the end of the line that begins behind i.                                *)
EndsNextLine(s, i, j) ==
  /\ i < j /\ s[j].kind # "frag"
  /\ i > 0 => s[i].kind # "frag"
  /\ \A k \in (i + 1)..(j - 1) : s[k].kind = "frag"

WellFormed(s) ==
  /\ \A i \in 1..Len(s) : s[i].kind \in {"line", "header", "blank", "frag"}
  /\ \A i \in 0..Len(s), j \in 1..Len(s) :
       EndsNextLine(s, i, j) =>
         (s[j].kind = "line" <=> (i = 0 \/ s[i].kind = "blank"))

(* Well-formed requests, a peer that stays, routes that do not throw. *)
Undisturbed ==
  /\ \A s \in Streams : WellFormed(s)
  /\ ~PeerMayClose
  /\ "throw" \notin Outcomes

(* A well-formed connection is never destroyed by the server. *)
WellFormedSurvives == Open

(* client-handler.ts:103, "in this case forced": once the error page with   *)
(* Connection: close begins, no response of the router follows it.          *)
ErrorPageIsLast ==
  \A i, j \in 1..Len(out) :
    (i < j /\ out[i].page = "error") => out[j].page # "router"

(* client-handler.ts:182: "a promise that resolves once the data finished   *)
(* processing or error has been handled"; it never rejects.                 *)
OnDataResolves == pc[0] # "rejected"
================================================================================
