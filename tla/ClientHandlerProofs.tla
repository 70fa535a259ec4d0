-------------------------- MODULE ClientHandlerProofs --------------------------
(***************************************************************************)
(* What holds of a connection for every set of streams, every placement of *)
(* the body reader, every outcome of the handlers and any number of        *)
(* requests: the types, that at most one request is active, and that the   *)
(* connection implements RequestPipeline.                                  *)
(***************************************************************************)
EXTENDS ClientHandler, HTTPRequestProofs

AllPcs == WritablePcs \cup TaskPcs

PcOK ==
  /\ pc \in [Threads -> AllPcs]
  /\ pc[0] \in WritablePcs
  /\ \A t \in Tasks : pc[t] \in TaskPcs

(* Threads are numbers, 0 and those of the tasks. *)
LEMMA ThreadsAre == 0 \in Threads /\ Tasks = Threads \ {0} /\ Threads \subseteq Nat
BY MaxRequestsAssumption DEF Threads, Tasks

(* A thread goes where threads of its kind can be. *)
LEMMA GotoType ==
  ASSUME PcOK, NEW t \in Threads, NEW where,
         t = 0 => where \in WritablePcs, t # 0 => where \in TaskPcs, Goto(t, where)
  PROVE  PcOK'
<1>1. /\ pc' = [pc EXCEPT ![t] = where]
      /\ where \in AllPcs
  BY DEF Goto, AllPcs
<1>2. pc' \in [Threads -> AllPcs]
  BY <1>1 DEF PcOK
<1>3. pc'[0] \in WritablePcs
  BY <1>1, ThreadsAre DEF PcOK
<1>4. \A u \in Tasks : pc'[u] \in TaskPcs
  BY <1>1, ThreadsAre DEF PcOK
<1> QED
  BY <1>2, <1>3, <1>4 DEF PcOK

(* What is sent is a part of a page. *)
LEMMA SentType ==
  ASSUME out \in Seq(Written), NEW t \in Threads, NEW page \in {"router", "error"},
         NEW part \in {"status", "headers", "body"}
  PROVE  Sent(t, page, part) \in Seq(Written)
<1> DEFINE e == [who |-> t, page |-> page, part |-> part]
<1>1. e \in Written
  BY DEF Written
<1>2. Sent(t, page, part) = IF Open THEN Append(out, e) ELSE out
  BY DEF Sent
<1> HIDE DEF e
<1>3. Append(out, e) \in Seq(Written)
  BY <1>1, AppendProperties
<1> QED
  BY <1>2, <1>3

(* The steps that the loop takes, and those of a thread at an await, in the *)
(* terms of HTTPRequestProofs.                                              *)
LEMMA HandleErrorType ==
  ASSUME TypeOK, NEW t \in Threads, NEW error, HandleError(t, error)
  PROVE  PcOK' /\ out' \in Seq(Written) /\ socket' \in {"open", "destroyed"}
<1>1. PcOK /\ out \in Seq(Written) /\ socket \in {"open", "destroyed"}
  BY DEF TypeOK, PcOK, AllPcs
<1>2. CASE error \in {"syntax", "version"}
  <2>1. Goto(t, "errStatus") /\ out' = Sent(0, "error", "status") /\ socket' = socket
    BY <1>2 DEF HandleError
  <2>2. PcOK'
    BY <1>1, <2>1, GotoType DEF WritablePcs, TaskPcs, ErrorPcs
  <2> QED
    BY <1>1, <2>1, <2>2, SentType, ThreadsAre
<1>3. CASE error \notin {"syntax", "version"}
  <2>1. Goto(t, Handled(t)) /\ out' = out /\ socket' = "destroyed"
    BY <1>3 DEF HandleError
  <2>2. PcOK'
    BY <1>1, <2>1, GotoType DEF Handled, WritablePcs, TaskPcs
  <2> QED
    BY <1>1, <2>1, <2>2
<1> QED
  BY <1>2, <1>3

(* The part of TypeOK that is about the connection. *)
ConnectionTypeOK ==
  /\ net \in Seq(Token)
  /\ writable \in Seq(Seq(Token))
  /\ PcOK
  /\ dispatched \in 0..MaxRequests
  /\ served \in [Tasks -> Nat]
  /\ caller \in Threads
  /\ socket \in {"open", "destroyed"}
  /\ out \in Seq(Written)

(* TypeOK is about the parser and about the connection. *)
LEMMA TypeParts == TypeOK <=> RequestTypeOK /\ ConnectionTypeOK
BY DEF TypeOK, ConnectionTypeOK, PcOK, AllPcs

(* And so it is after a step. *)
LEMMA TypePartsNext == RequestTypeOK' /\ ConnectionTypeOK' => TypeOK'
BY DEF TypeOK, ConnectionTypeOK, PcOK, AllPcs

(* TypeOK holds at first. *)
LEMMA TypeInit == Init => TypeOK
<1> SUFFICES ASSUME Init PROVE TypeOK
  OBVIOUS
<1>1. RequestTypeOK
  <2>1. NoBody \in [size : Nat, data : Seq(Token)] /\ Len(NoBody.data) <= NoBody.size
    BY DEF NoBody
  <2>2. body \in [size : Nat, data : Seq(Token)] /\ Len(body.data) <= body.size
    BY <2>1 DEF Init, RequestInit
  <2>3. <<>> \in Seq(Token)
    OBVIOUS
  <2> QED
    BY <2>2, <2>3 DEF Init, RequestInit, RequestTypeOK
<1>2. PcOK
  BY ThreadsAre DEF Init, PcOK, AllPcs, WritablePcs, TaskPcs
<1>3. /\ net \in Seq(Token)
      /\ served \in [Tasks -> Nat]
      /\ 0 \in 0..MaxRequests
  BY StreamsAssumption, MaxRequestsAssumption DEF Init
<1>4. ConnectionTypeOK
  BY <1>2, <1>3, ThreadsAre DEF Init, ConnectionTypeOK
<1> QED
  BY <1>1, <1>4, TypeParts

(* The network, the Writable and the socket. *)
LEMMA NetworkTypeStep ==
  ASSUME TypeOK,
         (\E k \in 1..Len(net) : Deliver(k)) \/ Drain \/ PeerCloses
  PROVE  TypeOK'
<1> USE DEF ConnectionTypeOK
<1>0. RequestTypeOK /\ ConnectionTypeOK /\ 0 \in Threads
  BY TypeParts, ThreadsAre
<1>1. ASSUME NEW k \in 1..Len(net), Deliver(k) PROVE TypeOK'
  <2> DEFINE chunk == SubSeq(net, 1, k)
             rest  == SubSeq(net, k + 1, Len(net))
  <2>1. chunk \in Seq(Token) /\ rest \in Seq(Token)
    <3>1. \A i \in 1..Len(net) : net[i] \in Token
      BY <1>0
    <3>2. Len(net) \in Nat
      BY <1>0
    <3> QED
      BY <1>1, <3>1, <3>2, SubSeqProperties
  <2> HIDE DEF chunk, rest
  <2>2. /\ net' = rest
        /\ UNCHANGED <<dispatched, served, socket, out>>
    BY <1>1 DEF Deliver, rest
  <2>3. CASE pc[0] = "idle" /\ writable = <<>>
    <3>1. Write(chunk) /\ Goto(0, "parsing") /\ caller' = 0 /\ writable' = writable
      BY <1>1, <2>3 DEF Deliver, chunk
    <3>2. RequestTypeOK'
      BY <1>0, <2>1, <3>1, ParserTypeStep DEF ParserAction
    <3>3. PcOK'
      BY <1>0, <3>1, GotoType DEF WritablePcs
    <3>4. ConnectionTypeOK'
      BY <1>0, <2>1, <2>2, <3>1, <3>3
    <3> QED
      BY <3>2, <3>4, TypePartsNext
  <2>4. CASE ~(pc[0] = "idle" /\ writable = <<>>)
    <3>1. writable' = Append(writable, chunk) /\ UNCHANGED <<requestVars, pc, caller>>
      BY <1>1, <2>4 DEF Deliver, chunk
    <3>2. RequestTypeOK'
      BY <1>0, <3>1, ParserTypeStep DEF ParserAction
    <3>3. writable' \in Seq(Seq(Token))
      BY <1>0, <2>1, <3>1, AppendProperties
    <3>4. PcOK'
      BY <1>0, <3>1 DEF PcOK
    <3>5. ConnectionTypeOK'
      BY <1>0, <2>1, <2>2, <3>1, <3>3, <3>4
    <3> QED
      BY <3>2, <3>5, TypePartsNext
  <2> QED
    BY <2>3, <2>4
<1>2. CASE Drain
  <2>1. Head(writable) \in Seq(Token) /\ Tail(writable) \in Seq(Seq(Token))
    BY <1>0, <1>2, HeadTailProperties DEF Drain
  <2>2. RequestTypeOK'
    BY <1>0, <1>2, <2>1, ParserTypeStep DEF Drain, ParserAction
  <2>3. PcOK'
    BY <1>0, <1>2, GotoType DEF Drain, WritablePcs
  <2>4. ConnectionTypeOK'
    BY <1>0, <1>2, <2>1, <2>3 DEF Drain
  <2> QED
    BY <2>2, <2>4, TypePartsNext
<1>3. CASE PeerCloses
  <2>1. RequestTypeOK'
    BY <1>0, <1>3, ParserTypeStep DEF PeerCloses, ParserAction
  <2>2. PcOK'
    BY <1>0, <1>3 DEF PeerCloses, PcOK
  <2>3. ConnectionTypeOK'
    BY <1>0, <1>3, <2>2 DEF PeerCloses
  <2> QED
    BY <2>1, <2>3, TypePartsNext
<1> QED
  BY <1>1, <1>2, <1>3

(* The update() loop. *)
LEMMA ParserStepType == TypeOK /\ ParserStep => TypeOK'
<1> SUFFICES ASSUME TypeOK, ParserStep PROVE TypeOK'
  OBVIOUS
<1> USE DEF ConnectionTypeOK
<1>0. RequestTypeOK /\ ConnectionTypeOK /\ PcOK
  BY TypeParts
<1>1. CASE Parse
  <2>1. RequestTypeOK'
    BY <1>0, <1>1, ParserTypeStep DEF Parse, ParserAction
  <2>2. ConnectionTypeOK'
    BY <1>0, <1>1 DEF Parse, connectionVars, PcOK
  <2> QED
    BY <2>1, <2>2, TypePartsNext
<1>2. CASE ParseReturns
  <2>1. RequestTypeOK'
    BY <1>0, <1>2, ParserTypeStep DEF ParseReturns, ParserAction
  <2>2. PcOK'
    BY <1>0, <1>2, GotoType DEF ParseReturns, Returned, WritablePcs, TaskPcs
  <2>3. ConnectionTypeOK'
    BY <1>0, <1>2, <2>2 DEF ParseReturns
  <2> QED
    BY <2>1, <2>3, TypePartsNext
<1>3. CASE ParseFails
  <2>1. RequestTypeOK'
    BY <1>0, <1>3, ParserTypeStep DEF ParseFails, ParserAction
  <2>2. PcOK' /\ out' \in Seq(Written) /\ socket' \in {"open", "destroyed"}
    BY <1>0, <1>3, HandleErrorType DEF ParseFails
  <2>3. ConnectionTypeOK'
    BY <1>0, <1>3, <2>2 DEF ParseFails
  <2> QED
    BY <2>1, <2>3, TypePartsNext
<1>4. CASE BodyChunk
  <2>1. RequestTypeOK'
    BY <1>0, <1>4, ParserTypeStep DEF BodyChunk, ParserAction
  <2>2. PcOK'
    BY <1>0, <1>4, ThreadsAre
    DEF BodyChunk, PcOK, Returned, AllPcs, WritablePcs, ErrorPcs, TaskPcs, ServingPcs
  <2>3. ConnectionTypeOK'
    BY <1>0, <1>4, <2>2 DEF BodyChunk
  <2> QED
    BY <2>1, <2>3, TypePartsNext
<1>5. CASE BodyChunkFails
  <2>1. RequestTypeOK'
    BY <1>0, <1>5, ParserTypeStep DEF BodyChunkFails, ParserAction
  <2>2. PcOK' /\ out' \in Seq(Written) /\ socket' \in {"open", "destroyed"}
    BY <1>0, <1>5, HandleErrorType DEF BodyChunkFails
  <2>3. ConnectionTypeOK'
    BY <1>0, <1>5, <2>2 DEF BodyChunkFails
  <2> QED
    BY <2>1, <2>3, TypePartsNext
<1>6. ASSUME NEW where \in {"handler", "chain", "readFailed", "reading"}, Start(where)
      PROVE  ConnectionTypeOK'
  <2>1. dispatched + 1 \in Tasks /\ dispatched' \in 0..MaxRequests
    BY <1>0, <1>6, MaxRequestsAssumption DEF Start, Tasks
  <2>2. served' \in [Tasks -> Nat]
    BY <1>0, <1>6 DEF Start, RequestTypeOK
  <2>3. PcOK'
    BY <1>0, <1>6, <2>1, GotoType, ThreadsAre DEF Start, TaskPcs, ServingPcs
  <2> QED
    BY <1>0, <1>6, <2>1, <2>2, <2>3 DEF Start
<1>7. CASE Dispatch
  <2>1. RequestTypeOK'
    BY <1>0, <1>7, ParserTypeStep DEF Dispatch, ParserAction
  <2>2. \E where \in {"handler", "chain", "readFailed", "reading"} : Start(where)
    BY <1>7 DEF Dispatch
  <2> QED
    BY <1>6, <2>1, <2>2, TypePartsNext
<1>8. CASE DispatchLoading
  <2>1. RequestTypeOK'
    BY <1>0, <1>8, ParserTypeStep, DeclaredLengthType
    DEF DispatchLoading, ParserAction, RequestTypeOK
  <2>2. \E where \in {"handler", "chain", "readFailed", "reading"} : Start(where)
    BY <1>8 DEF DispatchLoading
  <2> QED
    BY <1>6, <2>1, <2>2, TypePartsNext
<1> QED
  BY <1>1, <1>2, <1>3, <1>4, <1>5, <1>7, <1>8 DEF ParserStep

(* What every step of a thread at an await does to the connection: the      *)
(* thread moves, it may write one part, and it may destroy the socket.      *)
Moves(t, where) ==
  /\ Goto(t, where)
  /\ \/ out' = out
     \/ \E who \in Threads, page \in {"router", "error"}, part \in {"status", "headers", "body"} :
          out' = Sent(who, page, part)
  /\ socket' \in {socket, "destroyed"}
  /\ caller' \in {caller, t}
  /\ UNCHANGED <<net, writable, dispatched, served>>

(* A thread that goes on from an await keeps the types. *)
LEMMA MovesType ==
  ASSUME ConnectionTypeOK, NEW t \in Threads, NEW where,
         t = 0 => where \in WritablePcs, t # 0 => where \in TaskPcs, Moves(t, where)
  PROVE  ConnectionTypeOK'
<1> USE DEF ConnectionTypeOK
<1>1. PcOK'
  BY GotoType DEF Moves
<1>2. out' \in Seq(Written)
  BY SentType DEF Moves
<1>3. caller' \in Threads /\ socket' \in {"open", "destroyed"}
  BY DEF Moves
<1> QED
  BY <1>1, <1>2, <1>3 DEF Moves

(* An error page keeps the types. *)
LEMMA ErrorStepType ==
  ASSUME TypeOK, NEW t \in Threads, ErrorStep(t)
  PROVE  TypeOK'
<1>0. RequestTypeOK /\ ConnectionTypeOK
  BY TypeParts
<1>1. requestVars' = requestVars
  BY DEF ErrorStep, ErrorPageStatus, ErrorPageHeaders, ErrorPageDone,
         ErrorPageFails, ErrorPageHangs
<1>2. RequestTypeOK'
  BY <1>0, <1>1, ParserTypeStep DEF ParserAction
<1>3. \E where \in {"errHeaders", "errBody", Handled(t), "rejected", "errHung"} :
        Moves(t, where)
  BY ThreadsAre
  DEF ErrorStep, ErrorPageStatus, ErrorPageHeaders, ErrorPageDone,
         ErrorPageFails, ErrorPageHangs, Moves
<1>4. ConnectionTypeOK'
  BY <1>0, <1>3, MovesType DEF Handled, WritablePcs, TaskPcs, ErrorPcs
<1> QED
  BY <1>2, <1>4, TypePartsNext

(* Where an activation goes from an await. *)
TaskTargets == {"handler", "readFailed", "reading", "failed", "status", "next",
                "headers", "body", "hung", "parsing"}

(* Where an activation goes from an await. *)
LEMMA TaskMoves ==
  ASSUME NEW t \in Tasks, TaskStep(t)
  PROVE  \E where \in TaskTargets : Moves(t, where)
<1> USE DEF Moves, TaskTargets
<1>0. t \in Threads
  BY ThreadsAre
<1>1. CASE ReadBody(t)
  BY <1>1 DEF ReadBody
<1>2. CASE ReadFails(t) \/ Throw(t) \/ WriteFails(t)
  BY <1>2 DEF ReadFails, Throw, WriteFails, Fails
<1>3. CASE Respond(t) \/ StatusWritten(t) \/ HeadersWritten(t)
  BY <1>0, <1>3 DEF Respond, StatusWritten, HeadersWritten
<1>4. CASE Pass(t) \/ BodyClosed(t) \/ BodyHangs(t) \/ RunNext(t)
  BY <1>4 DEF Pass, BodyClosed, BodyHangs, RunNext
<1> QED
  BY <1>1, <1>2, <1>3, <1>4 DEF TaskStep

(* An activation keeps the types. *)
LEMMA TaskStepType ==
  ASSUME TypeOK, NEW t \in Tasks, TaskStep(t)
  PROVE  TypeOK'
<1>0. RequestTypeOK /\ ConnectionTypeOK /\ t \in Threads /\ t # 0
  BY TypeParts, ThreadsAre
<1>1. RequestTypeOK'
  <2>1. CASE ReadBody(t)
    BY <1>0, <2>1, ParserTypeStep, DeclaredLengthType
    DEF ReadBody, ParserAction, RequestTypeOK
  <2>2. CASE RunNext(t)
    BY <1>0, <2>2, ParserTypeStep DEF RunNext, ParserAction
  <2>3. CASE UNCHANGED requestVars
    BY <1>0, <2>3, ParserTypeStep DEF ParserAction
  <2> QED
    BY <2>1, <2>2, <2>3
    DEF TaskStep, ReadFails, Throw, WriteFails, Fails, Respond, StatusWritten,
        HeadersWritten, Pass, BodyClosed, BodyHangs
<1>2. PICK where \in TaskTargets : Moves(t, where)
  BY TaskMoves
<1>3. where \in TaskPcs
  BY DEF TaskTargets, TaskPcs, ServingPcs, BrokenPcs
<1>4. ConnectionTypeOK'
  BY <1>0, <1>2, <1>3, MovesType
<1> QED
  BY <1>1, <1>4, TypePartsNext

(* TypeOK is inductive. *)
LEMMA TypeStep == TypeOK /\ [Next]_vars => TypeOK'
<1> SUFFICES ASSUME TypeOK, [Next]_vars PROVE TypeOK'
  OBVIOUS
<1>1. CASE (\E k \in 1..Len(net) : Deliver(k)) \/ Drain \/ PeerCloses
  BY <1>1, NetworkTypeStep
<1>2. CASE ParserStep
  BY <1>2, ParserStepType
<1>3. CASE \E t \in Threads : ErrorStep(t)
  BY <1>3, ErrorStepType
<1>4. CASE \E t \in Tasks : TaskStep(t)
  BY <1>4, TaskStepType
<1>5. CASE UNCHANGED vars
  <2>1. UNCHANGED <<requestVars, connectionVars>>
    BY <1>5 DEF vars
  <2> QED
    BY <2>1 DEF requestVars, connectionVars, TypeOK, RequestTypeOK
<1> QED
  BY <1>1, <1>2, <1>3, <1>4, <1>5 DEF Next, Step

(* The state of a connection keeps its types. *)
THEOREM TypeCorrect == Spec => []TypeOK
<1>1. Init => TypeOK
  BY TypeInit
<1>2. TypeOK /\ [Next]_vars => TypeOK'
  BY TypeStep
<1> QED
  BY <1>1, <1>2, PTL DEF Spec

--------------------------------------------------------------------------------
(* At most one request is active. *)

(* What IInv says beyond the types. *)
ThreadsInv ==
  /\ \A t \in Tasks : pc[t] = "unused" <=> t > dispatched
  /\ parsing => pc[caller] = "parsing"
  /\ OneActive

(* IInv is TypeOK and what it says of threads. *)
LEMMA InvParts == IInv <=> TypeOK /\ ThreadsInv
BY DEF IInv, ThreadsInv

(* And so it is after a step. *)
LEMMA InvPartsNext == TypeOK' /\ ThreadsInv' => IInv'
BY DEF IInv, ThreadsInv

(* IInv holds at first. *)
LEMMA InvInit == Init => IInv
<1> SUFFICES ASSUME Init PROVE IInv
  OBVIOUS
<1>1. TypeOK
  BY TypeInit
<1>2. ThreadsInv
  BY ThreadsAre, MaxRequestsAssumption
  DEF Init, RequestInit, ThreadsInv, OneActive, Tasks, ActivePcs, ServingPcs, BrokenPcs
<1> QED
  BY <1>1, <1>2, InvParts

(* A thread that is not active moves to where it still is not. *)
LEMMA IdleMove ==
  ASSUME IInv, NEW t \in Threads, NEW where, Goto(t, where),
         where \notin ActivePcs, where # "unused", pc[t] # "unused",
         state' = state \/ pc[t] \in ActivePcs \/ state \notin {"FINISHED", "BODY"},
         dispatched' = dispatched, parsing' => where = "parsing" /\ caller' = t
  PROVE  ThreadsInv'
<1>1. /\ pc \in [Threads -> AllPcs] /\ Tasks \subseteq Threads
      /\ pc' = [pc EXCEPT ![t] = where]
  BY ThreadsAre DEF IInv, TypeOK, AllPcs, Goto
<1>2. pc'[t] = where /\ \A u \in Threads : u # t => pc'[u] = pc[u]
  BY <1>1
<1>3. \A u \in Tasks : pc'[u] = "unused" <=> u > dispatched'
  BY <1>1, <1>2 DEF IInv
<1>4. parsing' => pc'[caller'] = "parsing"
  BY <1>2
<1>5. OneActive'
  <2> SUFFICES ASSUME NEW u \in Tasks, pc'[u] \in ActivePcs
               PROVE  u = dispatched' /\ state' \in {"FINISHED", "BODY"}
    BY DEF OneActive
  <2>1. u # t /\ pc[u] \in ActivePcs
    BY <1>1, <1>2
  <2>2. u = dispatched /\ state \in {"FINISHED", "BODY"}
    BY <2>1 DEF IInv, OneActive
  <2>3. t \in Tasks => pc[t] \notin ActivePcs
    BY <2>1, <2>2 DEF IInv, OneActive
  <2>4. pc[t] \notin ActivePcs
    BY <2>3, ThreadsAre
    DEF IInv, TypeOK, WritablePcs, ErrorPcs, ActivePcs, ServingPcs, BrokenPcs
  <2> QED
    BY <2>2, <2>4
<1> QED
  BY <1>3, <1>4, <1>5 DEF ThreadsInv

(* The active thread moves and stays active. *)
LEMMA ActiveMove ==
  ASSUME IInv, NEW t \in Tasks, NEW where, Goto(t, where),
         pc[t] \in ActivePcs, where \in ActivePcs,
         state' \in {"FINISHED", "BODY"}, dispatched' = dispatched, ~parsing'
  PROVE  ThreadsInv'
<1>1. /\ pc \in [Threads -> AllPcs] /\ Tasks \subseteq Threads
      /\ pc' = [pc EXCEPT ![t] = where]
      /\ where # "unused" /\ pc[t] # "unused"
  BY ThreadsAre
  DEF IInv, TypeOK, AllPcs, Goto, ActivePcs, ServingPcs, BrokenPcs
<1>2. pc'[t] = where /\ \A u \in Threads : u # t => pc'[u] = pc[u]
  BY <1>1
<1>3. \A u \in Tasks : pc'[u] = "unused" <=> u > dispatched'
  BY <1>1, <1>2 DEF IInv
<1>4. OneActive'
  BY <1>1, <1>2 DEF IInv, OneActive
<1> QED
  BY <1>3, <1>4 DEF ThreadsInv

(* The thread that waits for the loop is neither unused nor active. *)
LEMMA CallerWaits ==
  ASSUME IInv, parsing
  PROVE  /\ caller \in Threads /\ pc[caller] = "parsing"
         /\ pc[caller] # "unused" /\ pc[caller] \notin ActivePcs
BY DEF IInv, TypeOK, ActivePcs, ServingPcs, BrokenPcs

(* _handleError, called by the thread that waits for the loop. *)
LEMMA HandleErrorInv ==
  ASSUME IInv, parsing, NEW error, HandleError(caller, error),
         state' = state, dispatched' = dispatched, ~parsing'
  PROVE  ThreadsInv'
<1>1. PICK where \in {"errStatus", Handled(caller)} : Goto(caller, where)
  BY DEF HandleError
<1>2. where \notin ActivePcs /\ where # "unused"
  BY DEF Handled, ActivePcs, ServingPcs, BrokenPcs
<1> QED
  BY <1>1, <1>2, CallerWaits, IdleMove

(* A request is dispatched while the headers are parsed, so none is active. *)
LEMMA StartInv ==
  ASSUME IInv, parsing, state = "HEADERS", NEW where \in ServingPcs, Start(where),
         state' \in {"FINISHED", "BODY"}, parsing' = parsing
  PROVE  ThreadsInv'
<1> DEFINE new == dispatched + 1
<1>1. /\ new \in Tasks /\ new \in Threads /\ dispatched \in Nat /\ Tasks \subseteq Nat
      /\ pc \in [Threads -> AllPcs] /\ Tasks \subseteq Threads
      /\ pc' = [pc EXCEPT ![new] = where]
      /\ dispatched' = new /\ caller' = caller
  <2>1. dispatched \in 0..MaxRequests /\ pc \in [Threads -> AllPcs]
    BY DEF IInv, TypeOK, AllPcs
  <2>2. dispatched < MaxRequests /\ dispatched' = new /\ caller' = caller
    BY DEF Start
  <2>3. pc' = [pc EXCEPT ![new] = where]
    BY DEF Start, Goto
  <2>4. new \in Tasks
    BY <2>1, <2>2, MaxRequestsAssumption DEF Tasks
  <2> QED
    BY <2>1, <2>2, <2>3, <2>4, ThreadsAre
<1> HIDE DEF new
<1>2. pc'[new] = where /\ \A u \in Threads : u # new => pc'[u] = pc[u]
  BY <1>1
<1>3. where # "unused" /\ where \in ActivePcs
  BY DEF ServingPcs, ActivePcs
<1>4. \A u \in Tasks : u > new <=> u > dispatched /\ u # new
  BY <1>1 DEF new
<1>5. \A u \in Tasks : pc'[u] = "unused" <=> u > dispatched'
  BY <1>1, <1>2, <1>3, <1>4 DEF IInv
<1>6. caller # new
  <2>1. pc[new] = "unused"
    BY <1>1 DEF IInv, new
  <2> QED
    BY <2>1, CallerWaits
<1>7. parsing' => pc'[caller'] = "parsing"
  BY <1>1, <1>2, <1>6, CallerWaits
<1>8. OneActive'
  BY <1>1, <1>2 DEF IInv, OneActive
<1> QED
  BY <1>5, <1>7, <1>8 DEF ThreadsInv

(* The network and the Writable activate nobody. *)
LEMMA NetworkInv ==
  ASSUME IInv, (\E k \in 1..Len(net) : Deliver(k)) \/ Drain \/ PeerCloses
  PROVE  ThreadsInv'
<1>0. 0 \in Threads /\ pc[0] \in WritablePcs
  BY ThreadsAre DEF IInv, TypeOK
<1>1. CASE pc' = pc /\ UNCHANGED <<requestVars, dispatched, caller>>
  BY <1>1 DEF IInv, ThreadsInv, OneActive, requestVars
<1>2. CASE Goto(0, "parsing") /\ caller' = 0 /\ UNCHANGED <<state, dispatched>>
  BY <1>0, <1>2, IdleMove
  DEF ActivePcs, ServingPcs, BrokenPcs, WritablePcs, ErrorPcs
<1>3. ASSUME NEW k \in 1..Len(net), Deliver(k)
      PROVE  \/ pc' = pc /\ UNCHANGED <<requestVars, dispatched, caller>>
             \/ Goto(0, "parsing") /\ caller' = 0 /\ UNCHANGED <<state, dispatched>>
  BY <1>3 DEF Deliver, Write
<1>4. CASE Drain
  BY <1>2, <1>4 DEF Drain, Write
<1>5. CASE PeerCloses
  BY <1>1, <1>5 DEF PeerCloses
<1> QED
  BY <1>1, <1>2, <1>3, <1>4, <1>5

(* Whoever runs the loop, no blank line is reached while a route is active. *)
LEMMA ParserInv ==
  ASSUME IInv, ParserStep
  PROVE  ThreadsInv'
<1>0. headers \in Seq(Token) /\ pc \in [Threads -> AllPcs] /\ Tasks \subseteq Threads
  BY ThreadsAre DEF IInv, TypeOK, RequestTypeOK, AllPcs
<1>1. CASE Parse
  <2>1. parsing /\ parsing' = parsing /\ UNCHANGED <<pc, dispatched, caller>>
    BY <1>1 DEF Parse, ParseRequestLine, ParseHeader, connectionVars
  <2>2. state \notin {"FINISHED", "BODY"}
    BY <1>1 DEF Parse, ParseRequestLine, ParseHeader
  <2> QED
    BY <2>1, <2>2 DEF IInv, ThreadsInv, OneActive
<1>2. CASE ParseReturns
  <2>1. /\ parsing /\ ~parsing' /\ state' = state /\ dispatched' = dispatched
        /\ Goto(caller, Returned(caller))
    BY <1>2 DEF ParseReturns, AwaitLine, LeaveLoop
  <2>2. Returned(caller) \notin ActivePcs /\ Returned(caller) # "unused"
    BY DEF Returned, ActivePcs, ServingPcs, BrokenPcs
  <2> QED
    BY <2>1, <2>2, CallerWaits, IdleMove
<1>3. CASE ParseFails
  BY <1>3, HandleErrorInv DEF ParseFails, RejectLine
<1>4. CASE BodyChunk
  <2>1. /\ parsing /\ ~parsing' /\ dispatched' = dispatched
        /\ state = "BODY" /\ state' \in {"FINISHED", "BODY"}
    BY <1>4 DEF BodyChunk, UpdateBody, Fill
  <2>2. \A u \in Tasks :
           \/ pc'[u] = pc[u]
           \/ u = caller /\ pc'[u] = "done"
           \/ u = dispatched /\ pc[u] = "reading" /\ pc'[u] = "handler"
    BY <1>0, <1>4, ThreadsAre, CallerWaits, <2>1 DEF BodyChunk, Returned
  <2>3. \A u \in Tasks : pc'[u] = "unused" <=> pc[u] = "unused"
    BY <2>1, <2>2, CallerWaits
  <2>4. \A u \in Tasks : pc'[u] \in ActivePcs => pc[u] \in ActivePcs
    BY <2>2 DEF ActivePcs, ServingPcs, BrokenPcs
  <2> QED
    BY <2>1, <2>3, <2>4 DEF IInv, ThreadsInv, OneActive
<1>5. CASE BodyChunkFails
  BY <1>5, HandleErrorInv DEF BodyChunkFails, UpdateBodyThrows
<1>6. CASE Dispatch
  <2>1. \E where \in ServingPcs : Start(where)
    BY <1>6 DEF Dispatch, ServingPcs
  <2>2. /\ parsing /\ parsing' = parsing /\ state = "HEADERS"
        /\ state' \in {"FINISHED", "BODY"}
    BY <1>6 DEF Dispatch, EndHeaders, EndOfHeaders
  <2> QED
    BY <2>1, <2>2, StartInv
<1>7. CASE DispatchLoading
  <2>1. \E where \in ServingPcs : Start(where)
    BY <1>7 DEF DispatchLoading, ServingPcs
  <2>2. /\ parsing /\ parsing' = parsing /\ state = "HEADERS"
        /\ state' \in {"FINISHED", "BODY"}
    BY <1>7 DEF DispatchLoading, EndHeadersLoading, EndOfHeaders, Fill
  <2> QED
    BY <2>1, <2>2, StartInv
<1> QED
  BY <1>1, <1>2, <1>3, <1>4, <1>5, <1>6, <1>7 DEF ParserStep

(* An error page activates nobody. *)
LEMMA ErrorInv ==
  ASSUME IInv, NEW t \in Threads, ErrorStep(t)
  PROVE  ThreadsInv'
<1>1. /\ ~parsing' /\ state' = state /\ dispatched' = dispatched
      /\ pc[t] \in ErrorPcs
      /\ \E where \in {"errHeaders", "errBody", Handled(t), "rejected", "errHung"} :
           Goto(t, where)
  BY DEF ErrorStep, ErrorPageStatus, ErrorPageHeaders, ErrorPageDone,
         ErrorPageFails, ErrorPageHangs, requestVars, ErrorPcs
<1>2. PICK where \in {"errHeaders", "errBody", Handled(t), "rejected", "errHung"} :
        Goto(t, where)
  BY <1>1
<1>3. where \notin ActivePcs /\ where # "unused" /\ pc[t] # "unused"
  BY <1>1 DEF ErrorPcs, ActivePcs, ServingPcs, BrokenPcs, Handled
<1> QED
  BY <1>1, <1>2, <1>3, IdleMove

(* An activation that is done leaves room for the next. *)
LEMMA TaskInv ==
  ASSUME IInv, NEW t \in Tasks, TaskStep(t)
  PROVE  ThreadsInv'
<1>0. t \in Threads
  BY ThreadsAre
<1>1. pc[t] \in ActivePcs /\ dispatched' = dispatched
  BY DEF TaskStep, ReadBody, ReadFails, Throw, WriteFails, Fails, Respond,
         StatusWritten, HeadersWritten, Pass, BodyClosed, BodyHangs, RunNext,
         ActivePcs, ServingPcs
<1>2. CASE RunNext(t)
  <2>1. Goto(t, "parsing") /\ caller' = t
    BY <1>2 DEF RunNext
  <2> QED
    BY <1>0, <1>1, <2>1, IdleMove DEF ActivePcs, ServingPcs, BrokenPcs
<1>3. CASE ~RunNext(t)
  <2>1. ~parsing' /\ (state' = state \/ state' \in {"FINISHED", "BODY"})
    BY <1>3
    DEF TaskStep, ReadBody, LoadBufferBody, Fill, ReadFails, Throw, WriteFails, Fails,
        Respond, StatusWritten, HeadersWritten, Pass, BodyClosed, BodyHangs, requestVars
  <2>2. state' \in {"FINISHED", "BODY"}
    BY <1>1, <2>1 DEF IInv, OneActive
  <2>3. \E where \in ActivePcs : Goto(t, where)
    BY <1>3
    DEF TaskStep, ReadBody, ReadFails, Throw, WriteFails, Fails, Respond,
        StatusWritten, HeadersWritten, Pass, BodyClosed, BodyHangs,
        ActivePcs, ServingPcs, BrokenPcs
  <2> QED
    BY <1>1, <2>1, <2>2, <2>3, ActiveMove
<1> QED
  BY <1>2, <1>3

(* IInv is inductive. *)
LEMMA InvStep == IInv /\ [Next]_vars => IInv'
<1> SUFFICES ASSUME IInv, [Next]_vars PROVE IInv'
  OBVIOUS
<1>0. TypeOK'
  BY TypeStep, InvParts
<1>1. CASE (\E k \in 1..Len(net) : Deliver(k)) \/ Drain \/ PeerCloses
  BY <1>0, <1>1, NetworkInv, InvPartsNext
<1>2. CASE ParserStep
  BY <1>0, <1>2, ParserInv, InvPartsNext
<1>3. CASE \E t \in Threads : ErrorStep(t)
  BY <1>0, <1>3, ErrorInv, InvPartsNext
<1>4. CASE \E t \in Tasks : TaskStep(t)
  BY <1>0, <1>4, TaskInv, InvPartsNext
<1>5. CASE UNCHANGED vars
  <2>1. UNCHANGED <<state, parsing, pc, dispatched, caller>>
    BY <1>5 DEF vars, requestVars, connectionVars
  <2>2. ThreadsInv'
    BY <2>1 DEF IInv, ThreadsInv, OneActive
  <2> QED
    BY <1>0, <2>2, InvPartsNext
<1> QED
  BY <1>1, <1>2, <1>3, <1>4, <1>5 DEF Next, Step

(* The threads of a connection: activations are taken in order, a loop on   *)
(* the stack has a thread that waits for it, and at most one activation is  *)
(* active (client-handler.ts:182-222).                                      *)
THEOREM InvCorrect == Spec => []IInv
<1>1. Init => IInv
  BY InvInit
<1>2. IInv /\ [Next]_vars => IInv'
  BY InvStep
<1> QED
  BY <1>1, <1>2, PTL DEF Spec

(* However the input is cut, whatever fails and whenever the peer leaves,   *)
(* at most one request uses the shared request object at a time, and the    *)
(* parser does not touch its line and headers meanwhile.                    *)
THEOREM OneActiveCorrect == Spec => []OneActive
<1>1. Init => IInv
  BY InvInit
<1>2. IInv /\ [Next]_vars => IInv'
  BY InvStep
<1>3. IInv => OneActive
  BY DEF IInv
<1> QED
  BY <1>1, <1>2, <1>3, PTL DEF Spec
================================================================================
