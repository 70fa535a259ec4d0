------------------------ MODULE ClientHandlerRefinement ------------------------
(***************************************************************************)
(* A connection implements RequestPipeline: each of its steps accepts a    *)
(* request, writes a part of the response of the accepted one, completes   *)
(* or abandons it, writes a part of an error page, closes the connection,  *)
(* or changes nothing the promise speaks of.                               *)
(***************************************************************************)
EXTENDS ClientHandlerProofs

(* Phase, as a function of where the last activation is. *)
PhaseOf(where) ==
  CASE where \in {"chain", "reading", "readFailed", "handler"} -> "serving"
    [] where \in {"status", "headers", "body"} -> where
    [] where \in BrokenPcs -> "broken"
    [] OTHER -> "idle"

(* The phase is read off the last activation. *)
LEMMA PhaseIs ==
  /\ dispatched = 0 => Phase = "idle"
  /\ dispatched # 0 => Phase = PhaseOf(pc[dispatched])
BY DEF Phase, PhaseOf

(* And so it is after a step. *)
LEMMA PhaseIsNext ==
  /\ dispatched' = 0 => Phase' = "idle"
  /\ dispatched' # 0 => Phase' = PhaseOf(pc'[dispatched'])
BY DEF Phase, PhaseOf

(* What each await of an activation means to the pipeline. *)
LEMMA PhaseOfValues ==
  ASSUME NEW where
  PROVE  /\ where \in {"chain", "reading", "readFailed", "handler"} =>
              PhaseOf(where) = "serving"
         /\ where \in {"status", "headers", "body"} => PhaseOf(where) = where
         /\ where \in {"failed", "hung"} => PhaseOf(where) = "broken"
         /\ where \in AllPcs \ (ServingPcs \cup BrokenPcs) => PhaseOf(where) = "idle"
BY DEF PhaseOf, BrokenPcs, ServingPcs, AllPcs, WritablePcs, TaskPcs, ErrorPcs

(* A step of a thread that neither is nor becomes active keeps the phase. *)
LEMMA PhaseKept ==
  ASSUME IInv, NEW t \in Threads, NEW where \in AllPcs, Goto(t, where),
         pc[t] \notin ServingPcs \cup BrokenPcs,
         where \notin ServingPcs \cup BrokenPcs,
         dispatched' = dispatched
  PROVE  Phase' = Phase
<1>1. /\ pc \in [Threads -> AllPcs] /\ dispatched \in Threads
      /\ pc' = [pc EXCEPT ![t] = where]
  BY MaxRequestsAssumption DEF IInv, TypeOK, AllPcs, Goto, Threads
<1>2. CASE dispatched = t
  <2>1. pc[dispatched] \in AllPcs /\ pc'[dispatched] = where
    BY <1>1, <1>2
  <2>2. PhaseOf(pc[dispatched]) = "idle" /\ PhaseOf(pc'[dispatched]) = "idle"
    BY <1>2, <2>1, PhaseOfValues
  <2> QED
    BY <2>2, PhaseIs, PhaseIsNext
<1>3. CASE dispatched # t
  <2>1. pc'[dispatched] = pc[dispatched]
    BY <1>1, <1>3
  <2> QED
    BY <2>1, PhaseIs, PhaseIsNext
<1> QED
  BY <1>2, <1>3

(* The active thread is the last activation: its moves are the phase's. *)
LEMMA PhaseMoves ==
  ASSUME IInv, NEW t \in Tasks, pc[t] \in ActivePcs, NEW where, Goto(t, where),
         dispatched' = dispatched
  PROVE  t = dispatched /\ Phase = PhaseOf(pc[t]) /\ Phase' = PhaseOf(where)
<1>1. t = dispatched /\ dispatched # 0
  BY ThreadsAre DEF IInv, OneActive
<1>2. pc' = [pc EXCEPT ![t] = where] /\ t \in DOMAIN pc
  BY ThreadsAre DEF Goto, IInv, TypeOK
<1> QED
  BY <1>1, <1>2, PhaseIs, PhaseIsNext

(* Sent is Emitted of the abstract specification. *)
LEMMA SentIsEmitted ==
  ASSUME NEW t, NEW page, NEW part
  PROVE  Sent(t, page, part) = Pipeline!Emitted(t, page, part)
BY DEF Sent, Pipeline!Emitted, Open

(* A part of an error page is the pipeline's ErrorPage. *)
LEMMA ErrorPageStep ==
  ASSUME NEW t \in Threads, NEW part \in {"status", "headers", "body"},
         out' = Sent(0, "error", part), Phase' = Phase,
         dispatched' = dispatched, socket' = socket
  PROVE  [Pipeline!Next]_(Pipeline!vars)
<1>1. CASE Open
  <2>1. Pipeline!ErrorPage
    BY <1>1, SentIsEmitted DEF Pipeline!ErrorPage, Pipeline!Parts, Open
  <2> QED
    BY <2>1 DEF Pipeline!Next
<1>2. CASE ~Open
  <2>1. out' = out
    BY <1>2 DEF Sent
  <2> QED
    BY <2>1 DEF Pipeline!vars, Open
<1> QED
  BY <1>1, <1>2

(* A step that sends nothing is a Close or no step of the pipeline. *)
LEMMA CloseStep ==
  ASSUME socket' \in {socket, "destroyed"}, out' = out, Phase' = Phase,
         dispatched' = dispatched
  PROVE  [Pipeline!Next]_(Pipeline!vars)
<1>1. CASE socket' = "destroyed"
  BY <1>1 DEF Pipeline!Close, Pipeline!Next, Open
<1>2. CASE socket' = socket
  BY <1>2 DEF Pipeline!vars, Open
<1> QED
  BY <1>1, <1>2

(* A part of a response is the pipeline's Respond. *)
LEMMA RespondStep ==
  ASSUME IInv, NEW t \in Tasks, NEW part \in {"status", "headers", "body"},
         pc[t] = IF part = "status" THEN "handler"
                 ELSE IF part = "headers" THEN "status" ELSE "headers",
         Goto(t, part), out' = Sent(t, "router", part),
         dispatched' = dispatched, socket' = socket
  PROVE  Pipeline!Next
<1>1. pc[t] \in ActivePcs
  BY DEF ActivePcs, ServingPcs
<1>2. t = dispatched /\ Phase = PhaseOf(pc[t]) /\ Phase' = PhaseOf(part)
  BY <1>1, PhaseMoves
<1>3. /\ Phase' = part
      /\ Phase \in {"serving", "status", "headers"}
      /\ part = Pipeline!PartAfter(Phase)
  BY <1>2, PhaseOfValues DEF Pipeline!PartAfter
<1>4. Pipeline!Respond
  BY <1>2, <1>3, SentIsEmitted DEF Pipeline!Respond, Open
<1> QED
  BY <1>4 DEF Pipeline!Next

(* An error of the parser begins a page, which sends nothing yet. *)
LEMMA HandleErrorStep ==
  ASSUME IInv, parsing, NEW error, HandleError(caller, error), dispatched' = dispatched
  PROVE  [Pipeline!Next]_(Pipeline!vars)
<1>0. caller \in Threads /\ pc[caller] \notin ServingPcs \cup BrokenPcs
  BY CallerWaits DEF ActivePcs
<1>1. CASE error \in {"syntax", "version"}
  <2>1. /\ Goto(caller, "errStatus") /\ socket' = socket
        /\ out' = Sent(0, "error", "status")
    BY <1>1 DEF HandleError
  <2>2. Phase' = Phase
    BY <1>0, <2>1, PhaseKept
    DEF AllPcs, TaskPcs, ErrorPcs, ServingPcs, BrokenPcs
  <2> QED
    BY <1>0, <2>1, <2>2, ErrorPageStep
<1>2. CASE error \notin {"syntax", "version"}
  <2>1. Goto(caller, Handled(caller)) /\ socket' = "destroyed" /\ out' = out
    BY <1>2 DEF HandleError
  <2>2. Phase' = Phase
    BY <1>0, <2>1, PhaseKept
    DEF Handled, AllPcs, WritablePcs, TaskPcs, ServingPcs, BrokenPcs
  <2> QED
    BY <2>1, <2>2, CloseStep
<1> QED
  BY <1>1, <1>2

(* A dispatch is the pipeline's Accept: the one before is done. *)
LEMMA AcceptStep ==
  ASSUME IInv, state = "HEADERS", Start("handler") \/ Start("chain")
                                  \/ Start("readFailed") \/ Start("reading")
  PROVE  Pipeline!Next
<1>1. PICK where \in {"chain", "reading", "readFailed", "handler"} : Start(where)
  OBVIOUS
<1>2. /\ dispatched \in 0..MaxRequests /\ pc \in [Threads -> AllPcs]
      /\ dispatched' = dispatched + 1 /\ dispatched < MaxRequests
      /\ pc' = [pc EXCEPT ![dispatched + 1] = where]
      /\ out' = out /\ socket' = socket
  BY <1>1 DEF Start, Goto, IInv, TypeOK, AllPcs
<1>3. Phase = "idle"
  <2>1. CASE dispatched = 0
    BY <2>1, PhaseIs
  <2>2. CASE dispatched # 0
    <3>1. dispatched \in Tasks /\ dispatched \in Threads
      BY <1>2, <2>2, MaxRequestsAssumption DEF Tasks, Threads
    <3>2. pc[dispatched] \in AllPcs \ (ServingPcs \cup BrokenPcs)
      BY <1>2, <3>1 DEF IInv, OneActive, ActivePcs
    <3> QED
      BY <2>2, <3>2, PhaseOfValues, PhaseIs
  <2> QED
    BY <2>1, <2>2
<1>4. Phase' = "serving"
  <2>1. dispatched + 1 \in Threads /\ dispatched' # 0
    BY <1>2, MaxRequestsAssumption DEF Threads
  <2>2. pc'[dispatched'] = where
    BY <1>2, <2>1
  <2> QED
    BY <2>1, <2>2, PhaseOfValues, PhaseIsNext
<1>5. Pipeline!Accept
  BY <1>2, <1>3, <1>4 DEF Pipeline!Accept, Open
<1> QED
  BY <1>5 DEF Pipeline!Next

(* The network and the Writable are no step of the pipeline, or a Close. *)
LEMMA NetworkRefines ==
  ASSUME IInv, (\E k \in 1..Len(net) : Deliver(k)) \/ Drain \/ PeerCloses
  PROVE  [Pipeline!Next]_(Pipeline!vars)
<1>0. 0 \in Threads /\ pc[0] \in WritablePcs
  BY ThreadsAre DEF IInv, TypeOK
<1>1. /\ dispatched' = dispatched /\ out' = out
      /\ socket' \in {socket, "destroyed"}
      /\ pc' = pc \/ Goto(0, "parsing")
  BY DEF Deliver, Drain, PeerCloses
<1>2. CASE pc' = pc
  <2>1. Phase' = Phase
    BY <1>1, <1>2, PhaseIs, PhaseIsNext
  <2> QED
    BY <1>1, <2>1, CloseStep
<1>3. CASE Goto(0, "parsing")
  <2>1. Phase' = Phase
    BY <1>0, <1>1, <1>3, PhaseKept
    DEF AllPcs, WritablePcs, ErrorPcs, ServingPcs, BrokenPcs
  <2> QED
    BY <1>1, <2>1, CloseStep
<1> QED
  BY <1>1, <1>2, <1>3

(* A turn of the loop accepts a request, closes, or is no step of it. *)
LEMMA ParserRefines ==
  ASSUME IInv, ParserStep
  PROVE  [Pipeline!Next]_(Pipeline!vars)
<1>1. CASE Parse
  <2>1. UNCHANGED <<pc, dispatched, out, socket>>
    BY <1>1 DEF Parse, connectionVars
  <2>2. Phase' = Phase
    BY <2>1, PhaseIs, PhaseIsNext
  <2> QED
    BY <2>1, <2>2, CloseStep
<1>2. CASE ParseReturns
  <2>1. /\ parsing /\ UNCHANGED <<dispatched, out, socket>>
        /\ Goto(caller, Returned(caller))
    BY <1>2 DEF ParseReturns, AwaitLine, LeaveLoop
  <2>2. Phase' = Phase
    BY <2>1, CallerWaits, PhaseKept
    DEF Returned, AllPcs, WritablePcs, TaskPcs, ActivePcs, ServingPcs, BrokenPcs
  <2> QED
    BY <2>1, <2>2, CloseStep
<1>3. CASE ParseFails
  BY <1>3, HandleErrorStep DEF ParseFails, RejectLine
<1>4. CASE BodyChunk
  <2>0. /\ dispatched \in 0..MaxRequests /\ pc \in [Threads -> AllPcs]
        /\ dispatched \in Threads
    BY DEF IInv, TypeOK, AllPcs, Threads
  <2>1. /\ parsing /\ UNCHANGED <<dispatched, out, socket>>
        /\ pc' = [pc EXCEPT
             ![caller] = Returned(caller),
             ![dispatched] = IF @ = "reading" /\ state' = "FINISHED"
                             THEN "handler" ELSE @]
    BY <1>4 DEF BodyChunk, UpdateBody
  <2>2. /\ caller = dispatched => /\ pc[dispatched] = "parsing"
                                  /\ pc'[dispatched] \in {"idle", "done"}
        /\ caller # dispatched => \/ pc'[dispatched] = pc[dispatched]
                                  \/ /\ pc[dispatched] = "reading"
                                     /\ pc'[dispatched] = "handler"
    BY <2>0, <2>1, CallerWaits DEF Returned
  <2>3. PhaseOf(pc'[dispatched]) = PhaseOf(pc[dispatched])
    BY <2>2, PhaseOfValues
    DEF AllPcs, WritablePcs, TaskPcs, ServingPcs, BrokenPcs
  <2>4. Phase' = Phase
    BY <2>1, <2>3, PhaseIs, PhaseIsNext
  <2> QED
    BY <2>1, <2>4, CloseStep
<1>5. CASE BodyChunkFails
  BY <1>5, HandleErrorStep DEF BodyChunkFails, UpdateBodyThrows
<1>6. CASE Dispatch
  BY <1>6, AcceptStep DEF Dispatch, EndHeaders, EndOfHeaders
<1>7. CASE DispatchLoading
  BY <1>7, AcceptStep DEF DispatchLoading, EndHeadersLoading, EndOfHeaders
<1> QED
  BY <1>1, <1>2, <1>3, <1>4, <1>5, <1>6, <1>7 DEF ParserStep

(* An error page is a part of it, closes, or is no step. *)
LEMMA ErrorRefines ==
  ASSUME IInv, NEW t \in Threads, ErrorStep(t)
  PROVE  [Pipeline!Next]_(Pipeline!vars)
<1>1. /\ dispatched' = dispatched /\ pc[t] \in ErrorPcs
      /\ \/ out' = out /\ socket' \in {socket, "destroyed"}
         \/ /\ socket' = socket
            /\ \E part \in {"status", "headers", "body"} : out' = Sent(0, "error", part)
  BY DEF ErrorStep, ErrorPageStatus, ErrorPageHeaders, ErrorPageDone,
         ErrorPageFails, ErrorPageHangs, ErrorPcs
<1>2. PICK where \in {"errHeaders", "errBody", Handled(t), "rejected", "errHung"} :
        Goto(t, where)
  BY DEF ErrorStep, ErrorPageStatus, ErrorPageHeaders, ErrorPageDone,
         ErrorPageFails, ErrorPageHangs
<1>3. /\ where \in AllPcs /\ where \notin ServingPcs \cup BrokenPcs
      /\ pc[t] \notin ServingPcs \cup BrokenPcs
  BY <1>1 DEF Handled, AllPcs, WritablePcs, TaskPcs, ErrorPcs, ServingPcs, BrokenPcs
<1>4. Phase' = Phase
  BY <1>1, <1>2, <1>3, PhaseKept
<1> QED
  BY <1>1, <1>4, CloseStep, ErrorPageStep

(* An activation sends, completes, is abandoned, or makes no step. *)
LEMMA TaskRefines ==
  ASSUME IInv, NEW t \in Tasks, TaskStep(t)
  PROVE  [Pipeline!Next]_(Pipeline!vars)
<1>0. dispatched' = dispatched
  BY DEF TaskStep, ReadBody, ReadFails, Throw, WriteFails, Fails, Respond,
         StatusWritten, HeadersWritten, Pass, BodyClosed, BodyHangs, RunNext
<1>1. CASE ReadBody(t)
  <2>1. PICK where \in {"handler", "readFailed", "reading"} : Goto(t, where)
    BY <1>1 DEF ReadBody
  <2>2. pc[t] = "chain" /\ out' = out /\ socket' = socket
    BY <1>1 DEF ReadBody
  <2>3. Phase' = Phase
    BY <1>0, <2>1, <2>2, PhaseMoves, PhaseOfValues DEF ActivePcs, ServingPcs
  <2> QED
    BY <1>0, <2>2, <2>3, CloseStep
<1>2. ASSUME pc[t] \in {"readFailed", "handler", "status", "headers", "body"},
             NEW where \in {"failed", "hung"}, Goto(t, where),
             out' = out, socket' = "destroyed"
      PROVE  [Pipeline!Next]_(Pipeline!vars)
  <2>1. Phase' = "broken" /\ Phase \in {"serving", "status", "headers", "body"}
    BY <1>0, <1>2, PhaseMoves, PhaseOfValues DEF ActivePcs, ServingPcs
  <2>2. Pipeline!Abandon
    BY <1>0, <1>2, <2>1 DEF Pipeline!Abandon, Open
  <2> QED
    BY <2>2 DEF Pipeline!Next
<1>3. CASE ReadFails(t) \/ Throw(t) \/ WriteFails(t)
  BY <1>2, <1>3 DEF ReadFails, Throw, WriteFails, Fails
<1>4. CASE BodyHangs(t)
  <2>1. socket' = "destroyed"
    BY <1>4 DEF BodyHangs, Open, IInv, TypeOK
  <2> QED
    BY <1>2, <1>4, <2>1 DEF BodyHangs
<1>5. CASE Respond(t)
  BY <1>5, RespondStep DEF Respond
<1>6. CASE StatusWritten(t)
  BY <1>6, RespondStep DEF StatusWritten
<1>7. CASE HeadersWritten(t)
  BY <1>7, RespondStep DEF HeadersWritten
<1>8. CASE Pass(t) \/ BodyClosed(t)
  <2>1. /\ pc[t] \in {"handler", "body"} /\ Goto(t, "next")
        /\ out' = out /\ socket' = socket
    BY <1>8 DEF Pass, BodyClosed
  <2>2. Phase \in {"serving", "body"} /\ Phase' = "idle"
    BY <1>0, <2>1, PhaseMoves, PhaseOfValues
    DEF AllPcs, TaskPcs, ActivePcs, ServingPcs, BrokenPcs
  <2>3. Pipeline!Complete
    BY <1>0, <2>1, <2>2 DEF Pipeline!Complete, Open
  <2> QED
    BY <2>3 DEF Pipeline!Next
<1>9. CASE RunNext(t)
  <2>1. pc[t] = "next" /\ Goto(t, "parsing") /\ out' = out /\ socket' = socket
    BY <1>9 DEF RunNext
  <2>2. Phase' = Phase
    BY <1>0, <2>1, PhaseMoves, PhaseOfValues
    DEF AllPcs, TaskPcs, ActivePcs, ServingPcs, BrokenPcs
  <2> QED
    BY <1>0, <2>1, <2>2, CloseStep
<1> QED
  BY <1>1, <1>3, <1>4, <1>5, <1>6, <1>7, <1>8, <1>9 DEF TaskStep

(* Every step is a step of the pipeline, or none of it. *)
LEMMA StepRefines ==
  IInv /\ [Next]_vars => [Pipeline!Next]_(Pipeline!vars)
<1> SUFFICES ASSUME IInv, [Next]_vars PROVE [Pipeline!Next]_(Pipeline!vars)
  OBVIOUS
<1>1. CASE (\E k \in 1..Len(net) : Deliver(k)) \/ Drain \/ PeerCloses
  BY <1>1, NetworkRefines
<1>2. CASE ParserStep
  BY <1>2, ParserRefines
<1>3. CASE \E t \in Threads : ErrorStep(t)
  BY <1>3, ErrorRefines
<1>4. CASE \E t \in Tasks : TaskStep(t)
  BY <1>4, TaskRefines
<1>5. CASE UNCHANGED vars
  <2>1. UNCHANGED <<pc, dispatched, out, socket>>
    BY <1>5 DEF vars, connectionVars
  <2>2. Phase' = Phase
    BY <2>1, PhaseIs, PhaseIsNext
  <2> QED
    BY <2>1, <2>2, CloseStep
<1> QED
  BY <1>1, <1>2, <1>3, <1>4, <1>5 DEF Next, Step

(* The initial states are initial states of the pipeline. *)
LEMMA InitRefines == Init => Pipeline!Init
BY DEF Init, Pipeline!Init, Phase, Open

(* For every set of streams and any number of requests, a connection        *)
(* serves pipelined requests one after another.                             *)
THEOREM ImplementsPipeline == Spec => PipelineSpec
<1>1. Init => IInv
  BY InvInit
<1>2. IInv /\ [Next]_vars => IInv'
  BY InvStep
<1>3. Init => Pipeline!Init
  BY InitRefines
<1>4. IInv /\ [Next]_vars => [Pipeline!Next]_(Pipeline!vars)
  BY StepRefines
<1> QED
  BY <1>1, <1>2, <1>3, <1>4, PTL DEF Spec, PipelineSpec, Pipeline!Spec

PipelineFacts == INSTANCE RequestPipelineProofs
  WITH accepted <- dispatched, phase <- Phase, open <- Open, sent <- out

(* Hence what RequestPipeline guarantees of the responses holds of what a   *)
(* connection writes, for every set of streams and any number of requests.  *)
THEOREM ResponsesInOrderCorrect == Spec => []ResponsesInOrder
<1>1. PipelineFacts!Spec => []PipelineFacts!ResponsesInOrder
  BY PipelineFacts!PipelineInOrder
<1>2. Pipeline!Init => PipelineFacts!Init
  BY DEF Pipeline!Init, PipelineFacts!Init
<1>3. [Pipeline!Next]_(Pipeline!vars) => [PipelineFacts!Next]_(PipelineFacts!vars)
  BY DEF Pipeline!Next, Pipeline!Accept, Pipeline!Respond, Pipeline!Complete,
         Pipeline!Abandon, Pipeline!ErrorPage, Pipeline!Close, Pipeline!vars,
         Pipeline!Emitted, Pipeline!PartAfter, Pipeline!Parts,
         PipelineFacts!Next, PipelineFacts!Accept, PipelineFacts!Respond,
         PipelineFacts!Complete, PipelineFacts!Abandon, PipelineFacts!ErrorPage,
         PipelineFacts!Close, PipelineFacts!vars, PipelineFacts!Emitted,
         PipelineFacts!PartAfter, PipelineFacts!Parts
<1>4. PipelineFacts!ResponsesInOrder => ResponsesInOrder
  BY DEF PipelineFacts!ResponsesInOrder, ResponsesInOrder, Pipeline!ResponsesInOrder,
         PipelineFacts!PartNo, Pipeline!PartNo
<1> QED
  BY <1>1, <1>2, <1>3, <1>4, ImplementsPipeline, PTL
  DEF PipelineSpec, Pipeline!Spec, PipelineFacts!Spec
================================================================================
