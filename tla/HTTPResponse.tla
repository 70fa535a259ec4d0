------------------------------ MODULE HTTPResponse ------------------------------
(***************************************************************************)
(* The responses of one connection, src/http/response.ts, one after        *)
(* another: the calls a route makes on its response object, the graph of   *)
(* streams its body flows through, and the socket they all write to.       *)
(*                                                                         *)
(*   source -> [body transform] -> framer -> [raw transform] -> socket     *)
(*                                                                         *)
(* The framer is the Transform of _startBody: it chunks the body or passes *)
(* it on, and the call that sends the body waits for its 'close'.  A pipe  *)
(* moves one chunk at a time and rests while what it writes to is full.    *)
(* Sizes are counted in units; a body transform adds one unit at its end.  *)
(* The default headers are one write, and a header has no name: what is    *)
(* kept of headers is their number and how they delimit the body.          *)
(***************************************************************************)
EXTENDS Naturals, Sequences, FiniteSets

CONSTANTS
  Routes,        \* what routes do: [calls, chunks, size, head]
  MaxResponses,  \* bound on the responses of the connection
  HighWaterMark, \* how many chunks a raw transform holds before it is full
  PeerMayClose   \* whether the peer may close or reset the connection

Calls == {"transform", "raw", "header", "size", "status", "buffered", "streamed",
          "empty", "framing", "defaults", "endHeaders", "pipe", "closed", "endBody"}

(* What only the methods that send a body call. *)
InternalCalls == {"framing", "pipe", "closed"}

(* calls in the order the route makes them; the sizes of the chunks its     *)
(* source reads; what buffer.length or fs.stat says; a request for HEAD.    *)
Route == [calls : Seq(Calls \ InternalCalls), chunks : Seq(Nat), size : Nat, head : BOOLEAN]

ASSUME RoutesAssumption == Routes \subseteq Route
ASSUME MaxResponsesAssumption == MaxResponses \in Nat
ASSUME HighWaterMarkAssumption == HighWaterMark \in Nat \ {0}
ASSUME PeerAssumption == PeerMayClose \in BOOLEAN

VARIABLES
  routes,    \* the routes that were taken; the last one is the current
  plan,      \* the calls the current route still has to make
  state,     \* _state of the current response: "line", "headers", "body", "finished"
  enqueued,  \* _enqueuedHeaders: how many
  bodySize,  \* _bodySize; 0 stands for undefined as well, the code tests !_bodySize
  transform, \* there are _bodyTransforms
  raw,       \* there are _rawBodyTransforms
  chunked,   \* Transfer-Encoding: chunked was added
  source,    \* the chunks not read yet, by their sizes
  encoder,   \* what the body transform holds
  framer,    \* what the framer holds
  eof,       \* how far the end of the body came
  tail,      \* for each response, what its raw transform holds
  wire,      \* what was sent: [who, part, n]; n is a size where part has one
  socket     \* "open" or "destroyed"

response == <<state, enqueued, bodySize, transform, raw, chunked>>
streams == <<source, encoder, framer, eof, tail>>
vars == <<routes, plan, response, streams, wire, socket>>

Responses == 1..MaxResponses
Parts == {"status", "header", "length", "default", "chunked", "blank", "data", "chunk",
          "last"}
Piece == [who : Responses, part : Parts, n : Nat]

Open == socket = "open"
Current == Len(routes)
Idle == plan = <<>>

(* The methods that write a whole response. *)
TextCalls == <<"status", "buffered">>
StreamCalls == <<"status", "streamed">>
FileCalls(head) == <<"size", "status", IF head THEN "empty" ELSE "streamed">>
RedirectCalls == <<"status", "header", "endHeaders", "endBody">>

(* The states in which a call does not throw. *)
Allowed(call) ==
  CASE call \in {"transform", "raw", "header", "defaults"} -> {"line", "headers"}
    [] call = "status"                       -> {"line"}
    [] call \in {"buffered", "streamed", "framing", "endHeaders"} -> {"headers"}
    [] call = "endBody"                      -> {"body"}
    [] OTHER -> {"line", "headers", "body", "finished"}

(* Mutant: a body that transforms change is sent with the size it had. *)
ShouldUseChunkingBySize == bodySize = 0

ShouldUseChunking == bodySize = 0 \/ transform

(* The parts a call writes with client.write before it resolves. *)
Writes(call) ==
  CASE call = "status"     -> <<"status">>
    [] call = "header"     -> IF state = "line" THEN <<>> ELSE <<"header">>
    [] call = "framing"    -> IF ShouldUseChunking THEN <<>> ELSE <<"length">>
    [] call = "defaults"   -> IF state = "line" THEN <<>>
                              ELSE IF chunked THEN <<"default", "chunked">> ELSE <<"default">>
    [] call = "endHeaders" -> <<"blank">>
    [] OTHER               -> <<>>

Init ==
  /\ routes = <<>>
  /\ plan = <<>>
  /\ state = "finished"
  /\ enqueued = 0 /\ bodySize = 0
  /\ transform = FALSE /\ raw = FALSE /\ chunked = FALSE
  /\ source = <<>> /\ encoder = <<>> /\ framer = <<>> /\ eof = "closed"
  /\ tail = [r \in Responses |-> <<>>]
  /\ wire = <<>>
  /\ socket = "open"

--------------------------------------------------------------------------------
(* The calls of a route. *)

(* _onRequest: a new response object, once the previous route resolved. *)
Begin ==
  /\ Open /\ Idle
  /\ Current < MaxResponses
  /\ \E route \in Routes :
       /\ routes' = Append(routes, route)
       /\ plan' = route.calls
  /\ state' = "line"
  /\ enqueued' = 0 /\ bodySize' = 0
  /\ transform' = FALSE /\ raw' = FALSE /\ chunked' = FALSE
  /\ source' = <<>> /\ encoder' = <<>> /\ framer' = <<>> /\ eof' = "none"
  /\ UNCHANGED <<tail, wire, socket>>

(* The next call, in a state it accepts; what it writes is sent. *)
Call(call) ==
  /\ ~Idle /\ Head(plan) = call
  /\ state \in Allowed(call)
  /\ Writes(call) # <<>> => Open
  /\ wire' = wire \o [i \in 1..Len(Writes(call)) |->
                        [who |-> Current, part |-> Writes(call)[i], n |-> bodySize]]
  /\ UNCHANGED <<routes, socket>>

Returns == plan' = Tail(plan)

AddBodyTransform ==
  /\ Call("transform")
  /\ Returns
  /\ transform' = TRUE
  /\ UNCHANGED <<state, enqueued, bodySize, raw, chunked, streams>>

AddRawBodyTransform ==
  /\ Call("raw")
  /\ Returns
  /\ raw' = TRUE
  /\ UNCHANGED <<state, enqueued, bodySize, transform, chunked, streams>>

(* header(), and the default headers: enqueued before the status line. *)
Header ==
  /\ Call("header") \/ Call("defaults")
  /\ Returns
  /\ enqueued' = IF state = "line" THEN enqueued + 1 ELSE enqueued
  /\ UNCHANGED <<state, bodySize, transform, raw, chunked, streams>>

SetBodySize ==
  /\ Call("size")
  /\ Returns
  /\ bodySize' = routes[Current].size
  /\ UNCHANGED <<state, enqueued, transform, raw, chunked, streams>>

(* Mutant: the enqueued headers stay enqueued. *)
StatusForgets ==
  /\ Call("status")
  /\ Returns
  /\ state' = "headers"
  /\ UNCHANGED <<enqueued, bodySize, transform, raw, chunked, streams>>

(* The status line, then the enqueued headers one by one. *)
Status ==
  /\ Call("status")
  /\ state' = "headers"
  /\ plan' = [i \in 1..enqueued |-> "header"] \o Tail(plan)
  /\ enqueued' = 0
  /\ UNCHANGED <<bodySize, transform, raw, chunked, streams>>

(* sendBufferedBody and sendStreamedBody, through _startBody. *)
SendBody ==
  /\ \/ Call("buffered") /\ bodySize' = routes[Current].size
     \/ Call("streamed") /\ UNCHANGED bodySize
  /\ plan' = <<"framing", "defaults", "endHeaders", "pipe", "closed">> \o Tail(plan)
  /\ UNCHANGED <<state, enqueued, transform, raw, chunked, streams>>

SendEmptyBody ==
  /\ Call("empty")
  /\ plan' = <<"defaults", "endHeaders", "endBody">> \o Tail(plan)
  /\ UNCHANGED <<response, streams>>

(* Transfer-Encoding is added, or Content-Length written. *)
Framing ==
  /\ Call("framing")
  /\ Returns
  /\ chunked' = ShouldUseChunking
  /\ UNCHANGED <<state, enqueued, bodySize, transform, raw, streams>>

EndHeaders ==
  /\ Call("endHeaders")
  /\ Returns
  /\ state' = "body"
  /\ UNCHANGED <<enqueued, bodySize, transform, raw, chunked, streams>>

EndBody ==
  /\ Call("endBody")
  /\ Returns
  /\ state' = "finished"
  /\ UNCHANGED <<enqueued, bodySize, transform, raw, chunked, streams>>

(* The streams are connected and the source starts to flow. *)
Pipe ==
  /\ Call("pipe")
  /\ Returns
  /\ source' = routes[Current].chunks
  /\ UNCHANGED <<response, encoder, framer, eof, tail>>

(* Mutant: the call resolves when the framer finished, not when it closed. *)
FramerFinished ==
  /\ Call("closed")
  /\ eof \in {"framer", "closed"}
  /\ Returns
  /\ UNCHANGED <<response, streams>>

(* The framer closed: the promise of the send resolves. *)
FramerClosed ==
  /\ Call("closed")
  /\ eof = "closed"
  /\ Returns
  /\ UNCHANGED <<response, streams>>

(* A call in a state it refuses, or whose write failed: the route rejects   *)
(* and _handleError destroys the socket.                                    *)
Fail ==
  /\ ~Idle
  /\ \/ state \notin Allowed(Head(plan))
     \/ ~Open /\ Writes(Head(plan)) # <<>>
  /\ plan' = <<>>
  /\ socket' = "destroyed"
  /\ UNCHANGED <<routes, response, streams, wire>>

--------------------------------------------------------------------------------
(* The streams.  They flow once the current call is the wait for "closed". *)

Flowing == ~Idle /\ Head(plan) = "closed"

Streaming == UNCHANGED <<routes, plan, enqueued, bodySize, transform, raw, chunked, socket>>

(* The framer's transform: a chunk with its length line, or as it is.  An   *)
(* empty chunk is chunked like any other, and vanishes unchunked.           *)
Framed(size) ==
  IF chunked THEN <<[who |-> Current, part |-> "chunk", n |-> size]>>
  ELSE IF size = 0 THEN <<>>
  ELSE <<[who |-> Current, part |-> "data", n |-> size]>>

ZeroChunk == [who |-> Current, part |-> "last", n |-> 0]

(* The framer's final: the zero chunk, and endBody. *)
Final ==
  /\ framer' = IF chunked THEN Append(framer, ZeroChunk) ELSE framer
  /\ state' = "finished"
  /\ eof' = "framer"

(* The source's next chunk; Readable.from(buffer) reads an empty buffer as  *)
(* an empty chunk, of which a body transform makes nothing.                 *)
Read ==
  /\ Flowing
  /\ source # <<>>
  /\ source' = Tail(source)
  /\ IF transform
     THEN /\ encoder' = IF Head(source) = 0 THEN encoder ELSE Append(encoder, Head(source))
          /\ UNCHANGED framer
     ELSE /\ framer' = framer \o Framed(Head(source))
          /\ UNCHANGED encoder
  /\ UNCHANGED <<state, eof, tail, wire>>
  /\ Streaming

(* The source ended, and ends what it is piped to. *)
SourceEnds ==
  /\ Flowing
  /\ source = <<>> /\ eof = "none"
  /\ IF transform
     THEN /\ encoder' = Append(encoder, 1)
          /\ eof' = "encoder"
          /\ UNCHANGED <<framer, state>>
     ELSE Final /\ UNCHANGED encoder
  /\ UNCHANGED <<source, tail, wire>>
  /\ Streaming

Encode ==
  /\ Flowing
  /\ encoder # <<>>
  /\ encoder' = Tail(encoder)
  /\ framer' = framer \o Framed(Head(encoder))
  /\ UNCHANGED <<source, state, eof, tail, wire>>
  /\ Streaming

(* Mutant: the body transform is piped without ending the framer. *)
EncoderEndsAlone ==
  /\ Flowing
  /\ eof = "encoder" /\ encoder = <<>>
  /\ UNCHANGED vars

EncoderEnds ==
  /\ Flowing
  /\ eof = "encoder" /\ encoder = <<>>
  /\ Final
  /\ UNCHANGED <<source, encoder, tail, wire>>
  /\ Streaming

(* What the socket sends of a piece: nothing once it is destroyed. *)
Sent(piece) == IF Open THEN Append(wire, piece) ELSE wire

(* Mutant: the chunks are written whether or not the raw transform is full. *)
FlushRegardless ==
  /\ Flowing
  /\ framer # <<>>
  /\ framer' = Tail(framer)
  /\ IF raw
     THEN /\ tail' = [tail EXCEPT ![Current] = Append(@, Head(framer))]
          /\ UNCHANGED wire
     ELSE /\ wire' = Sent(Head(framer))
          /\ UNCHANGED tail
  /\ UNCHANGED <<source, state, encoder, eof>>
  /\ Streaming

(* The framer's pipe, to the socket or to the raw transform.  When the      *)
(* socket closes the pipe to it is taken down and this step may never come; *)
(* a pipe made after that writes to nobody.                                 *)
Flush ==
  /\ Flowing
  /\ framer # <<>>
  /\ framer' = Tail(framer)
  /\ IF raw
     THEN /\ Len(tail[Current]) < HighWaterMark
          /\ tail' = [tail EXCEPT ![Current] = Append(@, Head(framer))]
          /\ UNCHANGED wire
     ELSE /\ wire' = Sent(Head(framer))
          /\ UNCHANGED tail
  /\ UNCHANGED <<source, state, encoder, eof>>
  /\ Streaming

FramerCloses ==
  /\ Flowing
  /\ eof = "framer" /\ framer = <<>>
  /\ eof' = "closed"
  /\ UNCHANGED <<source, state, encoder, framer, tail, wire>>
  /\ Streaming

(* Mutant: the pipe to the socket goes with the send. *)
FlushRawWhileSending(r) ==
  /\ Flowing /\ r = Current
  /\ tail[r] # <<>>
  /\ tail' = [tail EXCEPT ![r] = Tail(@)]
  /\ wire' = Sent(Head(tail[r]))
  /\ UNCHANGED <<routes, plan, response, source, encoder, framer, eof, socket>>

(* The raw transform's pipe to the socket, which outlives the send. *)
FlushRaw(r) ==
  /\ tail[r] # <<>>
  /\ tail' = [tail EXCEPT ![r] = Tail(@)]
  /\ wire' = Sent(Head(tail[r]))
  /\ UNCHANGED <<routes, plan, response, source, encoder, framer, eof, socket>>

PeerCloses ==
  /\ PeerMayClose /\ Open
  /\ socket' = "destroyed"
  /\ UNCHANGED <<routes, plan, response, streams, wire>>

--------------------------------------------------------------------------------
RouteStep ==
  \/ AddBodyTransform \/ AddRawBodyTransform \/ Header \/ SetBodySize \/ Status
  \/ SendBody \/ SendEmptyBody \/ Framing \/ EndHeaders \/ EndBody
  \/ Pipe \/ FramerClosed \/ Fail

StreamStep ==
  \/ Read \/ SourceEnds \/ Encode \/ EncoderEnds \/ Flush \/ FramerCloses
  \/ \E r \in Responses : FlushRaw(r)

Step == RouteStep \/ StreamStep

Next == Begin \/ Step \/ PeerCloses

Spec == Init /\ [][Next]_vars

(* While the socket is open the event loop runs what is ready and the       *)
(* client reads; of a socket that closed nothing is assumed.                *)
FairSpec == Spec /\ WF_vars(Open /\ Step)

--------------------------------------------------------------------------------
TypeOK ==
  /\ routes \in Seq(Route) /\ Current <= MaxResponses
  /\ plan \in Seq(Calls)
  /\ state \in {"line", "headers", "body", "finished"}
  /\ enqueued \in Nat /\ bodySize \in Nat
  /\ transform \in BOOLEAN /\ raw \in BOOLEAN /\ chunked \in BOOLEAN
  /\ source \in Seq(Nat) /\ encoder \in Seq(Nat)
  /\ framer \in Seq(Piece)
  /\ eof \in {"none", "encoder", "framer", "closed"}
  /\ tail \in [Responses -> Seq(Piece)]
  /\ \A r \in Responses : Len(tail[r]) <= HighWaterMark
  /\ wire \in Seq(Piece)
  /\ socket \in {"open", "destroyed"}

Makes(r, call) == \E i \in 1..Len(routes[r].calls) : routes[r].calls[i] = call

(* Where a route makes a call before one that ends its headers. *)
Ends == {"buffered", "streamed", "empty", "endHeaders"}

InTime(calls, i) == \A j \in 1..i : calls[j] \notin Ends

Total(sizes) ==
  LET sum[i \in 0..Len(sizes)] == IF i = 0 THEN 0 ELSE sum[i - 1] + sizes[i]
  IN  sum[Len(sizes)]

(* A client that reads the pieces as HTTP/1.1 has it: what it expects next, *)
(* how much of a body of known length is left, whose response it reads and  *)
(* the units of its body it got.  "lost" is a client that no longer knows   *)
(* where a response ends.  heads are the responses to HEAD.                 *)
Fresh == [mode |-> "status", framing |-> "close", left |-> 0, who |-> 0, got |-> 0]

Expect(c, mode) == [c EXCEPT !.mode = mode]

Took(c, n) == [c EXCEPT !.got = @ + n]

Receive(c, piece, heads) ==
  CASE c.mode = "status" /\ piece.part = "status" /\ piece.who > c.who ->
         [Fresh EXCEPT !.mode = "headers", !.who = piece.who]
    [] c.mode = "headers" /\ piece.part \in {"header", "default"} -> c
    [] c.mode = "headers" /\ piece.part = "length" ->
         [c EXCEPT !.framing = "length", !.left = piece.n]
    [] c.mode = "headers" /\ piece.part = "chunked" -> [c EXCEPT !.framing = "chunked"]
    [] c.mode = "headers" /\ piece.part = "blank" ->
         IF piece.who \in heads \/ (c.framing = "length" /\ c.left = 0)
         THEN Expect(c, "status") ELSE Expect(c, c.framing)
    [] c.mode = "length" /\ piece.part = "data" /\ piece.n < c.left ->
         [Took(c, piece.n) EXCEPT !.left = @ - piece.n]
    [] c.mode = "length" /\ piece.part = "data" /\ piece.n = c.left ->
         Expect(Took(c, piece.n), "status")
    [] c.mode = "chunked" /\ piece.part = "chunk" /\ piece.n > 0 -> Took(c, piece.n)
    [] c.mode = "chunked" /\ piece.part \in {"chunk", "last"} /\ piece.n = 0 ->
         Expect(c, "status")
    [] OTHER -> Expect(c, "lost")

Reads(pieces, heads) ==
  LET after[i \in 0..Len(pieces)] ==
        IF i = 0 THEN Fresh ELSE Receive(after[i - 1], pieces[i], heads)
  IN  after[Len(pieces)]

Heads == {r \in 1..Current : routes[r].head}

Client == Reads(wire, Heads)

(* The responses whose end a client can tell: neither a redirect, which has *)
(* no framing at all, nor an empty chunk that is not transformed, whose     *)
(* chunk is a zero chunk of its own, nor HEAD answered with a body, nor a   *)
(* raw transform, which may hold the end of the body back, nor a size that  *)
(* is not the body's.                                                       *)
SendsBody(r) == Makes(r, "buffered") \/ Makes(r, "streamed")

Delimited(r) ==
  LET route == routes[r]
  IN  IF route.head THEN Makes(r, "empty") /\ ~SendsBody(r)
      ELSE /\ SendsBody(r) /\ ~Makes(r, "empty") /\ ~Makes(r, "raw")
           /\ (Makes(r, "buffered") \/ Makes(r, "size")) => route.size = Total(route.chunks)
           /\ (\E i \in 1..Len(route.chunks) : route.chunks[i] = 0) =>
                \E i \in 1..Len(route.calls) :
                  route.calls[i] = "transform" /\ InTime(route.calls, i)

AllDelimited == \A r \in 1..Current : Delimited(r)

(* As long as every response is delimited the client is never lost: the     *)
(* status, headers, framing and body of each response agree with each other *)
(* and with those before it, whatever the routes call, also in the wrong    *)
(* order (response.ts:212-274, 342-362, 443-693).                           *)
ClientFollows == AllDelimited => Client.mode # "lost"

(* When a route has resolved the client has the whole response, with every  *)
(* unit of its body, and nothing of it is still to come                     *)
(* (response.ts:698, 746).                                                  *)
ResponseComplete ==
  (AllDelimited /\ Idle /\ Open) =>
    /\ Client.mode = "status"
    /\ Current > 0 =>
         Client.got = IF routes[Current].head THEN 0
                      ELSE Total(routes[Current].chunks)
                             + (IF Makes(Current, "transform") THEN 1 ELSE 0)

(* Every header a route sets before it ends its headers, be it before or    *)
(* after the status line, is sent exactly once and ahead of the body; so    *)
(* are default headers that were enqueued (response.ts:342-362, 914-933).   *)
Sets(calls, i) ==
  /\ InTime(calls, i)
  /\ \/ calls[i] = "header"
     \/ calls[i] = "defaults" /\ \A j \in 1..i : calls[j] # "status"

Written(part) == {i \in 1..Len(wire) : wire[i].who = Current /\ wire[i].part = part}

HeadersArrive ==
  (Current > 0 /\ state \in {"body", "finished"}) =>
    /\ Cardinality(Written("header")) =
         Cardinality({i \in 1..Len(routes[Current].calls) : Sets(routes[Current].calls, i)})
    /\ \A i \in Written("header"), j \in Written("blank") : i < j

(* Every send resolves while the connection lives (response.ts:717-724,     *)
(* 753-760).                                                                *)
SendsResolve == ~Idle ~> (Idle \/ ~Open)

(* What a raw transform holds back reaches the socket in the end. *)
RawDrains == \A r \in Responses : tail[r] # <<>> ~> (tail[r] = <<>> \/ ~Open)

(* response.ts:698, of sendBufferedBody: "resolves once the entire buffer   *)
(* has been written to the client".                                         *)
WrittenWhenResolved == (Idle /\ Open) => \A r \in Responses : tail[r] = <<>>

(* response.ts:318, "Excludes the body from the current request (usually    *)
(* for HEAD)": a response to HEAD has no body.                              *)
HeadHasNoBody ==
  \A i \in 1..Len(wire) :
    routes[wire[i].who].head => wire[i].part \notin {"data", "chunk", "last"}

(* response.ts:482-484, "If the response length we will send is known, and  *)
(* there will be no transformation, then we'll decide to use a fixed-length *)
(* body".                                                                   *)
KnownLengthIsFixed ==
  \A i \in 1..Len(wire) :
    wire[i].part = "chunked" =>
      \/ Makes(wire[i].who, "transform")
      \/ ~Makes(wire[i].who, "buffered") /\ ~Makes(wire[i].who, "size")
================================================================================
