--------------------------- MODULE HTTPResponseProofs ---------------------------
(***************************************************************************)
(* What holds of the responses of a connection for every set of routes,    *)
(* every number of responses and every capacity of the raw transforms.     *)
(***************************************************************************)
EXTENDS HTTPResponse, WellFoundedInduction, NaturalsInduction,
  FiniteSetTheorems, FunctionTheorems, TLAPS

(* What a call writes is a sequence of pieces of the current response. *)
LEMMA WritesType ==
  ASSUME NEW call
  PROVE  Writes(call) \in Seq(Parts)
<1>1. \A p \in Parts : <<p>> \in Seq(Parts)
  OBVIOUS
<1>2. \A p, q \in Parts : <<p, q>> \in Seq(Parts)
  OBVIOUS
<1>3. {"status", "header", "length", "default", "chunked", "blank"} \subseteq Parts
  BY DEF Parts
<1>4. <<>> \in Seq(Parts)
  OBVIOUS
<1> QED
  BY <1>1, <1>2, <1>3, <1>4, Zenon DEF Writes

(* The end of the body the framer sees: state and eof stay in their sets. *)
LEMMA FinalType ==
  ASSUME framer \in Seq(Piece), Current \in Responses, Final
  PROVE  /\ framer' \in Seq(Piece)
         /\ state' = "finished"
         /\ eof' = "framer"
<1>1. ZeroChunk \in Piece
  BY DEF ZeroChunk, Piece, Parts
<1> QED
  BY <1>1 DEF Final

(* The framer's transform yields pieces. *)
LEMMA FramedType ==
  ASSUME framer \in Seq(Piece), Current \in Responses, NEW size \in Nat
  PROVE  framer \o Framed(size) \in Seq(Piece)
<1>1. /\ [who |-> Current, part |-> "chunk", n |-> size] \in Piece
      /\ [who |-> Current, part |-> "data", n |-> size] \in Piece
  BY DEF Piece, Parts
<1>2. \A p \in Piece : <<p>> \in Seq(Piece)
  OBVIOUS
<1>3. <<>> \in Seq(Piece)
  OBVIOUS
<1>4. Framed(size) \in Seq(Piece)
  BY <1>1, <1>2, <1>3, Zenon DEF Framed
<1> QED
  BY <1>4

(* A route that still has calls to make is one of the connection's. *)
Busy == ~Idle => Current \in Responses

(* TypeOK is inductive together with Busy. *)
IType == TypeOK /\ Busy

(* A call: what it writes and what it leaves alone has its type. *)
LEMMA CallType ==
  ASSUME IType, NEW call, Call(call)
  PROVE  /\ Current \in Responses
         /\ wire' \in Seq(Piece)
         /\ routes' = routes /\ socket' = socket
         /\ plan # <<>> /\ plan \in Seq(Calls) /\ Tail(plan) \in Seq(Calls)
<1>1. Current \in Responses
  BY DEF IType, Busy, Call
<1>2. [i \in 1..Len(Writes(call)) |->
         [who |-> Current, part |-> Writes(call)[i], n |-> bodySize]] \in Seq(Piece)
  BY <1>1, WritesType DEF Piece, IType, TypeOK
<1>3. wire' \in Seq(Piece)
  BY <1>2 DEF Call, IType, TypeOK
<1> QED
  BY <1>1, <1>3 DEF Call, Idle, IType, TypeOK

(* The current route is one of Route. *)
LEMMA CurrentRoute ==
  ASSUME IType, Current \in Responses
  PROVE  /\ routes[Current].size \in Nat
         /\ routes[Current].chunks \in Seq(Nat)
<1>1. routes \in Seq(Route) /\ Current \in 1..Len(routes)
  BY DEF IType, TypeOK, Current, Responses
<1>2. routes[Current] \in Route
  BY <1>1
<1> QED
  BY <1>2 DEF Route

(* IType holds at first. *)
LEMMA InitType == Init => IType
<1> SUFFICES ASSUME Init PROVE IType
  OBVIOUS
<1>1. routes \in Seq(Route) /\ Current = 0 /\ plan \in Seq(Calls)
  BY DEF Init, Current
<1>2. source \in Seq(Nat) /\ encoder \in Seq(Nat) /\ framer \in Seq(Piece) /\ wire \in Seq(Piece)
  BY DEF Init
<1>3. tail \in [Responses -> Seq(Piece)]
  BY DEF Init
<1>4. \A r \in Responses : Len(tail[r]) <= HighWaterMark
  BY HighWaterMarkAssumption DEF Init
<1>5. Current <= MaxResponses
  BY <1>1, MaxResponsesAssumption
<1>6. /\ state \in {"line", "headers", "body", "finished"}
      /\ eof \in {"none", "encoder", "framer", "closed"}
      /\ enqueued \in Nat /\ bodySize \in Nat
      /\ transform \in BOOLEAN /\ raw \in BOOLEAN /\ chunked \in BOOLEAN
      /\ socket \in {"open", "destroyed"}
  BY DEF Init
<1>7. Idle
  BY DEF Init, Idle
<1> QED
  BY <1>1, <1>2, <1>3, <1>4, <1>5, <1>6, <1>7, Zenon DEF IType, TypeOK, Busy

(* The calls of a route keep IType. *)
LEMMA RouteStepType == IType /\ RouteStep => IType'
<1> SUFFICES ASSUME IType, RouteStep PROVE IType'
  OBVIOUS
<1> USE DEF response, streams
<1>1. CASE AddBodyTransform
  BY <1>1, CallType DEF AddBodyTransform, Returns, IType, TypeOK, Busy, Idle, Current
<1>2. CASE AddRawBodyTransform
  BY <1>2, CallType DEF AddRawBodyTransform, Returns, IType, TypeOK, Busy, Idle, Current
<1>3. CASE Header
  <2>1. PICK call : Call(call)
    BY <1>3 DEF Header
  <2> QED
    BY <1>3, <2>1, CallType DEF Header, Returns, IType, TypeOK, Busy, Idle, Current
<1>4. CASE SetBodySize
  <2>2. routes[Current].size \in Nat
    BY <1>4, CallType, CurrentRoute DEF SetBodySize
  <2> QED
    BY <1>4, <2>2, CallType DEF SetBodySize, Returns, IType, TypeOK, Busy, Idle, Current
<1>5. CASE Status
  <2>1. [i \in 1..enqueued |-> "header"] \in Seq(Calls)
    BY DEF IType, TypeOK, Calls
  <2>2. plan' \in Seq(Calls)
    BY <1>5, <2>1, CallType DEF Status
  <2> QED
    BY <1>5, <2>2, CallType DEF Status, IType, TypeOK, Busy, Idle, Current
<1>6. CASE SendBody
  <2>1. PICK call : Call(call)
    BY <1>6 DEF SendBody
  <2>3. routes[Current].size \in Nat
    BY <2>1, CallType, CurrentRoute
  <2>4. <<"framing", "defaults", "endHeaders", "pipe", "closed">> \in Seq(Calls)
    BY DEF Calls
  <2>5. plan' \in Seq(Calls)
    BY <1>6, <2>1, <2>4, CallType DEF SendBody
  <2>6. bodySize' \in Nat
    BY <1>6, <2>3 DEF SendBody, IType, TypeOK
  <2>7. UNCHANGED <<state, enqueued, transform, raw, chunked, streams, routes, socket>>
    BY <1>6, <2>1, CallType DEF SendBody
  <2>8. Current \in Responses /\ wire' \in Seq(Piece)
    BY <2>1, CallType
  <2> QED
    BY <2>5, <2>6, <2>7, <2>8 DEF streams, IType, TypeOK, Busy, Current
<1>7. CASE SendEmptyBody
  <2>1. <<"defaults", "endHeaders", "endBody">> \in Seq(Calls)
    BY DEF Calls
  <2>2. plan' \in Seq(Calls)
    BY <1>7, <2>1, CallType DEF SendEmptyBody
  <2> QED
    BY <1>7, <2>2, CallType DEF SendEmptyBody, IType, TypeOK, Busy, Idle, Current
<1>8. CASE Framing
  <2>1. ShouldUseChunking \in BOOLEAN
    BY DEF ShouldUseChunking, IType, TypeOK
  <2> QED
    BY <1>8, <2>1, CallType DEF Framing, Returns, IType, TypeOK, Busy, Idle, Current
<1>9. CASE EndHeaders
  BY <1>9, CallType DEF EndHeaders, Returns, IType, TypeOK, Busy, Idle, Current
<1>10. CASE EndBody
  BY <1>10, CallType DEF EndBody, Returns, IType, TypeOK, Busy, Idle, Current
<1>11. CASE Pipe
  <2>2. routes[Current].chunks \in Seq(Nat)
    BY <1>11, CallType, CurrentRoute DEF Pipe
  <2> QED
    BY <1>11, <2>2, CallType DEF Pipe, Returns, IType, TypeOK, Busy, Idle, Current
<1>12. CASE FramerClosed
  BY <1>12, CallType DEF FramerClosed, Returns, IType, TypeOK, Busy, Idle, Current
<1>13. CASE Fail
  BY <1>13 DEF Fail, IType, TypeOK, Busy, Idle, Current
<1> QED
  BY <1>1, <1>2, <1>3, <1>4, <1>5, <1>6, <1>7, <1>8, <1>9, <1>10, <1>11, <1>12, <1>13
     DEF RouteStep

(* The streams keep IType. *)
LEMMA StreamStepType == IType /\ StreamStep => IType'
<1> SUFFICES ASSUME IType, StreamStep PROVE IType'
  OBVIOUS
<1> USE DEF response
<1>0. Flowing => Current \in Responses
  BY DEF Flowing, IType, Busy
<1>s. ASSUME NEW piece \in Piece PROVE Sent(piece) \in Seq(Piece)
  BY DEF Sent, IType, TypeOK
<1>1. CASE Read
  <2>1. Head(source) \in Nat /\ Tail(source) \in Seq(Nat)
    BY <1>1 DEF Read, IType, TypeOK
  <2>2. framer' \in Seq(Piece)
    BY <1>0, <1>1, <2>1, FramedType DEF Read, IType, TypeOK
  <2>3. encoder' \in Seq(Nat)
    <3>1. encoder \in Seq(Nat)
      BY DEF IType, TypeOK
    <3>2. Append(encoder, Head(source)) \in Seq(Nat)
      BY <2>1, <3>1
    <3>3. encoder' \in {encoder, Append(encoder, Head(source))}
      BY <1>1, Zenon DEF Read
    <3> QED
      BY <3>1, <3>2, <3>3
  <2> QED
    BY <1>1, <2>1, <2>2, <2>3 DEF Read, Streaming, IType, TypeOK, Busy, Idle, Current
<1>2. CASE SourceEnds
  <2>1. /\ framer' \in Seq(Piece)
        /\ state' \in {"line", "headers", "body", "finished"}
        /\ eof' \in {"none", "encoder", "framer", "closed"}
    BY <1>0, <1>2, FinalType DEF SourceEnds, IType, TypeOK
  <2>2. encoder' \in Seq(Nat)
    <3>1. encoder \in Seq(Nat) /\ Append(encoder, 1) \in Seq(Nat)
      BY DEF IType, TypeOK
    <3>2. encoder' \in {encoder, Append(encoder, 1)}
      BY <1>2, Zenon DEF SourceEnds
    <3> QED
      BY <3>1, <3>2
  <2> QED
    BY <1>2, <2>1, <2>2 DEF SourceEnds, Streaming, IType, TypeOK, Busy, Idle, Current
<1>3. CASE Encode
  <2>1. Head(encoder) \in Nat /\ Tail(encoder) \in Seq(Nat)
    BY <1>3 DEF Encode, IType, TypeOK
  <2>2. framer' \in Seq(Piece)
    BY <1>0, <1>3, <2>1, FramedType DEF Encode, IType, TypeOK
  <2> QED
    BY <1>3, <2>1, <2>2 DEF Encode, Streaming, IType, TypeOK, Busy, Idle, Current
<1>4. CASE EncoderEnds
  <2>1. framer' \in Seq(Piece) /\ state' = "finished" /\ eof' = "framer"
    BY <1>0, <1>4, FinalType DEF EncoderEnds, IType, TypeOK
  <2> QED
    BY <1>4, <2>1 DEF EncoderEnds, Streaming, IType, TypeOK, Busy, Idle, Current
<1>5. CASE Flush
  <2>1. Head(framer) \in Piece /\ Tail(framer) \in Seq(Piece)
    BY <1>5 DEF Flush, IType, TypeOK
  <2>2. wire' \in Seq(Piece)
    BY <1>5, <1>s, <2>1 DEF Flush, IType, TypeOK
  <2>3. /\ tail' \in [Responses -> Seq(Piece)]
        /\ \A r \in Responses : Len(tail'[r]) <= HighWaterMark
    <3>1. CASE raw
      <4>1. Append(tail[Current], Head(framer)) \in Seq(Piece)
        BY <1>0, <1>5, <2>1 DEF Flush, IType, TypeOK
      <4>2. Len(Append(tail[Current], Head(framer))) <= HighWaterMark
        BY <1>0, <1>5, <2>1, <3>1, HighWaterMarkAssumption DEF Flush, IType, TypeOK
      <4> QED
        BY <1>0, <1>5, <3>1, <4>1, <4>2 DEF Flush, IType, TypeOK
    <3>2. CASE ~raw
      BY <1>5, <3>2 DEF Flush, IType, TypeOK
    <3> QED
      BY <3>1, <3>2
  <2> QED
    BY <1>5, <2>1, <2>2, <2>3 DEF Flush, Streaming, IType, TypeOK, Busy, Idle, Current
<1>6. CASE FramerCloses
  BY <1>6 DEF FramerCloses, Streaming, IType, TypeOK, Busy, Idle, Current
<1>7. ASSUME NEW r \in Responses, FlushRaw(r) PROVE IType'
  <2>1. /\ Head(tail[r]) \in Piece
        /\ Tail(tail[r]) \in Seq(Piece)
        /\ Len(Tail(tail[r])) <= HighWaterMark
    BY <1>7, HighWaterMarkAssumption DEF FlushRaw, IType, TypeOK
  <2>2. wire' \in Seq(Piece)
    BY <1>7, <1>s, <2>1 DEF FlushRaw
  <2>3. /\ tail' \in [Responses -> Seq(Piece)]
        /\ \A q \in Responses : Len(tail'[q]) <= HighWaterMark
    BY <1>7, <2>1 DEF FlushRaw, IType, TypeOK
  <2> QED
    BY <1>7, <2>2, <2>3 DEF FlushRaw, IType, TypeOK, Busy, Idle, Current
<1> QED
  BY <1>1, <1>2, <1>3, <1>4, <1>5, <1>6, <1>7 DEF StreamStep

(* IType is inductive. *)
LEMMA NextType == IType /\ [Next]_vars => IType'
<1> SUFFICES ASSUME IType, [Next]_vars PROVE IType'
  OBVIOUS
<1> USE DEF response, streams
<1>1. CASE Begin
  <2>1. PICK route \in Routes : routes' = Append(routes, route) /\ plan' = route.calls
    BY <1>1 DEF Begin
  <2>2. route \in Route /\ route.calls \in Seq(Calls)
    BY RoutesAssumption DEF Route
  <2>3. /\ routes' \in Seq(Route)
        /\ Len(routes') = Len(routes) + 1
        /\ Len(routes) \in Nat
    BY <2>1, <2>2 DEF IType, TypeOK
  <2>4. Len(routes') \in Responses
    BY <1>1, <2>3, MaxResponsesAssumption DEF Begin, Current, Responses
  <2>5. Current' \in Responses /\ Current' <= MaxResponses
    BY <2>4, MaxResponsesAssumption DEF Current, Responses
  <2>6. source' \in Seq(Nat) /\ encoder' \in Seq(Nat) /\ framer' \in Seq(Piece)
    BY <1>1 DEF Begin
  <2> QED
    BY <1>1, <2>1, <2>2, <2>3, <2>5, <2>6 DEF Begin, IType, TypeOK, Busy
<1>2. CASE Step
  BY <1>2, RouteStepType, StreamStepType DEF Step
<1>3. CASE PeerCloses
  BY <1>3 DEF PeerCloses, IType, TypeOK, Busy, Idle, Current
<1>4. CASE UNCHANGED vars
  BY <1>4 DEF vars, IType, TypeOK, Busy, Idle, Current
<1> QED
  BY <1>1, <1>2, <1>3, <1>4 DEF Next

(* Every variable keeps its type, and a raw transform never holds more than *)
(* its high-water mark, whatever the routes call and however the streams    *)
(* take turns (response.ts:560-577).                                        *)
THEOREM TypeCorrect == Spec => []TypeOK
<1>1. IType => TypeOK
  BY DEF IType
<1> QED
  BY <1>1, InitType, NextType, PTL DEF Spec

(* Only a route that has calls to make takes a step. *)
LEMMA RouteStepBusy == RouteStep => ~Idle
<1>1. Fail => ~Idle
  BY DEF Fail
<1>2. \A call : Call(call) => ~Idle
  BY DEF Call
<1>3. AddBodyTransform \/ AddRawBodyTransform \/ Header \/ SetBodySize \/ Status => ~Idle
  BY <1>2 DEF AddBodyTransform, AddRawBodyTransform, Header, SetBodySize, Status
<1>4. SendBody \/ SendEmptyBody \/ Framing \/ EndHeaders => ~Idle
  BY <1>2 DEF SendBody, SendEmptyBody, Framing, EndHeaders
<1>5. EndBody \/ Pipe \/ FramerClosed => ~Idle
  BY <1>2 DEF EndBody, Pipe, FramerClosed
<1> QED
  BY <1>1, <1>3, <1>4, <1>5 DEF RouteStep

--------------------------------------------------------------------------------
(* A set of numbers has a least element: induction, for sets.               *)
LEMMA LeastNumber ==
  ASSUME NEW S, S \subseteq Nat, S # {}
  PROVE  \E m \in S : \A k \in S : m <= k
<1>1. IsWellFoundedOn(OpToRel(<, Nat), Nat)
  BY NatLessThanWellFounded, Zenon
<1>2. PICK m \in S : \A k \in S : <<k, m>> \notin OpToRel(<, Nat)
  BY <1>1, WFMin, Zenon
<1>3. \A k \in S : ~(k < m)
  BY <1>2 DEF OpToRel
<1> QED
  BY <1>3

(* f takes init through the operations of op, one after the other.          *)
Computes(f, n, S, init, op) ==
  /\ f \in [0..n -> S]
  /\ f[0] = init
  /\ \A i \in 1..n : f[i] = op[i][f[i - 1]]

(* A chain of operations has a result. *)
LEMMA ComputationExists ==
  ASSUME NEW n, NEW S, NEW init, NEW op
  PROVE  n \in Nat /\ init \in S /\ op \in [1..n -> [S -> S]]
           => \E f : Computes(f, n, S, init, op)
<1> SUFFICES ASSUME n \in Nat, init \in S, op \in [1..n -> [S -> S]]
             PROVE  \E f : Computes(f, n, S, init, op)
  OBVIOUS
<1> DEFINE Some(k) ==
      \E f \in [0..k -> S] : f[0] = init /\ \A i \in 1..k : f[i] = op[i][f[i - 1]]
<1> DEFINE Bad == {k \in 0..n : ~Some(k)}
<1>1. Bad = {}
  <2> SUFFICES ASSUME Bad # {} PROVE FALSE
    OBVIOUS
  <2>1. PICK m \in Bad : \A k \in Bad : m <= k
    <3>1. Bad \subseteq Nat
      OBVIOUS
    <3> HIDE DEF Bad
    <3> QED
      BY <3>1, LeastNumber
  <2>2. m \in 0..n /\ ~Some(m)
    OBVIOUS
  <2>3. m # 0
    <3>1. PICK f : f = [i \in 0..0 |-> init]
      OBVIOUS
    <3>2. f \in [0..0 -> S] /\ f[0] = init /\ \A i \in 1..0 : f[i] = op[i][f[i - 1]]
      BY <3>1
    <3>3. Some(0)
      BY <3>2
    <3> QED
      BY <2>2, <3>3
  <2>4. Some(m - 1)
    <3>1. m - 1 \in 0..n /\ ~(m <= m - 1)
      BY <2>2, <2>3
    <3> QED
      BY <2>1, <3>1
  <2>5. PICK f \in [0..(m - 1) -> S] :
          f[0] = init /\ \A i \in 1..(m - 1) : f[i] = op[i][f[i - 1]]
    BY <2>4
  <2> DEFINE g == [i \in 0..m |-> IF i = m THEN op[m][f[m - 1]] ELSE f[i]]
  <2>6. op[m][f[m - 1]] \in S
    <3>1. f[m - 1] \in S /\ m \in 1..n
      BY <2>2, <2>3
    <3> QED
      BY <3>1
  <2>7. g \in [0..m -> S]
    BY <2>2, <2>3, <2>6
  <2>8. g[0] = init
    BY <2>2, <2>3, <2>5
  <2>9. ASSUME NEW i \in 1..m PROVE g[i] = op[i][g[i - 1]]
    <3>1. i - 1 \in 0..m /\ i - 1 # m /\ i \in 0..m
      BY <2>2
    <3>2. g[i - 1] = f[i - 1]
      BY <3>1
    <3>3. CASE i = m
      BY <3>1, <3>2, <3>3
    <3>4. CASE i # m
      BY <2>2, <2>5, <3>1, <3>2, <3>4
    <3> QED
      BY <3>3, <3>4
  <2> QED
    BY <2>2, <2>7, <2>8, <2>9
<1>2. Some(n)
  <2>1. n \in 0..n
    OBVIOUS
  <2> HIDE DEF Some
  <2> QED
    BY <1>1, <2>1
<1> QED
  BY <1>2 DEF Computes

(* Two functions that agree at 0 and at each step on what comes next agree. *)
LEMMA ComputationUnique ==
  ASSUME NEW n \in Nat, NEW f, NEW g, f[0] = g[0],
         \A i \in 1..n : f[i - 1] = g[i - 1] => f[i] = g[i]
  PROVE  f[n] = g[n]
<1> DEFINE Bad == {k \in 0..n : f[k] # g[k]}
<1>1. Bad = {}
  <2> SUFFICES ASSUME Bad # {} PROVE FALSE
    OBVIOUS
  <2>1. PICK m \in Bad : \A k \in Bad : m <= k
    <3>1. Bad \subseteq Nat
      OBVIOUS
    <3> HIDE DEF Bad
    <3> QED
      BY <3>1, LeastNumber
  <2>2. m \in 0..n /\ f[m] # g[m]
    OBVIOUS
  <2>3. m # 0
    BY <2>2
  <2>4. m \in 1..n /\ m - 1 \in 0..n /\ ~(m <= m - 1)
    BY <2>2, <2>3
  <2>5. f[m - 1] = g[m - 1]
    BY <2>1, <2>4
  <2> QED
    BY <2>2, <2>4, <2>5
<1> QED
  BY <1>1

(* f adds up s.  *)
Sums(f, s) ==
  /\ f \in [0..Len(s) -> Nat]
  /\ f[0] = 0
  /\ \A i \in 1..Len(s) : f[i] = f[i - 1] + s[i]

(* The recursive functions of Total and Reads are such chains. *)
LEMMA TotalIs ==
  ASSUME NEW s \in Seq(Nat)
  PROVE  \E f : Sums(f, s) /\ Total(s) = f[Len(s)]
<1> DEFINE n == Len(s)
<1> DEFINE op == [i \in 1..n |-> [x \in Nat |-> x + s[i]]]
<1>1. n \in Nat /\ \A i \in 1..n : s[i] \in Nat
  OBVIOUS
<1>2. op \in [1..n -> [Nat -> Nat]]
  BY <1>1
<1>3. PICK f \in [0..n -> Nat] : f[0] = 0 /\ \A i \in 1..n : f[i] = op[i][f[i - 1]]
  <2>1. n \in Nat /\ 0 \in Nat /\ op \in [1..n -> [Nat -> Nat]]
    BY <1>1, <1>2
  <2> HIDE DEF n, op
  <2>2. \E f : Computes(f, n, Nat, 0, op)
    BY <2>1, ComputationExists
  <2> QED
    BY <2>2 DEF Computes
<1>4. \A i \in 1..n : f[i] = f[i - 1] + s[i]
  <2> SUFFICES ASSUME NEW i \in 1..n PROVE f[i] = f[i - 1] + s[i]
    OBVIOUS
  <2>1. f[i - 1] \in Nat
    <3>1. i - 1 \in 0..n
      BY <1>1
    <3> HIDE DEF n
    <3> QED
      BY <1>3, <3>1
  <2>2. op[i][f[i - 1]] = f[i - 1] + s[i]
    BY <2>1
  <2> QED
    BY <1>3, <2>2
<1> DEFINE sum == CHOOSE g : g = [i \in 0..n |-> IF i = 0 THEN 0 ELSE g[i - 1] + s[i]]
<1>5. f = [i \in 0..n |-> IF i = 0 THEN 0 ELSE f[i - 1] + s[i]]
  BY <1>1, <1>3, <1>4
<1>6. sum = [i \in 0..n |-> IF i = 0 THEN 0 ELSE sum[i - 1] + s[i]]
  <2> HIDE DEF n
  <2> QED
    BY <1>5, Zenon
<1>7. Total(s) = sum[n]
  BY DEF Total
<1>8. sum[n] = f[n]
  <2>1. sum[0] = 0 /\ \A i \in 1..n : sum[i] = sum[i - 1] + s[i]
    <3> HIDE DEF sum, n
    <3> QED
      BY <1>1, <1>6
  <2>2. f[0] = sum[0]
    BY <1>3, <2>1
  <2>3. \A i \in 1..n : f[i - 1] = sum[i - 1] => f[i] = sum[i]
    BY <1>4, <2>1
  <2> HIDE DEF sum, n
  <2> QED
    BY <1>1, <2>2, <2>3, ComputationUnique
<1> QED
  BY <1>3, <1>4, <1>7, <1>8 DEF Sums

(* No chunks, no units. *)
LEMMA TotalEmpty == Total(<<>>) = 0
<1>1. <<>> \in Seq(Nat) /\ Len(<<>>) = 0
  OBVIOUS
<1>2. PICK f : Sums(f, <<>>) /\ Total(<<>>) = f[Len(<<>>)]
  BY <1>1, TotalIs
<1> QED
  BY <1>1, <1>2 DEF Sums

(* The units of a body are a number. *)
LEMMA TotalNat ==
  ASSUME NEW s \in Seq(Nat)
  PROVE  Total(s) \in Nat
<1>1. PICK f : Sums(f, s) /\ Total(s) = f[Len(s)]
  BY TotalIs
<1> QED
  BY <1>1 DEF Sums

(* One more chunk adds its units, at the end of the source. *)
LEMMA TotalAppend ==
  ASSUME NEW s \in Seq(Nat), NEW x \in Nat
  PROVE  Total(Append(s, x)) = Total(s) + x
<1>1. PICK f : Sums(f, s) /\ Total(s) = f[Len(s)]
  BY TotalIs
<1>2. PICK t \in Seq(Nat) : t = Append(s, x)
  <2>1. Append(s, x) \in Seq(Nat)
    OBVIOUS
  <2> QED
    BY <2>1
<1>3. PICK g : Sums(g, t) /\ Total(t) = g[Len(t)]
  BY TotalIs
<1>4. /\ Len(s) \in Nat /\ Len(t) = Len(s) + 1 /\ t[Len(s) + 1] = x
      /\ \A i \in 1..Len(s) : t[i] = s[i]
  BY <1>2
<1>5. f[Len(s)] = g[Len(s)]
  <2>1. f[0] = g[0]
    BY <1>1, <1>3 DEF Sums
  <2>2. \A i \in 1..Len(s) : f[i - 1] = g[i - 1] => f[i] = g[i]
    BY <1>1, <1>3, <1>4 DEF Sums
  <2> QED
    BY <1>4, <2>1, <2>2, ComputationUnique
<1>6. g[Len(s) + 1] = g[Len(s)] + x
  <2>1. PICK k \in 1..Len(t) : k = Len(s) + 1
    BY <1>4
  <2>2. g[k] = g[k - 1] + t[k]
    BY <1>3 DEF Sums
  <2>3. t[k] = x /\ k - 1 = Len(s)
    BY <1>4, <2>1
  <2> QED
    BY <2>1, <2>2, <2>3, Zenon
<1> QED
  BY <1>1, <1>2, <1>3, <1>4, <1>5, <1>6

(* And at its front. *)
LEMMA TotalTail ==
  ASSUME NEW s \in Seq(Nat), s # <<>>
  PROVE  Total(s) = Head(s) + Total(Tail(s))
<1>1. PICK f : Sums(f, s) /\ Total(s) = f[Len(s)]
  BY TotalIs
<1>2. PICK t \in Seq(Nat) : t = Tail(s)
  <2>1. Tail(s) \in Seq(Nat)
    OBVIOUS
  <2> QED
    BY <2>1
<1>3. PICK g : Sums(g, t) /\ Total(t) = g[Len(t)]
  BY TotalIs
<1>4. PICK m : m = Len(t)
  OBVIOUS
<1>5. /\ m \in Nat /\ Len(s) = m + 1 /\ Head(s) = s[1] /\ s[1] \in Nat
      /\ \A i \in 1..m : t[i] = s[i + 1]
  BY <1>2, <1>4
<1> DEFINE above == [i \in 0..m |-> f[i + 1]]
<1> DEFINE below == [i \in 0..m |-> s[1] + g[i]]
<1>6. above[m] = below[m]
  <2>1. above[0] = below[0]
    <3>1. f[1] = f[0] + s[1]
      BY <1>1, <1>5 DEF Sums
    <3> QED
      BY <1>1, <1>3, <1>5, <3>1 DEF Sums
  <2>2. ASSUME NEW i \in 1..m, above[i - 1] = below[i - 1]
        PROVE  above[i] = below[i]
    <3>1. i - 1 \in 0..m /\ i \in 0..m /\ i + 1 \in 1..Len(s) /\ (i + 1) - 1 = i
      BY <1>5
    <3>2. f[i + 1] = f[i] + s[i + 1]
      BY <1>1, <3>1 DEF Sums
    <3>3. g[i] = g[i - 1] + s[i + 1] /\ g[i - 1] \in Nat
      BY <1>3, <1>4, <1>5, <3>1 DEF Sums
    <3>4. f[i] = s[1] + g[i - 1]
      BY <2>2, <3>1
    <3>5. s[i + 1] \in Nat
      BY <3>1
    <3> QED
      BY <1>5, <3>1, <3>2, <3>3, <3>4, <3>5
  <2> HIDE DEF above, below
  <2> QED
    BY <1>5, <2>1, <2>2, ComputationUnique
<1>7. f[m + 1] = s[1] + g[m]
  BY <1>5, <1>6
<1> QED
  BY <1>1, <1>2, <1>3, <1>4, <1>5, <1>7

(* What a client may know. *)
Modes == {"status", "headers", "close", "length", "chunked", "lost"}
Clients == [mode : Modes, framing : {"close", "length", "chunked"}, left : Nat,
            who : Nat, got : Nat]

(* A piece of any response. *)
AnyPiece == [who : Nat, part : Parts, n : Nat]

(* What the operators on a client keep of its type. *)
LEMMA FreshType == Fresh \in Clients
BY DEF Fresh, Clients, Modes

(* A client that expects something is a client. *)
LEMMA ExpectType ==
  ASSUME NEW c \in Clients, NEW mode \in Modes
  PROVE  Expect(c, mode) \in Clients
BY DEF Expect, Clients

(* So is one that took some units. *)
LEMMA TookType ==
  ASSUME NEW c \in Clients, NEW n \in Nat
  PROVE  Took(c, n) \in Clients
BY DEF Took, Clients

(* And one that received a piece. *)
LEMMA ReceiveType ==
  ASSUME NEW c \in Clients, NEW piece \in AnyPiece, NEW heads
  PROVE  Receive(c, piece, heads) \in Clients
<1>1. piece.n \in Nat /\ piece.who \in Nat
  BY DEF AnyPiece
<1>2. c.left \in Nat /\ c.framing \in Modes
  BY DEF Clients, Modes
<1>3. [Fresh EXCEPT !.mode = "headers", !.who = piece.who] \in Clients
  BY <1>1 DEF Fresh, Clients, Modes
<1>4. /\ [c EXCEPT !.framing = "length", !.left = piece.n] \in Clients
      /\ [c EXCEPT !.framing = "chunked"] \in Clients
  BY <1>1 DEF Clients
<1>5. \A m \in Modes : Expect(c, m) \in Clients /\ Expect(Took(c, piece.n), m) \in Clients
  BY <1>1, ExpectType, TookType
<1>6. "status" \in Modes /\ "lost" \in Modes
  BY DEF Modes
<1>7. /\ Took(c, piece.n) \in Clients
      /\ piece.n < c.left => [Took(c, piece.n) EXCEPT !.left = @ - piece.n] \in Clients
  <2>1. Took(c, piece.n) \in Clients /\ Took(c, piece.n).left = c.left
    BY <1>1, TookType DEF Took, Clients
  <2> QED
    BY <1>1, <1>2, <2>1 DEF Clients
<1> QED
  BY <1>2, <1>3, <1>4, <1>5, <1>6, <1>7, Zenon DEF Receive

(* f is what the client knows after each of the pieces. *)
Follows(f, pieces, heads) ==
  /\ f \in [0..Len(pieces) -> Clients]
  /\ f[0] = Fresh
  /\ \A i \in 1..Len(pieces) : f[i] = Receive(f[i - 1], pieces[i], heads)

(* The client that has read some pieces, the empty sequence, and one more. *)
LEMMA ReadsIs ==
  ASSUME NEW pieces \in Seq(AnyPiece), NEW heads
  PROVE  \E f : Follows(f, pieces, heads) /\ Reads(pieces, heads) = f[Len(pieces)]
<1> DEFINE n == Len(pieces)
<1> DEFINE op == [i \in 1..n |-> [c \in Clients |-> Receive(c, pieces[i], heads)]]
<1>1. n \in Nat /\ \A i \in 1..n : pieces[i] \in AnyPiece
  OBVIOUS
<1>2. op \in [1..n -> [Clients -> Clients]]
  BY <1>1, ReceiveType
<1>3. PICK f : Computes(f, n, Clients, Fresh, op)
  <2>1. n \in Nat /\ Fresh \in Clients
    BY <1>1, FreshType
  <2> HIDE DEF n, op
  <2> QED
    BY <1>2, <2>1, ComputationExists
<1>4. f \in [0..n -> Clients] /\ f[0] = Fresh
  BY <1>3 DEF Computes
<1>5. \A i \in 1..n : f[i] = Receive(f[i - 1], pieces[i], heads)
  <2> SUFFICES ASSUME NEW i \in 1..n PROVE f[i] = Receive(f[i - 1], pieces[i], heads)
    OBVIOUS
  <2>1. i - 1 \in 0..n
    BY <1>1
  <2>2. f[i - 1] \in Clients
    BY <1>4, <2>1
  <2>3. f[i] = op[i][f[i - 1]]
    BY <1>3 DEF Computes
  <2>4. op[i][f[i - 1]] = Receive(f[i - 1], pieces[i], heads)
    BY <2>2
  <2> QED
    BY <2>3, <2>4, Zenon
<1> DEFINE after == CHOOSE g : g = [i \in 0..n |-> IF i = 0 THEN Fresh
                                       ELSE Receive(g[i - 1], pieces[i], heads)]
<1>6. f = [i \in 0..n |-> IF i = 0 THEN Fresh ELSE Receive(f[i - 1], pieces[i], heads)]
  <2> HIDE DEF op
  <2> QED
    BY <1>1, <1>4, <1>5
<1>7. after = [i \in 0..n |-> IF i = 0 THEN Fresh ELSE Receive(after[i - 1], pieces[i], heads)]
  <2> HIDE DEF n
  <2> QED
    BY <1>6, Zenon
<1>8. Reads(pieces, heads) = after[n]
  BY DEF Reads
<1>9. after[n] = f[n]
  <2>1. after[0] = Fresh /\ \A i \in 1..n : after[i] = Receive(after[i - 1], pieces[i], heads)
    <3> HIDE DEF after, n
    <3> QED
      BY <1>1, <1>7
  <2>2. f[0] = after[0]
    BY <1>4, <2>1
  <2>3. \A i \in 1..n : f[i - 1] = after[i - 1] => f[i] = after[i]
    <3> HIDE DEF after, n
    <3> QED
      BY <1>5, <2>1
  <2> HIDE DEF after, n
  <2> QED
    BY <1>1, <2>2, <2>3, ComputationUnique
<1> QED
  BY <1>4, <1>5, <1>8, <1>9 DEF Follows

(* And one that read some pieces. *)
LEMMA ReadsType ==
  ASSUME NEW pieces \in Seq(AnyPiece), NEW heads
  PROVE  Reads(pieces, heads) \in Clients
<1>1. PICK f : Follows(f, pieces, heads) /\ Reads(pieces, heads) = f[Len(pieces)]
  BY ReadsIs
<1> QED
  BY <1>1 DEF Follows

(* A client that has read nothing is fresh. *)
LEMMA ReadsEmpty ==
  ASSUME NEW heads
  PROVE  Reads(<<>>, heads) = Fresh
<1>1. <<>> \in Seq(AnyPiece) /\ Len(<<>>) = 0
  OBVIOUS
<1>2. PICK f : Follows(f, <<>>, heads) /\ Reads(<<>>, heads) = f[Len(<<>>)]
  BY <1>1, ReadsIs
<1> QED
  BY <1>1, <1>2 DEF Follows

(* One piece more. *)
LEMMA ReadsAppend ==
  ASSUME NEW pieces \in Seq(AnyPiece), NEW piece \in AnyPiece, NEW heads
  PROVE  Reads(Append(pieces, piece), heads) = Receive(Reads(pieces, heads), piece, heads)
<1>1. PICK f : Follows(f, pieces, heads) /\ Reads(pieces, heads) = f[Len(pieces)]
  BY ReadsIs
<1>2. PICK more \in Seq(AnyPiece) : more = Append(pieces, piece)
  <2>1. Append(pieces, piece) \in Seq(AnyPiece)
    OBVIOUS
  <2> QED
    BY <2>1
<1>3. PICK g : Follows(g, more, heads) /\ Reads(more, heads) = g[Len(more)]
  BY ReadsIs
<1>4. /\ Len(pieces) \in Nat /\ Len(more) = Len(pieces) + 1
      /\ more[Len(pieces) + 1] = piece
      /\ \A i \in 1..Len(pieces) : more[i] = pieces[i] /\ i \in 1..Len(more)
  BY <1>2
<1>5. f[Len(pieces)] = g[Len(pieces)]
  <2>1. f[0] = g[0]
    BY <1>1, <1>3 DEF Follows
  <2>2. ASSUME NEW i \in 1..Len(pieces), f[i - 1] = g[i - 1]
        PROVE  f[i] = g[i]
    <3>1. f[i] = Receive(f[i - 1], pieces[i], heads)
      BY <1>1 DEF Follows
    <3>2. g[i] = Receive(g[i - 1], more[i], heads)
      BY <1>3, <1>4 DEF Follows
    <3> QED
      BY <1>4, <2>2, <3>1, <3>2
  <2> QED
    BY <1>4, <2>1, <2>2, ComputationUnique
<1>6. g[Len(more)] = Receive(g[Len(pieces)], piece, heads)
  <2>1. PICK k \in 1..Len(more) : k = Len(pieces) + 1
    BY <1>4
  <2>2. g[k] = Receive(g[k - 1], more[k], heads)
    BY <1>3 DEF Follows
  <2>3. more[k] = piece /\ k - 1 = Len(pieces) /\ k = Len(more)
    BY <1>4, <2>1
  <2> QED
    BY <2>2, <2>3, Zenon
<1> QED
  BY <1>1, <1>2, <1>3, <1>5, <1>6, Zenon

(* Which responses answer HEAD matters for those that are in the pieces.    *)
LEMMA ReadsSame ==
  ASSUME NEW pieces \in Seq(AnyPiece), NEW heads, NEW others,
         \A i \in 1..Len(pieces) : pieces[i].who \in heads <=> pieces[i].who \in others
  PROVE  Reads(pieces, heads) = Reads(pieces, others)
<1>1. PICK f : Follows(f, pieces, heads) /\ Reads(pieces, heads) = f[Len(pieces)]
  BY ReadsIs
<1>2. PICK g : Follows(g, pieces, others) /\ Reads(pieces, others) = g[Len(pieces)]
  BY ReadsIs
<1>3. \A c, piece : (piece.who \in heads <=> piece.who \in others)
        => Receive(c, piece, heads) = Receive(c, piece, others)
  BY SMT DEF Receive
<1>4. f[0] = g[0]
  BY <1>1, <1>2 DEF Follows
<1>5. ASSUME NEW i \in 1..Len(pieces), f[i - 1] = g[i - 1]
      PROVE  f[i] = g[i]
  <2>1. f[i] = Receive(f[i - 1], pieces[i], heads)
    BY <1>1 DEF Follows
  <2>2. g[i] = Receive(g[i - 1], pieces[i], others)
    BY <1>2 DEF Follows
  <2>3. Receive(f[i - 1], pieces[i], heads) = Receive(f[i - 1], pieces[i], others)
    BY <1>3
  <2> QED
    BY <1>5, <2>1, <2>2, <2>3, Zenon
<1>6. f[Len(pieces)] = g[Len(pieces)]
  <2>1. Len(pieces) \in Nat
    OBVIOUS
  <2> QED
    BY <1>4, <1>5, <2>1, ComputationUnique
<1> QED
  BY <1>1, <1>2, <1>6

(* A client that is lost stays lost. *)
LEMMA LostStays ==
  ASSUME NEW c \in Clients, c.mode = "lost", NEW piece, NEW heads
  PROVE  Receive(c, piece, heads).mode = "lost"
<1>1. Receive(c, piece, heads) = Expect(c, "lost")
  BY Zenon DEF Receive
<1> QED
  BY <1>1 DEF Expect, Clients

(* A client that is lost stays lost: one that is not has not been. *)
LEMMA LostForGood ==
  ASSUME NEW pieces \in Seq(AnyPiece), NEW rest \in Seq(AnyPiece), NEW heads,
         Reads(pieces \o rest, heads).mode # "lost"
  PROVE  Reads(pieces, heads).mode # "lost"
<1>1. PICK f : Follows(f, pieces, heads) /\ Reads(pieces, heads) = f[Len(pieces)]
  BY ReadsIs
<1>2. PICK more \in Seq(AnyPiece) : more = pieces \o rest
  <2>1. pieces \o rest \in Seq(AnyPiece)
    OBVIOUS
  <2> QED
    BY <2>1
<1>3. PICK g : Follows(g, more, heads) /\ Reads(more, heads) = g[Len(more)]
  BY ReadsIs
<1>4. PICK n \in Nat : n = Len(pieces)
  OBVIOUS
<1>5. /\ Len(more) \in Nat /\ n <= Len(more)
      /\ \A i \in 1..n : more[i] = pieces[i] /\ i \in 1..Len(more)
  BY <1>2, <1>4
<1>6. f[n] = g[n]
  <2>1. f[0] = g[0]
    BY <1>1, <1>3 DEF Follows
  <2>2. ASSUME NEW i \in 1..n, f[i - 1] = g[i - 1]
        PROVE  f[i] = g[i]
    <3>1. f[i] = Receive(f[i - 1], pieces[i], heads)
      BY <1>1, <1>4 DEF Follows
    <3>2. g[i] = Receive(g[i - 1], more[i], heads)
      BY <1>3, <1>5 DEF Follows
    <3> QED
      BY <1>5, <2>2, <3>1, <3>2
  <2> QED
    BY <2>1, <2>2, ComputationUnique
<1>7. ASSUME g[n].mode = "lost"
      PROVE  FALSE
  <2> DEFINE Found == {i \in n..Len(more) : g[i].mode # "lost"}
  <2>1. Len(more) \in Found
    BY <1>2, <1>3, <1>5
  <2>2. Found \subseteq Nat
    BY <1>5
  <2>3. PICK m \in Found : \A k \in Found : m <= k
    <3> HIDE DEF Found
    <3> QED
      BY <2>1, <2>2, LeastNumber
  <2>4. m \in n..Len(more) /\ g[m].mode # "lost"
    OBVIOUS
  <2>5. m # n
    BY <1>7, <2>4
  <2>6. m - 1 \in n..Len(more) /\ ~(m <= m - 1) /\ m \in 1..Len(more) /\ m - 1 \in 0..Len(more)
    BY <1>5, <2>4, <2>5
  <2>7. g[m - 1].mode = "lost"
    BY <2>3, <2>6
  <2>8. g[m] = Receive(g[m - 1], more[m], heads)
    BY <1>3, <2>6 DEF Follows
  <2>9. g[m - 1] \in Clients
    BY <1>3, <2>6 DEF Follows
  <2>10. Receive(g[m - 1], more[m], heads).mode = "lost"
    BY <2>7, <2>9, LostStays
  <2> QED
    BY <2>4, <2>8, <2>10
<1> QED
  BY <1>1, <1>4, <1>6, <1>7

--------------------------------------------------------------------------------
(* What a client makes of each part. *)
Started(who) == [Fresh EXCEPT !.mode = "headers", !.who = who]

(* A status line begins the next response. *)
LEMMA ReceiveStatus ==
  ASSUME NEW c, NEW piece, NEW heads, c.mode = "status", piece.part = "status", piece.who > c.who
  PROVE  Receive(c, piece, heads) = Started(piece.who)
BY SMT DEF Receive, Started

(* A header changes nothing for where the body ends. *)
LEMMA ReceiveHeader ==
  ASSUME NEW c, NEW piece, NEW heads, c.mode = "headers", piece.part \in {"header", "default"}
  PROVE  Receive(c, piece, heads) = c
BY SMT DEF Receive

(* A content-length says where it does. *)
LEMMA ReceiveLength ==
  ASSUME NEW c, NEW piece, NEW heads, c.mode = "headers", piece.part = "length"
  PROVE  Receive(c, piece, heads) = [c EXCEPT !.framing = "length", !.left = piece.n]
BY SMT DEF Receive

(* Chunked: the body ends with its last chunk. *)
LEMMA ReceiveChunked ==
  ASSUME NEW c, NEW piece, NEW heads, c.mode = "headers", piece.part = "chunked"
  PROVE  Receive(c, piece, heads) = [c EXCEPT !.framing = "chunked"]
BY SMT DEF Receive

(* The blank line is the end, or the body begins. *)
LEMMA ReceiveBlank ==
  ASSUME NEW c, NEW piece, NEW heads, c.mode = "headers", piece.part = "blank"
  PROVE  Receive(c, piece, heads) =
           IF piece.who \in heads \/ (c.framing = "length" /\ c.left = 0)
           THEN Expect(c, "status") ELSE Expect(c, c.framing)
BY SMT DEF Receive

(* Data of a body of known length, and more to come. *)
LEMMA ReceiveData ==
  ASSUME NEW c, NEW piece, NEW heads, c.mode = "length", piece.part = "data", piece.n < c.left,
         piece.n \in Nat, c.left \in Nat
  PROVE  Receive(c, piece, heads) = [Took(c, piece.n) EXCEPT !.left = @ - piece.n]
BY SMT DEF Receive

(* Its last data. *)
LEMMA ReceiveLastData ==
  ASSUME NEW c, NEW piece, NEW heads, c.mode = "length", piece.part = "data",
         piece.n = c.left, c.left \in Nat
  PROVE  Receive(c, piece, heads) = Expect(Took(c, piece.n), "status")
BY SMT DEF Receive

(* A chunk that is not the last. *)
LEMMA ReceiveChunk ==
  ASSUME NEW c, NEW piece, NEW heads, c.mode = "chunked", piece.part = "chunk",
         piece.n \in Nat, piece.n # 0
  PROVE  Receive(c, piece, heads) = Took(c, piece.n)
BY SMT DEF Receive

(* The last chunk. *)
LEMMA ReceiveZeroChunk ==
  ASSUME NEW c, NEW piece, NEW heads, c.mode = "chunked", piece.part = "last", piece.n = 0
  PROVE  Receive(c, piece, heads) = Expect(c, "status")
BY SMT DEF Receive

--------------------------------------------------------------------------------
(* The client that is ahead: it has what the framer still holds. *)
Ahead == Reads(wire \o framer, Heads)

(* What is sent and what the framer holds are pieces. *)
LEMMA SeqsOfPieces ==
  ASSUME IType
  PROVE  /\ wire \in Seq(AnyPiece) /\ framer \in Seq(AnyPiece)
         /\ wire \o framer \in Seq(AnyPiece)
         /\ Len(wire) \in Nat /\ Len(framer) \in Nat
<1>1. Piece \subseteq AnyPiece
  BY MaxResponsesAssumption DEF Piece, AnyPiece, Responses
<1>2. wire \in Seq(Piece) /\ framer \in Seq(Piece)
  BY DEF IType, TypeOK
<1>3. wire \in Seq(AnyPiece) /\ framer \in Seq(AnyPiece)
  BY <1>1, <1>2
<1> QED
  BY <1>3

(* The client that is ahead is a client. *)
LEMMA AheadType ==
  ASSUME IType
  PROVE  Ahead \in Clients
BY SeqsOfPieces, ReadsType DEF Ahead

(* Nothing is sent. *)
LEMMA AheadSame ==
  ASSUME UNCHANGED <<wire, framer, routes>>
  PROVE  Ahead' = Ahead /\ Client' = Client /\ Heads' = Heads /\ Current' = Current
BY DEF Ahead, Client, Heads, Current

(* One piece is sent while the framer is empty. *)
LEMMA AheadOne ==
  ASSUME IType, framer = <<>>, framer' = <<>>, routes' = routes, NEW piece \in AnyPiece,
         wire' = Append(wire, piece)
  PROVE  Ahead' = Receive(Ahead, piece, Heads) /\ Client' = Ahead'
<1>1. wire \o framer = wire /\ wire' \o framer' = Append(wire, piece)
  BY SeqsOfPieces
<1>2. Heads' = Heads
  BY DEF Heads, Current
<1>3. Reads(Append(wire, piece), Heads) = Receive(Reads(wire, Heads), piece, Heads)
  BY SeqsOfPieces, ReadsAppend
<1> QED
  BY <1>1, <1>2, <1>3 DEF Ahead, Client

(* Two pieces written while the framer is empty reach the client that is    *)
(* ahead one after the other.                                               *)
LEMMA AheadTwo ==
  ASSUME IType, framer = <<>>, framer' = <<>>, routes' = routes, NEW piece \in AnyPiece,
         NEW next \in AnyPiece, wire' = Append(Append(wire, piece), next)
  PROVE  Ahead' = Receive(Receive(Ahead, piece, Heads), next, Heads)
<1>1. wire \o framer = wire /\ wire' \o framer' = wire'
  BY SeqsOfPieces
<1>2. Heads' = Heads
  BY DEF Heads, Current
<1>3. Reads(Append(wire, piece), Heads) = Receive(Reads(wire, Heads), piece, Heads)
  BY SeqsOfPieces, ReadsAppend
<1>4. Reads(wire', Heads) = Receive(Reads(Append(wire, piece), Heads), next, Heads)
  <2>1. Append(wire, piece) \in Seq(AnyPiece)
    BY SeqsOfPieces
  <2> QED
    BY <2>1, ReadsAppend
<1> QED
  BY <1>1, <1>2, <1>3, <1>4 DEF Ahead

(* The framer gets a piece. *)
LEMMA AheadFramed ==
  ASSUME IType, UNCHANGED <<wire, routes>>, NEW piece \in AnyPiece, framer' = Append(framer, piece)
  PROVE  Ahead' = Receive(Ahead, piece, Heads)
<1>1. wire' \o framer' = Append(wire \o framer, piece)
  BY SeqsOfPieces
<1>2. Heads' = Heads
  BY DEF Heads, Current
<1>3. Reads(Append(wire \o framer, piece), Heads) = Receive(Reads(wire \o framer, Heads), piece, Heads)
  BY SeqsOfPieces, ReadsAppend
<1> QED
  BY <1>1, <1>2, <1>3 DEF Ahead

(* The framer gives a piece to the socket. *)
LEMMA AheadFlushed ==
  ASSUME IType, framer # <<>>, framer' = Tail(framer), wire' = Append(wire, Head(framer)),
         routes' = routes
  PROVE  Ahead' = Ahead
<1>1. wire' \o framer' = wire \o framer
  BY SeqsOfPieces
<1>2. Heads' = Heads
  BY DEF Heads, Current
<1> QED
  BY <1>1, <1>2 DEF Ahead

(* If the client that is ahead is not lost, neither is the client. *)
LEMMA ClientBehind ==
  ASSUME IType, Ahead.mode # "lost"
  PROVE  Client.mode # "lost"
BY SeqsOfPieces, LostForGood DEF Ahead, Client

--------------------------------------------------------------------------------
(* The calls that are left. *)
Left == {plan[i] : i \in 1..Len(plan)}

(* The route of the current response. *)
Now == routes[Current]

(* What a step that takes the first call off the plan leaves of it. *)
LEMMA LeftHead ==
  ASSUME plan \in Seq(Calls), plan # <<>>
  PROVE  /\ Head(plan) \in Left /\ Head(plan) = plan[1] /\ Head(plan) \in Calls
         /\ Left = {Head(plan)} \cup {Tail(plan)[i] : i \in 1..Len(Tail(plan))}
<1>1. /\ Len(plan) \in Nat /\ 1 \in 1..Len(plan) /\ Len(Tail(plan)) = Len(plan) - 1
      /\ Head(plan) = plan[1] /\ Head(plan) \in Calls
      /\ \A i \in 1..Len(Tail(plan)) : Tail(plan)[i] = plan[i + 1] /\ i + 1 \in 1..Len(plan)
  OBVIOUS
<1>2. Head(plan) \in Left
  BY <1>1 DEF Left
<1>3. ASSUME NEW i \in 1..Len(plan), i # 1
      PROVE  i - 1 \in 1..Len(Tail(plan)) /\ plan[i] = Tail(plan)[i - 1]
  <2>1. i - 1 \in 1..Len(Tail(plan)) /\ (i - 1) + 1 = i
    BY <1>1, <1>3
  <2> QED
    BY <1>1, <2>1
<1>4. Left \subseteq {Head(plan)} \cup {Tail(plan)[i] : i \in 1..Len(Tail(plan))}
  BY <1>1, <1>3 DEF Left
<1>5. {Tail(plan)[i] : i \in 1..Len(Tail(plan))} \subseteq Left
  BY <1>1 DEF Left
<1> QED
  BY <1>1, <1>2, <1>4, <1>5

(* A call that returns is no longer left, unless it comes again. *)
LEMMA LeftReturns ==
  ASSUME plan \in Seq(Calls), plan # <<>>, plan' = Tail(plan)
  PROVE  Left = {Head(plan)} \cup Left'
BY LeftHead DEF Left

(* A call that is replaced by those it makes. *)
LEMMA LeftReplaced ==
  ASSUME plan \in Seq(Calls), plan # <<>>, NEW made \in Seq(Calls), plan' = made \o Tail(plan),
         NEW S, \A i \in 1..Len(made) : made[i] \in S
  PROVE  /\ Left \subseteq {Head(plan)} \cup Left'
         /\ Left' \subseteq Left \cup S
         /\ \A i \in 1..Len(made) : made[i] \in Left'
<1> DEFINE rest == Tail(plan)
<1>1. /\ rest \in Seq(Calls) /\ Len(made) \in Nat /\ Len(rest) \in Nat
      /\ Len(plan') = Len(made) + Len(rest)
      /\ \A i \in 1..Len(made) : plan'[i] = made[i]
      /\ \A i \in 1..Len(rest) : plan'[Len(made) + i] = rest[i]
  OBVIOUS
<1>2. Left = {Head(plan)} \cup {rest[i] : i \in 1..Len(rest)}
  BY LeftHead
<1> HIDE DEF rest
<1>3. ASSUME NEW i \in 1..Len(rest)
      PROVE  rest[i] \in Left'
  <2>1. Len(made) + i \in 1..Len(plan')
    BY <1>1
  <2> QED
    BY <1>1, <2>1 DEF Left
<1>4. ASSUME NEW i \in 1..Len(made)
      PROVE  made[i] \in Left'
  <2>1. i \in 1..Len(plan')
    BY <1>1
  <2> QED
    BY <1>1, <2>1 DEF Left
<1>5. ASSUME NEW i \in 1..Len(plan')
      PROVE  plan'[i] \in Left \cup S
  <2>1. CASE i \in 1..Len(made)
    BY <1>1, <2>1
  <2>2. CASE i \notin 1..Len(made)
    <3>1. i - Len(made) \in 1..Len(rest) /\ Len(made) + (i - Len(made)) = i
      BY <1>1, <2>2
    <3> QED
      BY <1>1, <1>2, <3>1
  <2> QED
    BY <2>1, <2>2
<1>6. Left \subseteq {Head(plan)} \cup Left'
  BY <1>2, <1>3
<1>7. Left' \subseteq Left \cup S
  BY <1>5 DEF Left
<1> QED
  BY <1>4, <1>6, <1>7

--------------------------------------------------------------------------------
(* What a call sends. *)
Says(part) == [who |-> Current, part |-> part, n |-> bodySize]

(* What the response says is a piece of its own. *)
LEMMA SaysType ==
  ASSUME IType, Current \in Responses, NEW part \in Parts
  PROVE  /\ Says(part) \in AnyPiece
         /\ Says(part).who = Current /\ Says(part).part = part /\ Says(part).n = bodySize
BY MaxResponsesAssumption DEF Says, AnyPiece, IType, TypeOK, Responses

(* What a call sends, whatever its plan is. *)
LEMMA CallWrites ==
  ASSUME wire \in Seq(Piece), NEW call, Call(call)
  PROVE  /\ Writes(call) = <<>> => wire' = wire
         /\ \A p \in Parts : Writes(call) = <<p>> => wire' = Append(wire, Says(p))
         /\ \A p, q \in Parts :
              Writes(call) = <<p, q>> => wire' = Append(Append(wire, Says(p)), Says(q))
<1>1. wire \in Seq(Piece)
  OBVIOUS
<1>2. wire' = wire \o [i \in 1..Len(Writes(call)) |-> Says(Writes(call)[i])]
  BY DEF Call, Says
<1>3. ASSUME Writes(call) = <<>>
      PROVE  wire' = wire
  BY <1>1, <1>2, <1>3
<1>4. ASSUME NEW p \in Parts, Writes(call) = <<p>>
      PROVE  wire' = Append(wire, Says(p))
  <2>1. [i \in 1..Len(Writes(call)) |-> Says(Writes(call)[i])] = <<Says(p)>>
    BY <1>4
  <2> QED
    BY <1>1, <1>2, <2>1
<1>5. ASSUME NEW p \in Parts, NEW q \in Parts, Writes(call) = <<p, q>>
      PROVE  wire' = Append(Append(wire, Says(p)), Says(q))
  <2>1. [i \in 1..Len(Writes(call)) |-> Says(Writes(call)[i])] = <<Says(p), Says(q)>>
    BY <1>5
  <2>2. wire' = wire \o <<Says(p), Says(q)>>
    BY <1>2, <2>1, Zenon
  <2>3. \A a, b : wire \o <<a, b>> = Append(Append(wire, a), b)
    BY <1>1
  <2> QED
    BY <2>2, <2>3
<1> QED
  BY <1>3, <1>4, <1>5

(* What a call sends. *)
LEMMA CallSends ==
  ASSUME IType, NEW call, Call(call)
  PROVE  /\ Writes(call) = <<>> => wire' = wire
         /\ \A p \in Parts : Writes(call) = <<p>> => wire' = Append(wire, Says(p))
         /\ \A p, q \in Parts :
              Writes(call) = <<p, q>> => wire' = Append(Append(wire, Says(p)), Says(q))
<1>1. wire \in Seq(Piece)
  BY DEF IType, TypeOK
<1> QED
  BY <1>1, CallWrites

(* The calls of a route that do not belong to the methods that send a body. *)
LEMMA CallState ==
  ASSUME IType, NEW call, Call(call)
  PROVE  /\ Current \in Responses /\ Current \in 1..Len(routes) /\ routes[Current] \in Route
         /\ plan \in Seq(Calls) /\ plan # <<>> /\ Head(plan) = call
         /\ routes' = routes /\ socket' = socket /\ Current' = Current /\ Heads' = Heads
         /\ state \in Allowed(call)
<1>1. Current \in Responses /\ plan \in Seq(Calls) /\ plan # <<>> /\ routes' = routes
  BY CallType
<1>2. Current \in 1..Len(routes) /\ routes \in Seq(Route)
  BY <1>1 DEF IType, TypeOK, Current, Responses
<1>3. Current' = Current /\ Heads' = Heads
  BY <1>1 DEF Current, Heads
<1> QED
  BY <1>1, <1>2, <1>3 DEF Call

(* The steps of a route before its body, after it, or without one: each of  *)
(* them is one of six, if the client takes what they send.                  *)
Quietly ==
  /\ Head(plan) \in {"transform", "raw", "size", "header", "defaults"}
  /\ Head(plan) \in {"header", "defaults"} => state \in {"line", "headers"}
  /\ Head(plan) = "transform" => transform' = TRUE
  /\ plan' = Tail(plan)
  /\ state' = state /\ Ahead' = Ahead

(* The status line, and the enqueued headers to come. *)
Begins ==
  /\ Head(plan) = "status" /\ state = "line" /\ state' = "headers"
  /\ plan' = [i \in 1..enqueued |-> "header"] \o Tail(plan)
  /\ Ahead' = Started(Current)

(* The start of a body. *)
Sends ==
  /\ Head(plan) \in {"buffered", "streamed"} /\ state = "headers" /\ state' = state
  /\ plan' = <<"framing", "defaults", "endHeaders", "pipe", "closed">> \o Tail(plan)
  /\ Ahead' = Ahead

(* The start of an empty body. *)
SendsNone ==
  /\ Head(plan) = "empty" /\ state' = state
  /\ plan' = <<"defaults", "endHeaders", "endBody">> \o Tail(plan)
  /\ Ahead' = Ahead

(* The blank line: the client goes on as the headers have told it. *)
HeadersEnd ==
  /\ Head(plan) = "endHeaders" /\ state = "headers" /\ state' = "body"
  /\ plan' = Tail(plan)
  /\ Ahead' = IF Current \in Heads \/ (Ahead.framing = "length" /\ Ahead.left = 0)
              THEN Expect(Ahead, "status") ELSE Expect(Ahead, Ahead.framing)

(* The end of a body that was empty. *)
BodyEnds ==
  /\ Head(plan) = "endBody" /\ state = "body" /\ state' = "finished"
  /\ plan' = Tail(plan)
  /\ Ahead' = Ahead

(* The client takes what such a step sends. *)
Receptive ==
  /\ framer = <<>> /\ ~chunked
  /\ state = "line" => Ahead.mode = "status" /\ Ahead.who < Current
  /\ state = "headers" => Ahead.mode = "headers"

(* Calls that only a route makes are such steps. *)
LEMMA PublicMoves ==
  ASSUME IType, Open', RouteStep, Receptive, Head(plan) \notin InternalCalls
  PROVE  /\ Quietly \/ Begins \/ Sends \/ SendsNone \/ HeadersEnd \/ BodyEnds
         /\ UNCHANGED <<streams, routes, chunked, Current, Heads>>
         /\ plan # <<>>
         /\ Head(plan) # "transform" => transform' = transform
<1> USE DEF response, streams
<1>0. framer = <<>> /\ ~chunked /\ chunked \in BOOLEAN
  BY DEF Receptive, IType, TypeOK
<1>n. ASSUME NEW call, Call(call), Writes(call) = <<>>, framer' = framer
      PROVE  Ahead' = Ahead
  <2>1. wire' = wire
    BY <1>n, CallSends
  <2> QED
    BY <1>n, <2>1, CallState, AheadSame
<1>o. ASSUME NEW call, Call(call), NEW part \in Parts, Writes(call) = <<part>>, framer' = framer
      PROVE  Ahead' = Receive(Ahead, Says(part), Heads)
  <2>1. wire' = Append(wire, Says(part))
    BY <1>o, CallSends
  <2>2. Says(part) \in AnyPiece
    BY <1>o, CallState, SaysType
  <2> QED
    BY <1>0, <1>o, <2>1, <2>2, CallState, AheadOne
<1>1. CASE AddBodyTransform
  <2>1. Call("transform") /\ framer' = framer
    BY <1>1 DEF AddBodyTransform
  <2>2. Writes("transform") = <<>>
    BY DEF Writes
  <2>3. Ahead' = Ahead
    BY <1>n, <2>1, <2>2
  <2>4. transform' = TRUE /\ plan' = Tail(plan) /\ UNCHANGED <<streams, chunked>> /\ state' = state
    BY <1>1 DEF AddBodyTransform, Returns
  <2>5. Quietly
    BY <2>1, <2>3, <2>4, CallState DEF Quietly
  <2> QED
    BY <2>1, <2>4, <2>5, CallState
<1>2. CASE AddRawBodyTransform
  <2>1. Call("raw") /\ framer' = framer
    BY <1>2 DEF AddRawBodyTransform
  <2>2. Writes("raw") = <<>>
    BY DEF Writes
  <2>3. Ahead' = Ahead
    BY <1>n, <2>1, <2>2
  <2> QED
    BY <1>2, <2>1, <2>3, CallState DEF AddRawBodyTransform, Returns, Quietly
<1>3. CASE Header
  <2>1. PICK call \in {"header", "defaults"} : Call(call)
    BY <1>3 DEF Header
  <2>2. framer' = framer
    BY <1>3 DEF Header
  <2>3. state \in {"line", "headers"}
    BY <2>1, CallState DEF Allowed
  <2>4. Ahead' = Ahead
    <3>1. CASE state = "line"
      <4>1. Writes(call) = <<>>
        BY <2>1, <3>1 DEF Writes
      <4> QED
        BY <1>n, <2>1, <2>2, <4>1
    <3>2. CASE state = "headers"
      <4>1. PICK part \in {"header", "default"} : Writes(call) = <<part>>
        BY <1>0, <2>1, <3>2 DEF Writes
      <4>2. part \in Parts
        BY DEF Parts
      <4>3. Ahead' = Receive(Ahead, Says(part), Heads)
        BY <1>o, <2>1, <2>2, <4>1, <4>2
      <4>4. Says(part).part = part
        BY DEF Says
      <4>5. Ahead.mode = "headers"
        BY <3>2 DEF Receptive
      <4> QED
        BY <4>3, <4>4, <4>5, ReceiveHeader
    <3> QED
      BY <2>3, <3>1, <3>2
  <2> QED
    BY <1>3, <2>1, <2>3, <2>4, CallState DEF Header, Returns, Quietly
<1>4. CASE SetBodySize
  <2>1. Call("size") /\ framer' = framer
    BY <1>4 DEF SetBodySize
  <2>2. Writes("size") = <<>>
    BY DEF Writes
  <2>3. Ahead' = Ahead
    BY <1>n, <2>1, <2>2
  <2> QED
    BY <1>4, <2>1, <2>3, CallState DEF SetBodySize, Returns, Quietly
<1>5. CASE Status
  <2>1. Call("status") /\ framer' = framer
    BY <1>5 DEF Status
  <2>2. Writes("status") = <<"status">> /\ "status" \in Parts
    BY DEF Writes, Parts
  <2>3. Ahead' = Receive(Ahead, Says("status"), Heads)
    BY <1>o, <2>1, <2>2
  <2>4. state = "line" /\ Ahead.mode = "status" /\ Ahead.who < Current
    BY <2>1, CallState DEF Allowed, Receptive
  <2>5. Ahead' = Started(Current)
    <3>1. Says("status").part = "status" /\ Says("status").who = Current
      BY DEF Says
    <3>2. Says("status").who > Ahead.who
      BY <2>4, <3>1
    <3>3. Receive(Ahead, Says("status"), Heads) = Started(Says("status").who)
      BY <2>4, <3>1, <3>2, ReceiveStatus
    <3> QED
      BY <2>3, <3>1, <3>3, Zenon
  <2> QED
    BY <1>5, <2>1, <2>4, <2>5, CallState DEF Status, Begins
<1>6. CASE SendBody
  <2>1. PICK call \in {"buffered", "streamed"} : Call(call)
    BY <1>6 DEF SendBody
  <2>2. framer' = framer
    BY <1>6 DEF SendBody
  <2>3. Writes(call) = <<>> /\ Allowed(call) = {"headers"}
    BY <2>1 DEF Writes, Allowed
  <2>4. Ahead' = Ahead
    BY <1>n, <2>1, <2>2, <2>3
  <2> QED
    BY <1>6, <2>1, <2>3, <2>4, CallState DEF SendBody, Sends
<1>7. CASE SendEmptyBody
  <2>1. Call("empty") /\ framer' = framer
    BY <1>7 DEF SendEmptyBody
  <2>2. Writes("empty") = <<>>
    BY DEF Writes
  <2>3. Ahead' = Ahead
    BY <1>n, <2>1, <2>2
  <2> QED
    BY <1>7, <2>1, <2>3, CallState DEF SendEmptyBody, SendsNone
<1>8. CASE EndHeaders
  <2>1. Call("endHeaders") /\ framer' = framer
    BY <1>8 DEF EndHeaders
  <2>2. Writes("endHeaders") = <<"blank">> /\ "blank" \in Parts
    BY DEF Writes, Parts
  <2>3. Ahead' = Receive(Ahead, Says("blank"), Heads)
    BY <1>o, <2>1, <2>2
  <2>4. state = "headers" /\ Ahead.mode = "headers"
    BY <2>1, CallState DEF Allowed, Receptive
  <2>5. Says("blank").part = "blank" /\ Says("blank").who = Current
    BY DEF Says
  <2>6. Ahead' = IF Current \in Heads \/ (Ahead.framing = "length" /\ Ahead.left = 0)
                 THEN Expect(Ahead, "status") ELSE Expect(Ahead, Ahead.framing)
    BY <2>3, <2>4, <2>5, ReceiveBlank
  <2>7. HeadersEnd
    BY <1>8, <2>1, <2>4, <2>6, CallState DEF EndHeaders, Returns, HeadersEnd
  <2> QED
    BY <1>8, <2>1, <2>7, CallState DEF EndHeaders
<1>9. CASE EndBody
  <2>1. Call("endBody") /\ framer' = framer
    BY <1>9 DEF EndBody
  <2>2. Writes("endBody") = <<>>
    BY DEF Writes
  <2>3. Ahead' = Ahead
    BY <1>n, <2>1, <2>2
  <2> QED
    BY <1>9, <2>1, <2>3, CallState DEF EndBody, Returns, BodyEnds, Allowed
<1>10. CASE Framing \/ Pipe \/ FramerClosed
  <2>1. PICK call \in {"framing", "pipe", "closed"} : Call(call)
    BY <1>10 DEF Framing, Pipe, FramerClosed
  <2> QED
    BY <2>1, CallState DEF InternalCalls
<1>11. CASE Fail
  BY <1>11 DEF Fail, Open
<1> QED
  BY <1>1, <1>2, <1>3, <1>4, <1>5, <1>6, <1>7, <1>8, <1>9, <1>10, <1>11 DEF RouteStep

--------------------------------------------------------------------------------
(* What the response knows its route has declared. *)
Declared == {"transform", "raw", "size", "buffered", "streamed", "empty"}

(* What is set was declared by the route, or what is left of it. *)
Made ==
  /\ \A call \in Left \cap Declared : Makes(Current, call)
  /\ transform => Makes(Current, "transform")
  /\ raw => Makes(Current, "raw")
  /\ bodySize # 0 =>
       bodySize = Now.size /\ (Makes(Current, "buffered") \/ Makes(Current, "size"))

(* Made, once there is a route. *)
MadeInv == Current > 0 => Made

(* What is left of the plan has been declared if what a call is replaced by *)
(* declares nothing.                                                        *)
LEMMA MadeKept ==
  ASSUME IType, Made, routes' = routes,
         \A call \in Left' \cap Declared : call \in Left,
         transform' => (transform \/ "transform" \in Left),
         raw' => (raw \/ "raw" \in Left),
         bodySize' = bodySize \/ (bodySize' = Now.size /\ Left \cap {"buffered", "size"} # {})
  PROVE  Made'
<1>1. Current' = Current /\ Now' = Now /\ \A call : Makes(Current, call)' = Makes(Current, call)
  BY DEF Current, Now, Makes
<1>2. \A call \in Left' \cap Declared : Makes(Current, call)
  BY DEF Made
<1>3. transform' => Makes(Current, "transform")
  BY DEF Made, Declared
<1>4. raw' => Makes(Current, "raw")
  BY DEF Made, Declared
<1>5. bodySize' # 0 =>
        bodySize' = Now.size /\ (Makes(Current, "buffered") \/ Makes(Current, "size"))
  BY DEF Made, Declared
<1> QED
  BY <1>1, <1>2, <1>3, <1>4, <1>5 DEF Made

(* A call that returns, and one that is replaced by others. *)
LEMMA MadeReturns ==
  ASSUME IType, NEW call, Call(call), Returns
  PROVE  (\A c \in Left' \cap Declared : c \in Left) /\ call \in Left
BY CallState, LeftReturns, LeftHead DEF Returns

(* What a call is replaced by declares nothing. *)
LEMMA MadeReplaced ==
  ASSUME IType, NEW call, Call(call), NEW made \in Seq(Calls), plan' = made \o Tail(plan),
         \A i \in 1..Len(made) : made[i] \in Calls \ Declared
  PROVE  (\A c \in Left' \cap Declared : c \in Left) /\ call \in Left
<1>1. Left' \subseteq Left \cup (Calls \ Declared)
  BY CallState, LeftReplaced
<1> QED
  BY <1>1, CallState, LeftHead

(* Every step of a route keeps Made. *)
LEMMA MadeRouteStep == IType /\ Made /\ RouteStep => Made'
<1> SUFFICES ASSUME IType, Made, RouteStep PROVE Made'
  OBVIOUS
<1>1. CASE AddBodyTransform
  <2>1. Call("transform") /\ Returns /\ UNCHANGED <<raw, bodySize>>
    BY <1>1 DEF AddBodyTransform
  <2> QED
    BY <2>1, CallState, MadeReturns, MadeKept
<1>2. CASE AddRawBodyTransform
  <2>1. Call("raw") /\ Returns /\ UNCHANGED <<transform, bodySize>>
    BY <1>2 DEF AddRawBodyTransform
  <2> QED
    BY <2>1, CallState, MadeReturns, MadeKept
<1>3. CASE Header
  <2>1. PICK call : Call(call) /\ Returns /\ UNCHANGED <<transform, raw, bodySize>>
    BY <1>3 DEF Header
  <2> QED
    BY <2>1, CallState, MadeReturns, MadeKept
<1>4. CASE SetBodySize
  <2>1. Call("size") /\ Returns /\ UNCHANGED <<transform, raw>> /\ bodySize' = Now.size
    BY <1>4 DEF SetBodySize, Now
  <2> QED
    BY <2>1, CallState, MadeReturns, MadeKept
<1>5. CASE Status
  <2>1. Call("status") /\ UNCHANGED <<transform, raw, bodySize>>
        /\ plan' = [i \in 1..enqueued |-> "header"] \o Tail(plan)
    BY <1>5 DEF Status
  <2>2. PICK made \in Seq(Calls) : made = [i \in 1..enqueued |-> "header"]
    <3>1. [i \in 1..enqueued |-> "header"] \in Seq(Calls)
      BY DEF IType, TypeOK, Calls
    <3> QED
      BY <3>1
  <2>3. \A i \in 1..Len(made) : made[i] \in Calls \ Declared
    BY <2>2 DEF IType, TypeOK, Calls, Declared
  <2> QED
    BY <2>1, <2>2, <2>3, CallState, MadeReplaced, MadeKept
<1>6. CASE SendBody
  <2>1. /\ UNCHANGED <<transform, raw>>
        /\ plan' = <<"framing", "defaults", "endHeaders", "pipe", "closed">> \o Tail(plan)
    BY <1>6 DEF SendBody
  <2>c. PICK call : Call(call) /\ (bodySize' = bodySize \/ (bodySize' = Now.size /\ call = "buffered"))
    <3>1. CASE Call("buffered") /\ bodySize' = Now.size
      BY <3>1
    <3>2. CASE Call("streamed") /\ bodySize' = bodySize
      BY <3>2, Zenon
    <3> QED
      BY <1>6, <3>1, <3>2 DEF SendBody, Now
  <2>2. PICK made \in Seq(Calls) :
          made = <<"framing", "defaults", "endHeaders", "pipe", "closed">>
    <3>1. <<"framing", "defaults", "endHeaders", "pipe", "closed">> \in Seq(Calls)
      BY DEF Calls
    <3> QED
      BY <3>1
  <2>3. \A i \in 1..Len(made) : made[i] \in Calls \ Declared
    BY <2>2 DEF Calls, Declared
  <2>4. (\A c \in Left' \cap Declared : c \in Left) /\ call \in Left
    BY <2>1, <2>c, <2>2, <2>3, MadeReplaced
  <2> QED
    BY <2>1, <2>c, <2>4, CallState, MadeKept
<1>7. CASE SendEmptyBody
  <2>1. Call("empty") /\ UNCHANGED <<transform, raw, bodySize>>
          /\ plan' = <<"defaults", "endHeaders", "endBody">> \o Tail(plan)
    BY <1>7 DEF SendEmptyBody, response
  <2>2. PICK made \in Seq(Calls) : made = <<"defaults", "endHeaders", "endBody">>
    <3>1. <<"defaults", "endHeaders", "endBody">> \in Seq(Calls)
      BY DEF Calls
    <3> QED
      BY <3>1
  <2>3. \A i \in 1..Len(made) : made[i] \in Calls \ Declared
    BY <2>2 DEF Calls, Declared
  <2> QED
    BY <2>1, <2>2, <2>3, CallState, MadeReplaced, MadeKept
<1>8. CASE Framing \/ EndHeaders \/ EndBody \/ Pipe \/ FramerClosed
  <2>1. PICK call : Call(call) /\ Returns /\ UNCHANGED <<transform, raw, bodySize>>
    BY <1>8 DEF Framing, EndHeaders, EndBody, Pipe, FramerClosed, response
  <2> QED
    BY <2>1, CallState, MadeReturns, MadeKept
<1>9. CASE Fail
  <2>1. routes' = routes /\ UNCHANGED <<transform, raw, bodySize>> /\ plan' = <<>>
    BY <1>9 DEF Fail, response
  <2>2. Left' = {}
    BY <2>1 DEF Left
  <2> QED
    BY <2>1, <2>2, MadeKept
<1> QED
  BY <1>1, <1>2, <1>3, <1>4, <1>5, <1>6, <1>7, <1>8, <1>9 DEF RouteStep

(* A response that begins has declared what its route calls. *)
LEMMA MadeBegin ==
  ASSUME routes \in Seq(Route), Begin
  PROVE  MadeInv'
<1>1. PICK route \in Routes : routes' = Append(routes, route) /\ plan' = route.calls
  BY DEF Begin
<1>2. bodySize' = 0 /\ ~transform' /\ ~raw'
  BY DEF Begin
<1>3. route \in Route
  BY RoutesAssumption
<1>4. routes'[Current'] = route
  BY <1>1, <1>3 DEF Current
<1>5. \A call \in Left' : Makes(Current, call)'
  BY <1>1, <1>4 DEF Left, Makes
<1> QED
  BY <1>2, <1>5 DEF MadeInv, Made

(* And every other step. *)
LEMMA MadeNext == IType /\ MadeInv /\ [Next]_vars => MadeInv'
<1> SUFFICES ASSUME IType, MadeInv, [Next]_vars PROVE MadeInv'
  OBVIOUS
<1>1. CASE Begin
  BY <1>1, MadeBegin DEF IType, TypeOK
<1>2. CASE RouteStep
  <2>1. routes' = routes /\ Current' = Current
    <3>1. CASE Fail
      BY <3>1 DEF Fail, Current
    <3>2. CASE ~Fail
      <4>1. PICK call : Call(call)
        BY <1>2, <3>2 DEF RouteStep, AddBodyTransform, AddRawBodyTransform, Header, SetBodySize,
           Status, SendBody, SendEmptyBody, Framing, EndHeaders, EndBody, Pipe, FramerClosed
      <4> QED
        BY <4>1, CallState
    <3> QED
      BY <3>1, <3>2
  <2> QED
    BY <1>2, <2>1, MadeRouteStep DEF MadeInv
<1>3. CASE StreamStep \/ PeerCloses \/ UNCHANGED vars
  <2>1. UNCHANGED <<routes, plan, transform, raw, bodySize>>
    BY <1>3 DEF StreamStep, PeerCloses, vars, response, Read, SourceEnds, Encode, EncoderEnds,
       Flush, FramerCloses, FlushRaw, Streaming
  <2>2. Left' = Left /\ Current' = Current
    BY <2>1 DEF Left, Current
  <2> QED
    BY <2>1, <2>2, MadeKept DEF MadeInv
<1> QED
  BY <1>1, <1>2, <1>3 DEF Next, Step

--------------------------------------------------------------------------------
(* A response before its body, or without one. *)
Still == source = <<>> /\ encoder = <<>> /\ framer = <<>>

(* Where the client is while the headers are open. *)
Opened ==
  /\ state = "line" => Ahead.mode = "status" /\ Ahead.who < Current
  /\ state = "headers" =>
       /\ Ahead.mode = "headers" /\ Ahead.who = Current
       /\ Ahead.framing = "close" /\ Ahead.got = 0

(* Nothing of a body is on its way. *)
Unsent ==
  /\ Still /\ eof = "none" /\ ~chunked
  /\ Left \cap InternalCalls = {}
  /\ Opened
  /\ Ahead.mode # "lost" /\ Ahead.who <= Current

(* What is known of a client that began to read a response, or moved on. *)
LEMMA StartedIs ==
  ASSUME NEW who
  PROVE  /\ Started(who).mode = "headers" /\ Started(who).who = who
         /\ Started(who).framing = "close" /\ Started(who).got = 0
BY DEF Started, Fresh

(* A client that expects something else has what it had. *)
LEMMA ExpectIs ==
  ASSUME NEW c \in Clients, NEW mode
  PROVE  /\ Expect(c, mode).mode = mode /\ Expect(c, mode).who = c.who
         /\ Expect(c, mode).got = c.got /\ Expect(c, mode).left = c.left
         /\ Expect(c, mode).framing = c.framing
BY DEF Expect, Clients

(* A step of a route that has not sent a body. *)
LEMMA UnsentStep ==
  ASSUME IType, Open', RouteStep, Unsent, Current \in Responses
  PROVE  /\ Quietly \/ Begins \/ Sends \/ SendsNone \/ HeadersEnd \/ BodyEnds
         /\ UNCHANGED <<streams, routes, chunked, Current, Heads>>
         /\ plan \in Seq(Calls) /\ plan # <<>>
         /\ Head(plan) # "transform" => transform' = transform
         /\ ~Sends => Unsent'
<1>1. Head(plan) \notin InternalCalls
  <2>1. plan \in Seq(Calls) /\ plan # <<>>
    <3>1. ~Idle
      BY RouteStepBusy
    <3> QED
      BY <3>1 DEF Idle, IType, TypeOK
  <2> QED
    BY <2>1, LeftHead DEF Unsent
<1>2. Receptive
  BY DEF Unsent, Still, Opened, Receptive
<1>3. /\ Quietly \/ Begins \/ Sends \/ SendsNone \/ HeadersEnd \/ BodyEnds
      /\ UNCHANGED <<streams, routes, chunked, Current, Heads>>
      /\ plan # <<>>
      /\ Head(plan) # "transform" => transform' = transform
  BY <1>1, <1>2, PublicMoves
<1>4. plan \in Seq(Calls) /\ Current \in Nat /\ Ahead \in Clients
      /\ state \in {"line", "headers", "body", "finished"} /\ enqueued \in Nat
  BY AheadType DEF IType, TypeOK, Responses
<1>5. Still' /\ eof' = "none" /\ ~chunked'
  BY <1>3 DEF Unsent, Still, streams
<1>6. Current' = Current
  BY <1>3
<1>7. CASE Quietly
  <2>1. Left' \subseteq Left
    BY <1>3, <1>4, <1>7, LeftReturns DEF Quietly
  <2>2. state' = state /\ Ahead' = Ahead
    BY <1>7 DEF Quietly
  <2> QED
    BY <1>3, <1>4, <1>5, <1>6, <2>1, <2>2 DEF Unsent, Opened
<1>8. CASE Begins
  <2>1. [i \in 1..enqueued |-> "header"] \in Seq(Calls)
    BY <1>4 DEF Calls
  <2>2. PICK made \in Seq(Calls) : made = [i \in 1..enqueued |-> "header"]
    BY <2>1
  <2>3. \A i \in 1..Len(made) : made[i] \in {"header"}
    BY <1>4, <2>2
  <2>4. plan' = made \o Tail(plan)
    BY <1>8, <2>2 DEF Begins
  <2>5. Left' \subseteq Left \cup {"header"}
    BY <1>3, <1>4, <2>3, <2>4, LeftReplaced
  <2>6. state' = "headers" /\ Ahead' = Started(Current)
    BY <1>8 DEF Begins
  <2>7. /\ Ahead'.mode = "headers" /\ Ahead'.who = Current
        /\ Ahead'.framing = "close" /\ Ahead'.got = 0
    BY <2>6, StartedIs
  <2> QED
    BY <1>3, <1>4, <1>5, <1>6, <2>5, <2>6, <2>7 DEF Unsent, Opened, InternalCalls
<1>9. CASE SendsNone
  <2>1. <<"defaults", "endHeaders", "endBody">> \in Seq(Calls)
    BY DEF Calls
  <2>2. PICK made \in Seq(Calls) : made = <<"defaults", "endHeaders", "endBody">>
    BY <2>1
  <2>3. \A i \in 1..Len(made) : made[i] \in {"defaults", "endHeaders", "endBody"}
    BY <2>2
  <2>4. plan' = made \o Tail(plan)
    BY <1>9, <2>2 DEF SendsNone
  <2>5. Left' \subseteq Left \cup {"defaults", "endHeaders", "endBody"}
    BY <1>3, <1>4, <2>3, <2>4, LeftReplaced
  <2>6. state' = state /\ Ahead' = Ahead
    BY <1>9 DEF SendsNone
  <2> QED
    BY <1>3, <1>4, <1>5, <1>6, <2>5, <2>6 DEF Unsent, Opened, InternalCalls
<1>10. CASE HeadersEnd
  <2>1. Left' \subseteq Left
    BY <1>3, <1>4, <1>10, LeftReturns DEF HeadersEnd
  <2>2. state = "headers" /\ state' = "body" /\ Ahead.framing = "close"
    BY <1>10 DEF HeadersEnd, Unsent, Opened
  <2>3. Ahead' = Expect(Ahead, "status") \/ Ahead' = Expect(Ahead, "close")
    BY <1>10, <2>2 DEF HeadersEnd
  <2>4. Ahead'.mode # "lost" /\ Ahead'.who = Ahead.who
    BY <1>4, <2>3, ExpectIs
  <2> QED
    BY <1>3, <1>4, <1>5, <1>6, <2>1, <2>2, <2>4 DEF Unsent, Opened
<1>11. CASE BodyEnds
  <2>1. Left' \subseteq Left
    BY <1>3, <1>4, <1>11, LeftReturns DEF BodyEnds
  <2>2. state' = "finished" /\ Ahead' = Ahead
    BY <1>11 DEF BodyEnds
  <2> QED
    BY <1>3, <1>4, <1>5, <1>6, <2>1, <2>2 DEF Unsent, Opened
<1> QED
  BY <1>3, <1>4, <1>7, <1>8, <1>9, <1>10, <1>11

--------------------------------------------------------------------------------
(* The answer to HEAD has no body. *)
HeadInv ==
  /\ Unsent
  /\ state \in {"line", "headers"} => Left \cap {"empty", "endHeaders"} # {}
  /\ state \in {"body", "finished"} => Ahead.mode = "status" /\ Ahead.got = 0

(* HeadInv is kept: a response to HEAD ends with its headers. *)
LEMMA HeadStep ==
  ASSUME IType, Made, Open', RouteStep, HeadInv, Current \in Responses, Now.head, Delimited(Current)
  PROVE  HeadInv'
<1>1. Unsent
  BY DEF HeadInv
<1>2. /\ Quietly \/ Begins \/ Sends \/ SendsNone \/ HeadersEnd \/ BodyEnds
      /\ UNCHANGED <<streams, routes, chunked, Current, Heads>>
      /\ plan \in Seq(Calls) /\ plan # <<>>
      /\ ~Sends => Unsent'
  BY <1>1, UnsentStep
<1>3. Left \cap {"buffered", "streamed"} = {}
  BY DEF Made, Delimited, SendsBody, Declared, Now
<1>4. ~Sends
  BY <1>2, <1>3, LeftHead DEF Sends
<1>5. Current \in Heads
  BY DEF Heads, Now, IType, TypeOK, Responses
<1>6. Unsent'
  BY <1>2, <1>4
<1>7. CASE Quietly
  <2>1. Left = {Head(plan)} \cup Left'
    BY <1>2, <1>7, LeftReturns DEF Quietly
  <2>2. Head(plan) \notin {"empty", "endHeaders"} /\ state' = state /\ Ahead' = Ahead
    BY <1>7 DEF Quietly
  <2> QED
    BY <1>6, <2>1, <2>2 DEF HeadInv
<1>8. CASE Begins
  <2>1. [i \in 1..enqueued |-> "header"] \in Seq(Calls)
    BY DEF Calls, IType, TypeOK
  <2>2. PICK made \in Seq(Calls) : made = [i \in 1..enqueued |-> "header"]
    BY <2>1
  <2>3. \A i \in 1..Len(made) : made[i] \in {"header"}
    BY <2>2 DEF IType, TypeOK
  <2>4. plan' = made \o Tail(plan)
    BY <1>8, <2>2 DEF Begins
  <2>5. Left \subseteq {Head(plan)} \cup Left'
    BY <1>2, <2>3, <2>4, LeftReplaced
  <2>6. Head(plan) = "status" /\ state' = "headers" /\ state = "line"
    BY <1>8 DEF Begins
  <2> QED
    BY <1>6, <2>5, <2>6 DEF HeadInv
<1>9. CASE SendsNone
  <2>1. <<"defaults", "endHeaders", "endBody">> \in Seq(Calls)
    BY DEF Calls
  <2>2. PICK made \in Seq(Calls) : made = <<"defaults", "endHeaders", "endBody">>
    BY <2>1
  <2>3. plan' = made \o Tail(plan) /\ made[2] = "endHeaders" /\ 2 \in 1..Len(made)
    BY <1>9, <2>2 DEF SendsNone
  <2>4. \A i \in 1..Len(made) : made[i] \in {"defaults", "endHeaders", "endBody"}
    BY <2>2
  <2>5. "endHeaders" \in Left'
    <3>1. \A i \in 1..Len(made) : made[i] \in Left'
      BY <1>2, <2>3, <2>4, LeftReplaced, Zenon
    <3> QED
      BY <2>3, <3>1
  <2>6. state' = state /\ Ahead' = Ahead
    BY <1>9 DEF SendsNone
  <2> QED
    BY <1>6, <2>5, <2>6 DEF HeadInv
<1>10. CASE HeadersEnd
  <2>1. state' = "body" /\ Ahead' = Expect(Ahead, "status") /\ Ahead.got = 0
    BY <1>1, <1>5, <1>10 DEF HeadersEnd, Unsent, Opened
  <2>2. Ahead'.mode = "status" /\ Ahead'.got = 0
    BY <2>1, AheadType, ExpectIs
  <2> QED
    BY <1>6, <2>1, <2>2 DEF HeadInv
<1>11. CASE BodyEnds
  <2>1. state = "body" /\ state' = "finished" /\ Ahead' = Ahead
    BY <1>11 DEF BodyEnds
  <2> QED
    BY <1>6, <2>1 DEF HeadInv
<1> QED
  BY <1>2, <1>4, <1>7, <1>8, <1>9, <1>10, <1>11

--------------------------------------------------------------------------------
(* The methods that send a body: what they have left to call. *)
SendPlan == <<"framing", "defaults", "endHeaders", "pipe", "closed">>

(* The plan is in the k-th of them, and the route goes on after the last. *)
At(k) ==
  /\ Len(plan) >= 6 - k
  /\ \A i \in 1..(6 - k) : plan[i] = SendPlan[i + k - 1]
  /\ \A i \in (7 - k)..Len(plan) : plan[i] \notin InternalCalls

(* The call that is next, and the one after it. *)
LEMMA AtHead ==
  ASSUME IType, NEW k \in 1..5, At(k)
  PROVE  plan # <<>> /\ Head(plan) = SendPlan[k]
<1>1. plan \in Seq(Calls)
  BY DEF IType, TypeOK
<1>2. Len(plan) >= 1 /\ plan[1] = SendPlan[1 + k - 1]
  BY <1>1 DEF At
<1> QED
  BY <1>1, <1>2

(* The calls that a method makes come one after the other. *)
LEMMA AtNext ==
  ASSUME IType, NEW k \in 1..4, At(k), plan' = Tail(plan)
  PROVE  At(k + 1)'
<1>1. /\ plan \in Seq(Calls) /\ plan # <<>> /\ Len(plan) \in Nat
      /\ Len(plan') = Len(plan) - 1
      /\ \A i \in 1..Len(plan') : plan'[i] = plan[i + 1]
  BY AtHead DEF IType, TypeOK
<1>2. Len(plan) >= 6 - k
  BY DEF At
<1>3. Len(plan') >= 6 - (k + 1)
  BY <1>1, <1>2
<1>4. ASSUME NEW i \in 1..(6 - (k + 1))
      PROVE  plan'[i] = SendPlan[i + (k + 1) - 1]
  <2>1. i + 1 \in 1..(6 - k) /\ i \in 1..Len(plan')
    BY <1>1, <1>2
  <2>2. plan[i + 1] = SendPlan[(i + 1) + k - 1]
    BY <2>1 DEF At
  <2>3. (i + 1) + k - 1 = i + (k + 1) - 1
    OBVIOUS
  <2> QED
    BY <1>1, <2>1, <2>2, <2>3
<1>5. ASSUME NEW i \in (7 - (k + 1))..Len(plan')
      PROVE  plan'[i] \notin InternalCalls
  <2>1. i + 1 \in (7 - k)..Len(plan) /\ i \in 1..Len(plan')
    BY <1>1
  <2>2. plan[i + 1] \notin InternalCalls
    BY <2>1 DEF At
  <2> QED
    BY <1>1, <2>1, <2>2
<1> QED
  BY <1>3, <1>4, <1>5 DEF At

(* The plan of a send ends with what only the route calls. *)
LEMMA AtEnd ==
  ASSUME IType, At(5), plan' = Tail(plan)
  PROVE  Left' \cap InternalCalls = {}
<1>1. /\ plan \in Seq(Calls) /\ plan # <<>> /\ Len(plan) \in Nat
      /\ Len(plan') = Len(plan) - 1
      /\ \A i \in 1..Len(plan') : plan'[i] = plan[i + 1]
  BY AtHead DEF IType, TypeOK
<1>2. ASSUME NEW i \in 1..Len(plan')
      PROVE  plan'[i] \notin InternalCalls
  <2>1. i + 1 \in 2..Len(plan)
    BY <1>1
  <2>2. plan[i + 1] \notin InternalCalls
    BY <2>1 DEF At
  <2> QED
    BY <1>1, <2>2
<1> QED
  BY <1>2 DEF Left

(* The plan of a send, at its start. *)
LEMMA AtStart ==
  ASSUME IType, plan # <<>>, Left \cap InternalCalls = {},
         plan' = <<"framing", "defaults", "endHeaders", "pipe", "closed">> \o Tail(plan)
  PROVE  At(1)'
<1>1. PICK rest \in Seq(Calls) : rest = Tail(plan)
  <2>1. Tail(plan) \in Seq(Calls)
    BY DEF IType, TypeOK
  <2> QED
    BY <2>1
<1>2. \A i \in 1..Len(rest) : rest[i] \notin InternalCalls
  BY <1>1, LeftHead DEF IType, TypeOK
<1>3. /\ Len(rest) \in Nat /\ Len(plan') = 5 + Len(rest)
      /\ plan'[1] = "framing" /\ plan'[2] = "defaults" /\ plan'[3] = "endHeaders"
      /\ plan'[4] = "pipe" /\ plan'[5] = "closed"
      /\ \A i \in 6..Len(plan') : plan'[i] = rest[i - 5]
  <2>1. SendPlan \in Seq(Calls) /\ Len(SendPlan) = 5
    BY DEF SendPlan, Calls
  <2>2. PICK made \in Seq(Calls) : made = SendPlan
    BY <2>1
  <2>3. plan' = made \o rest /\ Len(made) = 5
    BY <1>1, <2>1, <2>2 DEF SendPlan
  <2>4. /\ Len(rest) \in Nat /\ Len(plan') = 5 + Len(rest)
        /\ \A i \in 1..5 : plan'[i] = made[i]
        /\ \A i \in 1..Len(rest) : plan'[5 + i] = rest[i]
    <3>1. \A i \in 1..Len(made) : (made \o rest)[i] = made[i]
      BY <1>1, <2>3
    <3>2. /\ Len(made \o rest) = Len(made) + Len(rest) /\ Len(rest) \in Nat
          /\ \A i \in 1..Len(rest) : (made \o rest)[Len(made) + i] = rest[i]
      BY <1>1, <2>3
    <3> QED
      BY <2>3, <3>1, <3>2
  <2>5. ASSUME NEW i \in 6..Len(plan')
        PROVE  plan'[i] = rest[i - 5]
    <3>1. i - 5 \in 1..Len(rest) /\ 5 + (i - 5) = i
      BY <2>4
    <3> QED
      BY <2>4, <3>1
  <2>6. /\ made[1] = "framing" /\ made[2] = "defaults" /\ made[3] = "endHeaders"
        /\ made[4] = "pipe" /\ made[5] = "closed"
    BY <2>2 DEF SendPlan
  <2> QED
    BY <2>4, <2>5, <2>6
<1>4. \A i \in 1..5 : plan'[i] = SendPlan[i + 1 - 1]
  BY <1>3 DEF SendPlan
<1>5. \A i \in 6..Len(plan') : plan'[i] \notin InternalCalls
  <2> SUFFICES ASSUME NEW i \in 6..Len(plan') PROVE plan'[i] \notin InternalCalls
    OBVIOUS
  <2>1. i - 5 \in 1..Len(rest)
    BY <1>3
  <2> QED
    BY <1>2, <1>3, <2>1
<1> QED
  BY <1>3, <1>4, <1>5 DEF At

(* Which step a call is. *)
LEMMA MoveOf ==
  ASSUME Open', RouteStep
  PROVE  /\ Head(plan) = "framing" => Framing
         /\ Head(plan) = "defaults" => Header /\ Call("defaults")
         /\ Head(plan) = "endHeaders" => EndHeaders
         /\ Head(plan) = "pipe" => Pipe
         /\ Head(plan) = "closed" => FramerClosed
BY Zenon DEF RouteStep, AddBodyTransform, AddRawBodyTransform, Header, SetBodySize, Call,
   Status, SendBody, SendEmptyBody, Framing, EndHeaders, EndBody, Pipe, FramerClosed, Fail, Open

--------------------------------------------------------------------------------
(* A body: its route has not sent it yet, or its headers are being written, *)
(* or it flows, or all of it is out.                                        *)
HasEmptyChunk == \E i \in 1..Len(Now.chunks) : Now.chunks[i] = 0

(* A body transform will be added before the body. *)
TransformAhead(p) == \E i \in 1..Len(p) : p[i] = "transform" /\ InTime(p, i)

(* The route has not sent its body yet. *)
BeforeBody ==
  /\ Unsent
  /\ Left \cap {"buffered", "streamed"} # {}
  /\ HasEmptyChunk => transform \/ TransformAhead(plan)

(* The length of the body was sent and is what is to come. *)
Known ==
  /\ ~transform /\ ~chunked
  /\ Ahead.framing = "length" /\ Ahead.left = Total(Now.chunks) /\ Ahead.left # 0

(* What holds throughout the headers of a body. *)
Heading ==
  /\ Still /\ eof = "none"
  /\ HasEmptyChunk => transform
  /\ Ahead.who = Current /\ Ahead.got = 0

(* One phase for each call of the send, up to the wait. *)
AtFraming ==
  /\ Heading /\ At(1) /\ state = "headers" /\ ~chunked
  /\ Ahead.mode = "headers" /\ Ahead.framing = "close"

AtDefaults ==
  /\ Heading /\ At(2) /\ state = "headers"
  /\ Ahead.mode = "headers"
  /\ Known \/ (chunked /\ Ahead.framing = "close")

AtEndHeaders ==
  /\ Heading /\ At(3) /\ state = "headers"
  /\ Ahead.mode = "headers"
  /\ Known \/ (chunked /\ Ahead.framing = "chunked")

AtPipe ==
  /\ Heading /\ At(4) /\ state = "body"
  /\ (Known /\ Ahead.mode = "length") \/ (chunked /\ Ahead.mode = "chunked")

(* What the client will have got of the body. *)
AllUnits == Total(Now.chunks) + (IF transform THEN 1 ELSE 0)

(* The source is read: what the client has and what the streams hold is the
   body, framed as the headers said. *)
Reading ==
  /\ eof = "none"
  /\ Ahead.got + Total(source) + Total(encoder) = Total(Now.chunks)
  /\ \/ /\ chunked /\ Ahead.mode = "chunked"
        /\ (\E i \in 1..Len(source) : source[i] = 0) => transform
     \/ /\ ~chunked /\ ~transform /\ encoder = <<>>
        /\ \/ Total(source) = 0 /\ Ahead.mode = "status"
           \/ Total(source) # 0 /\ Ahead.mode = "length" /\ Ahead.left = Total(source)

(* The source ended, and the body transform still holds some of it. *)
Encoding ==
  /\ eof = "encoder" /\ transform /\ chunked /\ source = <<>>
  /\ Ahead.mode = "chunked" /\ Ahead.got + Total(encoder) = AllUnits

(* The framer has the end of the body. *)
Ending ==
  /\ eof \in {"framer", "closed"} /\ source = <<>> /\ encoder = <<>> /\ state = "finished"
  /\ Ahead.mode = "status" /\ Ahead.got = AllUnits
  /\ eof = "closed" => framer = <<>>

(* The body flows. *)
Flows ==
  /\ At(5)
  /\ Ahead.who = Current
  /\ \A i \in 1..Len(encoder) : encoder[i] # 0
  /\ transform \/ encoder = <<>>
  /\ Reading \/ Encoding \/ Ending

(* The send resolved: the client has the body, and nothing is on its way. *)
Done ==
  /\ Left \cap InternalCalls = {} /\ Still /\ state = "finished"
  /\ Ahead.mode = "status" /\ Ahead.got = AllUnits /\ Ahead.who = Current

(* A response with a body is in one of these phases. *)
BodyInv ==
  BeforeBody \/ AtFraming \/ AtDefaults \/ AtEndHeaders \/ AtPipe \/ Flows \/ Done

(* What is known of a body of a response that is delimited. *)
LEMMA BodyFacts ==
  ASSUME IType, Made, Current \in Responses, ~Now.head, Delimited(Current)
  PROVE  /\ ~raw /\ "raw" \notin Left /\ "empty" \notin Left
         /\ bodySize # 0 => bodySize = Total(Now.chunks)
         /\ Current \notin Heads
         /\ Now.chunks \in Seq(Nat) /\ Total(Now.chunks) \in Nat
<1>1. Now.chunks \in Seq(Nat)
  BY CurrentRoute DEF Now
<1>2. Total(Now.chunks) \in Nat
  BY <1>1, TotalNat
<1>3. ~Makes(Current, "raw") /\ ~Makes(Current, "empty")
      /\ ((Makes(Current, "buffered") \/ Makes(Current, "size")) => Now.size = Total(Now.chunks))
  BY DEF Delimited, Now
<1>4. Current \notin Heads
  BY DEF Heads, Now
<1> QED
  BY <1>1, <1>2, <1>3, <1>4 DEF Made, Declared

(* TransformAhead, when the plan loses its first call or is put after others. *)
LEMMA TransformTail ==
  ASSUME NEW p \in Seq(Calls), p # <<>>, TransformAhead(p)
  PROVE  Head(p) \notin Ends /\ (Head(p) = "transform" \/ TransformAhead(Tail(p)))
<1>1. PICK i \in 1..Len(p) : p[i] = "transform" /\ \A j \in 1..i : p[j] \notin Ends
  BY DEF TransformAhead, InTime
<1>2. Head(p) = p[1] /\ 1 \in 1..i /\ Len(p) \in Nat
  OBVIOUS
<1>3. CASE i = 1
  BY <1>1, <1>2, <1>3
<1>4. CASE i # 1
  <2>1. PICK q \in Seq(Calls) : q = Tail(p)
    <3>1. Tail(p) \in Seq(Calls)
      OBVIOUS
    <3> QED
      BY <3>1
  <2>2. Len(q) = Len(p) - 1 /\ \A j \in 1..Len(q) : q[j] = p[j + 1]
    BY <2>1
  <2>3. i - 1 \in 1..Len(q) /\ (i - 1) + 1 = i
    BY <1>2, <1>4, <2>2
  <2>4. q[i - 1] = "transform"
    BY <1>1, <2>2, <2>3
  <2>5. ASSUME NEW j \in 1..(i - 1)
        PROVE  q[j] \notin Ends
    <3>1. j \in 1..Len(q) /\ j + 1 \in 1..i
      BY <2>3
    <3> QED
      BY <1>1, <2>2, <3>1
  <2>6. TransformAhead(q)
    BY <2>3, <2>4, <2>5 DEF TransformAhead, InTime
  <2> QED
    BY <1>1, <1>2, <2>1, <2>6
<1> QED
  BY <1>3, <1>4

(* A transform that comes in time still does when calls are put ahead of it *)
(* that end nothing.                                                        *)
LEMMA TransformPut ==
  ASSUME NEW made \in Seq(Calls), NEW rest \in Seq(Calls), TransformAhead(rest),
         \A i \in 1..Len(made) : made[i] \notin Ends
  PROVE  TransformAhead(made \o rest)
<1>1. PICK i \in 1..Len(rest) : rest[i] = "transform" /\ \A j \in 1..i : rest[j] \notin Ends
  BY DEF TransformAhead, InTime
<1>2. PICK q \in Seq(Calls) : q = made \o rest
  <2>1. made \o rest \in Seq(Calls)
    OBVIOUS
  <2> QED
    BY <2>1
<1>3. /\ Len(made) \in Nat /\ Len(rest) \in Nat /\ Len(q) = Len(made) + Len(rest)
      /\ \A j \in 1..Len(made) : q[j] = made[j]
      /\ \A j \in 1..Len(rest) : q[Len(made) + j] = rest[j]
  BY <1>2
<1>4. PICK k \in 1..Len(q) : k = Len(made) + i
  <2>1. Len(made) + i \in 1..Len(q)
    BY <1>3
  <2> QED
    BY <2>1
<1>5. q[k] = "transform"
  BY <1>1, <1>3, <1>4
<1>6. ASSUME NEW j \in 1..k
      PROVE  q[j] \notin Ends
  <2>1. CASE j \in 1..Len(made)
    BY <1>3, <2>1
  <2>2. CASE j \notin 1..Len(made)
    <3>1. j - Len(made) \in 1..i /\ j - Len(made) \in 1..Len(rest) /\ Len(made) + (j - Len(made)) = j
      BY <1>3, <1>4, <2>2
    <3> QED
      BY <1>1, <1>3, <3>1
  <2> QED
    BY <2>1, <2>2
<1>7. TransformAhead(q)
  BY <1>5, <1>6 DEF TransformAhead, InTime
<1> QED
  BY <1>2, <1>7

(* The call that sends the body. *)
LEMMA SendStarts ==
  ASSUME IType, Unsent, Sends, plan # <<>>, UNCHANGED <<streams, routes, chunked>>,
         HasEmptyChunk => transform'
  PROVE  AtFraming'
<1>1. Current' = Current /\ HasEmptyChunk' = HasEmptyChunk
  BY DEF HasEmptyChunk, Now, Current
<1>2. state = "headers" /\ state' = "headers" /\ Ahead' = Ahead
  BY DEF Sends
<1>3. At(1)'
  BY AtStart DEF Sends, Unsent
<1>4. Heading'
  BY <1>1, <1>2 DEF Heading, Unsent, Still, Opened, streams
<1> QED
  BY <1>1, <1>2, <1>3, <1>4 DEF AtFraming, Unsent, Opened

(* The phase before the body ends with the call that sends it. *)
LEMMA BeforeStep ==
  ASSUME IType, Made, Open', RouteStep, BeforeBody, Current \in Responses, ~Now.head,
         Delimited(Current)
  PROVE  BeforeBody' \/ AtFraming'
<1>1. Unsent
  BY DEF BeforeBody
<1>2. /\ Quietly \/ Begins \/ Sends \/ SendsNone \/ HeadersEnd \/ BodyEnds
      /\ UNCHANGED <<streams, routes, chunked, Current, Heads>>
      /\ plan \in Seq(Calls) /\ plan # <<>>
      /\ Head(plan) # "transform" => transform' = transform
      /\ ~Sends => Unsent'
  BY <1>1, UnsentStep
<1>3. HasEmptyChunk' = HasEmptyChunk
  BY <1>2 DEF HasEmptyChunk, Now
<1>4. transform \in BOOLEAN /\ (HasEmptyChunk => transform \/ TransformAhead(plan))
  BY DEF BeforeBody, IType, TypeOK
<1>5. ASSUME plan' = Tail(plan), Head(plan) = "transform" => transform' = TRUE
      PROVE  HasEmptyChunk => transform' \/ TransformAhead(plan')
  BY <1>2, <1>4, <1>5, TransformTail
<1>6. ASSUME Head(plan) \in Ends
      PROVE  HasEmptyChunk => transform'
  <2>1. Head(plan) # "transform"
    BY <1>6 DEF Ends
  <2> QED
    BY <1>2, <1>4, <1>6, <2>1, TransformTail
<1>7. ASSUME plan' = Tail(plan), Head(plan) \notin {"buffered", "streamed"}
      PROVE  Left' \cap {"buffered", "streamed"} # {}
  <2>1. Left = {Head(plan)} \cup Left'
    BY <1>2, <1>7, LeftReturns
  <2> QED
    BY <1>7, <2>1 DEF BeforeBody
<1>8. CASE Quietly
  <2>1. plan' = Tail(plan) /\ (Head(plan) = "transform" => transform' = TRUE)
        /\ Head(plan) \notin {"buffered", "streamed"} /\ ~Sends
    BY <1>8 DEF Quietly, Sends
  <2>2. HasEmptyChunk => transform' \/ TransformAhead(plan')
    BY <1>5, <2>1
  <2>3. Left' \cap {"buffered", "streamed"} # {}
    BY <1>7, <2>1
  <2> QED
    BY <1>2, <1>3, <2>1, <2>2, <2>3 DEF BeforeBody
<1>9. CASE Begins
  <2>1. [i \in 1..enqueued |-> "header"] \in Seq(Calls)
    BY DEF Calls, IType, TypeOK
  <2>2. PICK made \in Seq(Calls) : made = [i \in 1..enqueued |-> "header"]
    BY <2>1
  <2>3. \A i \in 1..Len(made) : made[i] \in {"header"}
    BY <2>2 DEF IType, TypeOK
  <2>4. plan' = made \o Tail(plan) /\ Head(plan) = "status"
    BY <1>9, <2>2 DEF Begins
  <2>5. Left \subseteq {Head(plan)} \cup Left'
    BY <1>2, <2>3, <2>4, LeftReplaced
  <2>6. HasEmptyChunk => transform' \/ TransformAhead(plan')
    <3>1. Tail(plan) \in Seq(Calls) /\ transform' = transform
      BY <1>2, <2>4
    <3>2. TransformAhead(plan) => TransformAhead(Tail(plan))
      BY <1>2, <2>4, TransformTail
    <3>3. \A i \in 1..Len(made) : made[i] \notin Ends
      BY <2>3 DEF Ends
    <3>4. TransformAhead(Tail(plan)) => TransformAhead(made \o Tail(plan))
      BY <3>1, <3>3, TransformPut
    <3> QED
      BY <1>4, <2>4, <3>1, <3>2, <3>4
  <2>7. Left' \cap {"buffered", "streamed"} # {}
    BY <2>4, <2>5 DEF BeforeBody
  <2>8. Unsent'
    BY <1>2, <2>4 DEF Sends
  <2> QED
    BY <1>3, <2>6, <2>7, <2>8 DEF BeforeBody
<1>10. CASE Sends
  <2>1. Head(plan) \in Ends
    BY <1>10 DEF Sends, Ends
  <2> QED
    BY <1>1, <1>2, <1>6, <1>10, <2>1, SendStarts
<1>11. CASE SendsNone
  <2>1. "empty" \in Left
    BY <1>2, <1>11, LeftHead DEF SendsNone
  <2> QED
    BY <2>1, BodyFacts
<1>12. CASE HeadersEnd \/ BodyEnds
  <2>1. plan' = Tail(plan) /\ Head(plan) \in {"endHeaders", "endBody"} /\ ~Sends
    BY <1>12 DEF HeadersEnd, BodyEnds, Sends
  <2>2. HasEmptyChunk => transform' \/ TransformAhead(plan')
    BY <1>5, <2>1
  <2>3. Left' \cap {"buffered", "streamed"} # {}
    BY <1>7, <2>1
  <2> QED
    BY <1>2, <1>3, <2>1, <2>2, <2>3 DEF BeforeBody
<1> QED
  BY <1>2, <1>8, <1>9, <1>10, <1>11, <1>12

(* The plan of a send, call by call. *)
LEMMA AtAll ==
  ASSUME IType
  PROVE  /\ At(1) => plan # <<>> /\ Head(plan) = "framing" /\ (plan' = Tail(plan) => At(2)')
         /\ At(2) => plan # <<>> /\ Head(plan) = "defaults" /\ (plan' = Tail(plan) => At(3)')
         /\ At(3) => plan # <<>> /\ Head(plan) = "endHeaders" /\ (plan' = Tail(plan) => At(4)')
         /\ At(4) => plan # <<>> /\ Head(plan) = "pipe" /\ (plan' = Tail(plan) => At(5)')
         /\ At(5) => plan # <<>> /\ Head(plan) = "closed"
<1>1. /\ SendPlan[1] = "framing" /\ SendPlan[2] = "defaults" /\ SendPlan[3] = "endHeaders"
      /\ SendPlan[4] = "pipe" /\ SendPlan[5] = "closed"
  BY DEF SendPlan
<1>2. ASSUME At(1)
      PROVE  plan # <<>> /\ Head(plan) = SendPlan[1] /\ (plan' = Tail(plan) => At(1 + 1)')
  <2>1. 1 \in 1..5 /\ 1 \in 1..4
    OBVIOUS
  <2> QED
    BY <1>2, <2>1, AtHead, AtNext
<1>3. ASSUME At(2)
      PROVE  plan # <<>> /\ Head(plan) = SendPlan[2] /\ (plan' = Tail(plan) => At(2 + 1)')
  <2>1. 2 \in 1..5 /\ 2 \in 1..4
    OBVIOUS
  <2> QED
    BY <1>3, <2>1, AtHead, AtNext
<1>4. ASSUME At(3)
      PROVE  plan # <<>> /\ Head(plan) = SendPlan[3] /\ (plan' = Tail(plan) => At(3 + 1)')
  <2>1. 3 \in 1..5 /\ 3 \in 1..4
    OBVIOUS
  <2> QED
    BY <1>4, <2>1, AtHead, AtNext
<1>5. ASSUME At(4)
      PROVE  plan # <<>> /\ Head(plan) = SendPlan[4] /\ (plan' = Tail(plan) => At(4 + 1)')
  <2>1. 4 \in 1..5 /\ 4 \in 1..4
    OBVIOUS
  <2> QED
    BY <1>5, <2>1, AtHead, AtNext
<1>6. ASSUME At(5)
      PROVE  plan # <<>> /\ Head(plan) = SendPlan[5]
  <2>1. 5 \in 1..5
    OBVIOUS
  <2> QED
    BY <1>6, <2>1, AtHead
<1>7. 1 + 1 = 2 /\ 2 + 1 = 3 /\ 3 + 1 = 4 /\ 4 + 1 = 5
  OBVIOUS
<1> QED
  BY <1>1, <1>2, <1>3, <1>4, <1>5, <1>6, <1>7

(* What a step of a route sends of what the client that is ahead reads. *)
LEMMA CallAhead ==
  ASSUME IType, NEW call, Call(call), framer' = framer, framer = <<>>
  PROVE  /\ Writes(call) = <<>> => Ahead' = Ahead
         /\ \A p \in Parts : Writes(call) = <<p>> => Ahead' = Receive(Ahead, Says(p), Heads)
         /\ \A p, q \in Parts : Writes(call) = <<p, q>> =>
              Ahead' = Receive(Receive(Ahead, Says(p), Heads), Says(q), Heads)
<1>1. Current \in Responses /\ routes' = routes
  BY CallState
<1>2. \A p \in Parts : Says(p) \in AnyPiece
  BY <1>1, SaysType
<1>3. ASSUME Writes(call) = <<>>
      PROVE  Ahead' = Ahead
  BY <1>1, <1>3, CallSends, AheadSame
<1>4. ASSUME NEW p \in Parts, Writes(call) = <<p>>
      PROVE  Ahead' = Receive(Ahead, Says(p), Heads)
  <2>1. wire' = Append(wire, Says(p))
    BY <1>4, CallSends
  <2> QED
    BY <1>1, <1>2, <2>1, AheadOne
<1>5. ASSUME NEW p \in Parts, NEW q \in Parts, Writes(call) = <<p, q>>
      PROVE  Ahead' = Receive(Receive(Ahead, Says(p), Heads), Says(q), Heads)
  <2>1. wire' = Append(Append(wire, Says(p)), Says(q))
    BY <1>5, CallSends
  <2> QED
    BY <1>1, <1>2, <2>1, AheadTwo
<1> QED
  BY <1>3, <1>4, <1>5

(* Content-Length, or that the body will be chunked. *)
LEMMA FramingStep ==
  ASSUME IType, Open', RouteStep, AtFraming, Current \in Responses,
         bodySize # 0 => bodySize = Total(Now.chunks)
  PROVE  AtDefaults'
<1>1. plan # <<>> /\ Head(plan) = "framing" /\ (plan' = Tail(plan) => At(2)')
  BY AtAll DEF AtFraming
<1>2. Framing
  BY <1>1, MoveOf
<1>3. /\ Call("framing") /\ chunked' = ShouldUseChunking /\ plan' = Tail(plan)
      /\ state' = state /\ bodySize' = bodySize /\ transform' = transform
      /\ source' = source /\ encoder' = encoder /\ framer' = framer /\ eof' = eof
  BY <1>2 DEF Framing, Returns, streams
<1>4. At(2)'
  BY <1>1, <1>3
<1>5. Current' = Current /\ Now' = Now /\ HasEmptyChunk' = HasEmptyChunk
  BY <1>3, CallState DEF Now, HasEmptyChunk
<1>6. /\ Still /\ eof = "none" /\ (HasEmptyChunk => transform) /\ framer = <<>>
      /\ Ahead.who = Current /\ Ahead.got = 0 /\ Ahead \in Clients
      /\ Ahead.mode = "headers" /\ Ahead.framing = "close" /\ state = "headers"
  BY AheadType DEF AtFraming, Heading, Still
<1>7. Still' /\ eof' = "none" /\ (HasEmptyChunk' => transform')
  BY <1>3, <1>5, <1>6 DEF Still
<1>8. CASE ShouldUseChunking
  <2>1. Writes("framing") = <<>> /\ chunked'
    BY <1>3, <1>8 DEF Writes
  <2>2. Ahead' = Ahead
    BY <1>3, <1>6, <2>1, CallAhead
  <2> QED
    BY <1>3, <1>4, <1>5, <1>6, <1>7, <2>1, <2>2 DEF AtDefaults, Heading
<1>9. CASE ~ShouldUseChunking
  <2>1. Writes("framing") = <<"length">> /\ ~chunked' /\ "length" \in Parts
    BY <1>3, <1>9 DEF Writes, Parts
  <2>2. Ahead' = Receive(Ahead, Says("length"), Heads)
    BY <1>3, <1>6, <2>1, CallAhead
  <2>3. bodySize # 0 /\ ~transform
    BY <1>9 DEF ShouldUseChunking
  <2>4. Says("length").part = "length" /\ Says("length").n = bodySize
    BY DEF Says
  <2>5. Ahead' = [Ahead EXCEPT !.framing = "length", !.left = bodySize]
    <3>1. Receive(Ahead, Says("length"), Heads) =
            [Ahead EXCEPT !.framing = "length", !.left = Says("length").n]
      BY <1>6, <2>4, ReceiveLength, Zenon
    <3> QED
      BY <2>2, <2>4, <3>1, Zenon
  <2>6. /\ Ahead'.mode = "headers" /\ Ahead'.who = Current /\ Ahead'.got = 0
        /\ Ahead'.framing = "length" /\ Ahead'.left = bodySize
    BY <1>6, <2>5 DEF Clients
  <2>7. bodySize = Total(Now.chunks)
    BY <2>3
  <2>8. Known'
    BY <1>3, <1>5, <2>1, <2>3, <2>6, <2>7 DEF Known
  <2> QED
    BY <1>3, <1>4, <1>5, <1>6, <1>7, <2>6, <2>8 DEF AtDefaults, Heading
<1> QED
  BY <1>8, <1>9

(* The default headers, with Transfer-Encoding if the body is chunked. *)
LEMMA DefaultsStep ==
  ASSUME IType, Open', RouteStep, AtDefaults, Current \in Responses
  PROVE  AtEndHeaders'
<1>1. plan # <<>> /\ Head(plan) = "defaults" /\ (plan' = Tail(plan) => At(3)')
  BY AtAll DEF AtDefaults
<1>2. Header /\ Call("defaults")
  BY <1>1, MoveOf
<1>3. /\ plan' = Tail(plan) /\ chunked' = chunked
      /\ state' = state /\ bodySize' = bodySize /\ transform' = transform
      /\ source' = source /\ encoder' = encoder /\ framer' = framer /\ eof' = eof
  BY <1>2 DEF Header, Returns, streams
<1>4. At(3)'
  BY <1>1, <1>3
<1>5. Current' = Current /\ Now' = Now /\ HasEmptyChunk' = HasEmptyChunk
  BY <1>2, CallState DEF Now, HasEmptyChunk
<1>6. /\ Still /\ eof = "none" /\ (HasEmptyChunk => transform) /\ framer = <<>>
      /\ Ahead.who = Current /\ Ahead.got = 0 /\ Ahead \in Clients
      /\ Ahead.mode = "headers" /\ state = "headers"
  BY AheadType DEF AtDefaults, Heading, Still
<1>7. Still' /\ eof' = "none" /\ (HasEmptyChunk' => transform')
  BY <1>3, <1>5, <1>6 DEF Still
<1>8. /\ "default" \in Parts /\ "chunked" \in Parts
      /\ Says("default").part = "default" /\ Says("chunked").part = "chunked"
  BY DEF Parts, Says
<1>9. Receive(Ahead, Says("default"), Heads) = Ahead
  BY <1>6, <1>8, ReceiveHeader
<1>10. CASE Known
  <2>1. Writes("defaults") = <<"default">>
    BY <1>6, <1>10 DEF Writes, Known
  <2>2. Ahead' = Ahead
    BY <1>2, <1>3, <1>6, <1>8, <1>9, <2>1, CallAhead
  <2>3. Known'
    BY <1>3, <1>5, <1>10, <2>2 DEF Known
  <2> QED
    BY <1>3, <1>4, <1>5, <1>6, <1>7, <2>2, <2>3 DEF AtEndHeaders, Heading
<1>11. CASE chunked /\ Ahead.framing = "close"
  <2>1. Writes("defaults") = <<"default", "chunked">>
    BY <1>6, <1>11 DEF Writes
  <2>2. Ahead' = Receive(Receive(Ahead, Says("default"), Heads), Says("chunked"), Heads)
    BY <1>2, <1>3, <1>6, <1>8, <2>1, CallAhead
  <2>3. Ahead' = [Ahead EXCEPT !.framing = "chunked"]
    BY <1>6, <1>8, <1>9, <2>2, ReceiveChunked
  <2>4. /\ Ahead'.mode = "headers" /\ Ahead'.who = Current /\ Ahead'.got = 0
        /\ Ahead'.framing = "chunked"
    BY <1>6, <2>3 DEF Clients
  <2> QED
    BY <1>3, <1>4, <1>5, <1>6, <1>7, <1>11, <2>4 DEF AtEndHeaders, Heading
<1> QED
  BY <1>10, <1>11 DEF AtDefaults

(* The blank line. *)
LEMMA EndHeadersStep ==
  ASSUME IType, Open', RouteStep, AtEndHeaders, Current \in Responses, ~Now.head
  PROVE  AtPipe'
<1>1. plan # <<>> /\ Head(plan) = "endHeaders" /\ (plan' = Tail(plan) => At(4)')
  BY AtAll DEF AtEndHeaders
<1>2. EndHeaders
  BY <1>1, MoveOf
<1>3. /\ plan' = Tail(plan) /\ chunked' = chunked /\ Call("endHeaders")
      /\ state' = "body" /\ transform' = transform
      /\ source' = source /\ encoder' = encoder /\ framer' = framer /\ eof' = eof
  BY <1>2 DEF EndHeaders, Returns, streams
<1>4. At(4)'
  BY <1>1, <1>3
<1>5. Current' = Current /\ Now' = Now /\ HasEmptyChunk' = HasEmptyChunk
  BY <1>3, CallState DEF Now, HasEmptyChunk
<1>6. /\ Still /\ eof = "none" /\ (HasEmptyChunk => transform) /\ framer = <<>>
      /\ Ahead.who = Current /\ Ahead.got = 0 /\ Ahead \in Clients
      /\ Ahead.mode = "headers" /\ state = "headers"
  BY AheadType DEF AtEndHeaders, Heading, Still
<1>7. Still' /\ eof' = "none" /\ (HasEmptyChunk' => transform')
  BY <1>3, <1>5, <1>6 DEF Still
<1>8. /\ "blank" \in Parts /\ Writes("endHeaders") = <<"blank">>
      /\ Says("blank").part = "blank" /\ Says("blank").who = Current
  BY DEF Parts, Says, Writes
<1>9. Current \notin Heads
  BY DEF Heads, Now
<1>10. Ahead' = Receive(Ahead, Says("blank"), Heads)
  BY <1>3, <1>6, <1>8, CallAhead
<1>11. ~(Ahead.framing = "length" /\ Ahead.left = 0)
  BY DEF AtEndHeaders, Known
<1>12. Ahead' = Expect(Ahead, Ahead.framing)
  <2>1. Receive(Ahead, Says("blank"), Heads) =
          IF Says("blank").who \in Heads \/ (Ahead.framing = "length" /\ Ahead.left = 0)
          THEN Expect(Ahead, "status") ELSE Expect(Ahead, Ahead.framing)
    BY <1>6, <1>8, ReceiveBlank
  <2> QED
    BY <1>8, <1>9, <1>10, <1>11, <2>1, Zenon
<1>13. /\ Ahead'.mode = Ahead.framing /\ Ahead'.who = Ahead.who /\ Ahead'.got = Ahead.got
       /\ Ahead'.left = Ahead.left /\ Ahead'.framing = Ahead.framing
  BY <1>6, <1>12, ExpectIs
<1>14. (Known' /\ Ahead'.mode = "length") \/ (chunked' /\ Ahead'.mode = "chunked")
  <2>1. CASE Known
    BY <1>3, <1>5, <1>13, <2>1 DEF Known
  <2>2. CASE chunked /\ Ahead.framing = "chunked"
    BY <1>3, <1>13, <2>2
  <2> QED
    BY <2>1, <2>2 DEF AtEndHeaders
<1> QED
  BY <1>3, <1>4, <1>5, <1>6, <1>7, <1>13, <1>14 DEF AtPipe, Heading

(* The streams are connected. *)
LEMMA PipeStep ==
  ASSUME IType, Open', RouteStep, AtPipe, Current \in Responses
  PROVE  Flows'
<1>1. plan # <<>> /\ Head(plan) = "pipe" /\ (plan' = Tail(plan) => At(5)')
  BY AtAll DEF AtPipe
<1>2. Pipe
  BY <1>1, MoveOf
<1>3. /\ plan' = Tail(plan) /\ chunked' = chunked /\ Call("pipe")
      /\ transform' = transform /\ source' = Now.chunks
      /\ encoder' = encoder /\ framer' = framer /\ eof' = eof
  BY <1>2 DEF Pipe, Returns, response, Now
<1>4. At(5)'
  BY <1>1, <1>3
<1>5. Current' = Current /\ Now' = Now
  BY <1>3, CallState DEF Now
<1>6. /\ encoder = <<>> /\ framer = <<>> /\ eof = "none" /\ (HasEmptyChunk => transform)
      /\ Ahead.who = Current /\ Ahead.got = 0
  BY DEF AtPipe, Heading, Still
<1>7. Ahead' = Ahead
  <2>1. Writes("pipe") = <<>>
    BY DEF Writes
  <2> QED
    BY <1>3, <1>6, <2>1, CallAhead
<1>8. Total(Now.chunks) \in Nat
  BY CurrentRoute, TotalNat DEF Now
<1>9. PICK t \in Nat : t = Total(Now.chunks)
  BY <1>8
<1>10. Total(encoder') = 0 /\ Total(source') = t /\ Total(Now'.chunks) = t
  BY <1>3, <1>5, <1>6, <1>9, TotalEmpty
<1>11. Reading'
  <2>1. Ahead'.got + Total(source') + Total(encoder') = Total(Now'.chunks)
    BY <1>6, <1>7, <1>10
  <2>2. CASE Known /\ Ahead.mode = "length"
    <3>1. ~chunked' /\ ~transform' /\ encoder' = <<>>
      BY <1>3, <1>6, <2>2 DEF Known
    <3>2. Total(source') # 0 /\ Ahead'.mode = "length" /\ Ahead'.left = Total(source')
      BY <1>7, <1>9, <1>10, <2>2 DEF Known
    <3> QED
      BY <1>3, <1>6, <2>1, <3>1, <3>2 DEF Reading
  <2>3. CASE chunked /\ Ahead.mode = "chunked"
    <3>1. (\E i \in 1..Len(source') : source'[i] = 0) => transform'
      BY <1>3, <1>6 DEF HasEmptyChunk
    <3> QED
      BY <1>3, <1>6, <1>7, <2>1, <2>3, <3>1 DEF Reading
  <2> QED
    BY <2>2, <2>3 DEF AtPipe
<1> QED
  BY <1>3, <1>4, <1>5, <1>6, <1>7, <1>11 DEF Flows

(* The wait ends when the framer closed. *)
LEMMA ClosedStep ==
  ASSUME IType, Open', RouteStep, Flows, Current \in Responses
  PROVE  Done'
<1>1. plan # <<>> /\ Head(plan) = "closed"
  BY AtAll DEF Flows
<1>2. FramerClosed
  BY <1>1, MoveOf
<1>3. /\ plan' = Tail(plan) /\ Call("closed") /\ eof = "closed"
      /\ UNCHANGED <<state, transform, source, encoder, framer>>
  BY <1>2 DEF FramerClosed, Returns, response, streams
<1>4. Left' \cap InternalCalls = {}
  BY <1>3, AtEnd DEF Flows
<1>5. Current' = Current /\ Now' = Now /\ wire' = wire /\ routes' = routes
  <2>1. Writes("closed") = <<>>
    BY DEF Writes
  <2> QED
    BY <1>3, <2>1, CallState, CallSends DEF Now
<1>6. Ahead' = Ahead
  BY <1>3, <1>5, AheadSame
<1>7. Ending /\ framer = <<>>
  BY <1>3 DEF Flows, Reading, Encoding, Ending
<1>8. AllUnits' = AllUnits
  BY <1>3, <1>5 DEF AllUnits
<1> QED
  BY <1>3, <1>4, <1>5, <1>6, <1>7, <1>8 DEF Done, Still, Ending, Flows

(* After the body the route may only make calls that fail, or that neither *)
(* send nor change anything of it.                                         *)
LEMMA DoneStep ==
  ASSUME IType, Open', RouteStep, Done, Current \in Responses
  PROVE  Done'
<1>1. plan \in Seq(Calls) /\ plan # <<>>
  <2>1. ~Idle
    BY RouteStepBusy
  <2> QED
    BY <2>1 DEF Idle, IType, TypeOK
<1>2. Head(plan) \in Left /\ Head(plan) \notin InternalCalls
  BY <1>1, LeftHead DEF Done
<1>3. ASSUME NEW call, Call(call)
      PROVE  call \notin {"transform", "raw", "header", "defaults", "status", "buffered",
                          "streamed", "endHeaders", "endBody"} \cup InternalCalls
  BY <1>2, <1>3, CallState DEF Allowed, Done, InternalCalls
<1>4. SetBodySize \/ SendEmptyBody
  <2>1. ~Fail
    BY DEF Fail, Open
  <2>2. ~AddBodyTransform /\ ~AddRawBodyTransform /\ ~Header /\ ~Status /\ ~SendBody
    BY <1>3 DEF AddBodyTransform, AddRawBodyTransform, Header, Status, SendBody
  <2>3. ~Framing /\ ~EndHeaders /\ ~EndBody /\ ~Pipe /\ ~FramerClosed
    BY <1>3 DEF Framing, EndHeaders, EndBody, Pipe, FramerClosed, InternalCalls
  <2> QED
    BY <2>1, <2>2, <2>3, Zenon DEF RouteStep
<1>5. PICK call : Call(call) /\ call \in {"size", "empty"}
  BY <1>4 DEF SetBodySize, SendEmptyBody
<1>6. UNCHANGED <<state, transform, source, encoder, framer>>
  BY <1>4 DEF SetBodySize, SendEmptyBody, response, streams
<1>7. Current' = Current /\ Now' = Now /\ wire' = wire /\ routes' = routes
  <2>1. Writes(call) = <<>>
    BY <1>5 DEF Writes
  <2> QED
    BY <1>5, <2>1, CallState, CallSends DEF Now
<1>8. Ahead' = Ahead
  BY <1>6, <1>7, AheadSame
<1>9. Left' \cap InternalCalls = {}
  <2>1. CASE SetBodySize
    <3>1. Left = {Head(plan)} \cup Left'
      BY <1>1, <2>1, LeftReturns DEF SetBodySize, Returns
    <3> QED
      BY <3>1 DEF Done
  <2>2. CASE SendEmptyBody
    <3>1. PICK made \in Seq(Calls) : made = <<"defaults", "endHeaders", "endBody">>
      <4>1. <<"defaults", "endHeaders", "endBody">> \in Seq(Calls)
        BY DEF Calls
      <4> QED
        BY <4>1
    <3>2. plan' = made \o Tail(plan)
      BY <2>2, <3>1 DEF SendEmptyBody
    <3>3. \A i \in 1..Len(made) : made[i] \in {"defaults", "endHeaders", "endBody"}
      BY <3>1
    <3>4. Left' \subseteq Left \cup {"defaults", "endHeaders", "endBody"}
      BY <1>1, <3>2, <3>3, LeftReplaced
    <3> QED
      BY <3>4 DEF Done, InternalCalls
  <2> QED
    BY <1>4, <2>1, <2>2
<1>10. AllUnits' = AllUnits
  BY <1>6, <1>7 DEF AllUnits
<1> QED
  BY <1>6, <1>7, <1>8, <1>9, <1>10 DEF Done, Still

--------------------------------------------------------------------------------
(* The streams. *)
LEMMA FramedPieces ==
  ASSUME IType, Current \in Responses, NEW size \in Nat
  PROVE  /\ [who |-> Current, part |-> "chunk", n |-> size] \in AnyPiece
         /\ [who |-> Current, part |-> "data", n |-> size] \in AnyPiece
         /\ ZeroChunk \in AnyPiece /\ ZeroChunk.part = "last" /\ ZeroChunk.n = 0
         /\ chunked =>
              framer \o Framed(size) = Append(framer, [who |-> Current, part |-> "chunk", n |-> size])
         /\ (~chunked /\ size # 0) =>
              framer \o Framed(size) = Append(framer, [who |-> Current, part |-> "data", n |-> size])
         /\ (~chunked /\ size = 0) => framer \o Framed(size) = framer
<1>1. framer \in Seq(Piece) /\ Current \in Nat
  BY DEF IType, TypeOK, Responses
<1>2. \A x : framer \o <<x>> = Append(framer, x)
  BY <1>1
<1>3. framer \o <<>> = framer
  BY <1>1
<1>4. "chunk" \in Parts /\ "data" \in Parts /\ "last" \in Parts
  BY DEF Parts
<1>5. /\ chunked => Framed(size) = <<[who |-> Current, part |-> "chunk", n |-> size]>>
      /\ (~chunked /\ size # 0) =>
           Framed(size) = <<[who |-> Current, part |-> "data", n |-> size]>>
      /\ (~chunked /\ size = 0) => Framed(size) = <<>>
  BY Zenon DEF Framed
<1>6. /\ [who |-> Current, part |-> "chunk", n |-> size] \in AnyPiece
      /\ [who |-> Current, part |-> "data", n |-> size] \in AnyPiece
      /\ ZeroChunk \in AnyPiece /\ ZeroChunk.part = "last" /\ ZeroChunk.n = 0
  BY <1>1, <1>4 DEF AnyPiece, ZeroChunk
<1> QED
  BY <1>2, <1>3, <1>5, <1>6, Zenon

(* What the client that is ahead makes of a chunk that the framer gets.     *)
LEMMA FramedAhead ==
  ASSUME IType, Current \in Responses, NEW size \in Nat, framer' = framer \o Framed(size),
         UNCHANGED <<wire, routes>>
  PROVE  /\ (chunked /\ Ahead.mode = "chunked" /\ size # 0) => Ahead' = Took(Ahead, size)
         /\ (~chunked /\ size # 0 /\ Ahead.mode = "length" /\ size < Ahead.left) =>
              Ahead' = [Took(Ahead, size) EXCEPT !.left = @ - size]
         /\ (~chunked /\ size # 0 /\ Ahead.mode = "length" /\ size = Ahead.left) =>
              Ahead' = Expect(Took(Ahead, size), "status")
         /\ (~chunked /\ size = 0) => Ahead' = Ahead
<1> DEFINE chunk == [who |-> Current, part |-> "chunk", n |-> size]
           data == [who |-> Current, part |-> "data", n |-> size]
<1>1. /\ chunk \in AnyPiece /\ chunk.part = "chunk" /\ chunk.n = size
      /\ data \in AnyPiece /\ data.part = "data" /\ data.n = size
      /\ chunked => framer \o Framed(size) = Append(framer, chunk)
      /\ (~chunked /\ size # 0) => framer \o Framed(size) = Append(framer, data)
      /\ (~chunked /\ size = 0) => framer \o Framed(size) = framer
  BY FramedPieces
<1> HIDE DEF chunk, data
<1>2. Ahead \in Clients /\ Ahead.left \in Nat
  BY AheadType DEF Clients
<1>3. ASSUME chunked, Ahead.mode = "chunked", size # 0
      PROVE  Ahead' = Took(Ahead, size)
  <2>1. Ahead' = Receive(Ahead, chunk, Heads)
    BY <1>1, <1>3, AheadFramed
  <2>2. Receive(Ahead, chunk, Heads) = Took(Ahead, chunk.n)
    BY <1>1, <1>3, ReceiveChunk
  <2> QED
    BY <1>1, <2>1, <2>2
<1>4. ASSUME ~chunked, size # 0, Ahead.mode = "length", size < Ahead.left
      PROVE  Ahead' = [Took(Ahead, size) EXCEPT !.left = @ - size]
  <2>1. Ahead' = Receive(Ahead, data, Heads)
    BY <1>1, <1>4, AheadFramed
  <2>2. Receive(Ahead, data, Heads) = [Took(Ahead, data.n) EXCEPT !.left = @ - data.n]
    BY <1>1, <1>2, <1>4, ReceiveData
  <2> QED
    BY <1>1, <2>1, <2>2
<1>5. ASSUME ~chunked, size # 0, Ahead.mode = "length", size = Ahead.left
      PROVE  Ahead' = Expect(Took(Ahead, size), "status")
  <2>1. Ahead' = Receive(Ahead, data, Heads)
    BY <1>1, <1>5, AheadFramed
  <2>2. Receive(Ahead, data, Heads) = Expect(Took(Ahead, data.n), "status")
    BY <1>1, <1>2, <1>5, ReceiveLastData
  <2> QED
    BY <1>1, <2>1, <2>2
<1>6. ASSUME ~chunked, size = 0
      PROVE  Ahead' = Ahead
  BY <1>1, <1>6, AheadSame
<1> QED
  BY <1>3, <1>4, <1>5, <1>6

(* What the client that is ahead makes of the end of the body. *)
LEMMA FinalAhead ==
  ASSUME IType, Current \in Responses, Final, UNCHANGED <<wire, routes, chunked>>
  PROVE  /\ chunked /\ Ahead.mode = "chunked" => Ahead' = Expect(Ahead, "status")
         /\ ~chunked => Ahead' = Ahead
         /\ state' = "finished" /\ eof' = "framer"
<1>1. ZeroChunk \in AnyPiece /\ ZeroChunk.part = "last" /\ ZeroChunk.n = 0
  <2>1. 0 \in Nat
    OBVIOUS
  <2> QED
    BY <2>1, FramedPieces
<1>2. ASSUME chunked, Ahead.mode = "chunked"
      PROVE  Ahead' = Expect(Ahead, "status")
  <2>1. framer' = Append(framer, ZeroChunk)
    BY <1>2 DEF Final
  <2>2. Ahead' = Receive(Ahead, ZeroChunk, Heads)
    BY <1>1, <2>1, AheadFramed
  <2> QED
    BY <1>1, <1>2, <2>2, ReceiveZeroChunk
<1>3. ASSUME ~chunked
      PROVE  Ahead' = Ahead
  <2>1. framer' = framer
    BY <1>3 DEF Final
  <2> QED
    BY <2>1, AheadSame
<1> QED
  BY <1>2, <1>3 DEF Final

(* What is known of a client that took some of a body. *)
LEMMA TookIs ==
  ASSUME NEW c \in Clients, NEW n \in Nat
  PROVE  /\ Took(c, n).mode = c.mode /\ Took(c, n).who = c.who
         /\ Took(c, n).got = c.got + n /\ Took(c, n).left = c.left
         /\ Took(c, n) \in Clients
         /\ LET less == [Took(c, n) EXCEPT !.left = @ - n]
            IN  /\ less.mode = c.mode /\ less.who = c.who
                /\ less.got = c.got + n /\ less.left = c.left - n
         /\ LET last == Expect(Took(c, n), "status")
            IN  last.mode = "status" /\ last.who = c.who /\ last.got = c.got + n
BY DEF Took, Expect, Clients

(* While the body flows: what no stream changes. *)
LEMMA FlowingKeeps ==
  ASSUME IType, Current \in Responses, Flows,
         UNCHANGED <<routes, plan, transform, chunked>>
  PROVE  /\ At(5)' /\ Current' = Current /\ Now' = Now /\ Heads' = Heads
         /\ AllUnits' = AllUnits /\ Total(Now.chunks) \in Nat
         /\ Ahead \in Clients /\ Ahead.got \in Nat /\ Ahead.left \in Nat
         /\ source \in Seq(Nat) /\ encoder \in Seq(Nat)
         /\ Total(source) \in Nat /\ Total(encoder) \in Nat
<1>1. Current' = Current /\ Now' = Now /\ Heads' = Heads
  BY DEF Current, Now, Heads
<1>2. At(5)'
  BY DEF Flows, At
<1>3. AllUnits' = AllUnits
  BY <1>1 DEF AllUnits
<1>4. source \in Seq(Nat) /\ encoder \in Seq(Nat)
  BY DEF IType, TypeOK
<1>5. Total(source) \in Nat /\ Total(encoder) \in Nat
  BY <1>4, TotalNat
<1>6. Total(Now.chunks) \in Nat
  BY CurrentRoute, TotalNat DEF Now
<1>7. Ahead \in Clients /\ Ahead.got \in Nat /\ Ahead.left \in Nat
  BY AheadType DEF Clients
<1> QED
  BY <1>1, <1>2, <1>3, <1>4, <1>5, <1>6, <1>7

(* One element fewer. *)
LEMMA TakeOne ==
  ASSUME NEW s \in Seq(Nat), s # <<>>
  PROVE  /\ Head(s) \in Nat /\ Tail(s) \in Seq(Nat) /\ Total(Tail(s)) \in Nat
         /\ Total(s) = Head(s) + Total(Tail(s))
         /\ \A x : (\A i \in 1..Len(s) : s[i] # x) =>
              Head(s) # x /\ \A i \in 1..Len(Tail(s)) : Tail(s)[i] # x
<1>1. Head(s) \in Nat /\ Tail(s) \in Seq(Nat)
  OBVIOUS
<1>2. Total(Tail(s)) \in Nat
  BY <1>1, TotalNat
<1>3. Total(s) = Head(s) + Total(Tail(s))
  BY TotalTail
<1>4. Head(s) = s[1] /\ 1 \in 1..Len(s)
      /\ \A i \in 1..Len(Tail(s)) : Tail(s)[i] = s[i + 1] /\ i + 1 \in 1..Len(s)
  OBVIOUS
<1> QED
  BY <1>1, <1>2, <1>3, <1>4

(* One element more. *)
LEMMA PutOne ==
  ASSUME NEW s \in Seq(Nat), NEW x \in Nat
  PROVE  /\ Append(s, x) \in Seq(Nat) /\ Total(Append(s, x)) = Total(s) + x
         /\ (x # 0 /\ \A i \in 1..Len(s) : s[i] # 0) =>
              \A i \in 1..Len(Append(s, x)) : Append(s, x)[i] # 0
<1>1. Total(Append(s, x)) = Total(s) + x
  BY TotalAppend
<1> QED
  BY <1>1

(* The source is read by the framer or by the body transform. *)
LEMMA ReadStep ==
  ASSUME IType, Flows, Read, Current \in Responses
  PROVE  Flows'
<1>1. /\ source # <<>> /\ source' = Tail(source) /\ eof' = eof
      /\ UNCHANGED <<routes, plan, transform, chunked, wire>>
  BY DEF Read, Streaming
<1>2. /\ At(5)' /\ Current' = Current /\ Now' = Now
      /\ Ahead \in Clients /\ Ahead.got \in Nat /\ Ahead.left \in Nat
      /\ source \in Seq(Nat) /\ encoder \in Seq(Nat)
      /\ Total(Now.chunks) \in Nat /\ Total(source) \in Nat /\ Total(encoder) \in Nat
  BY <1>1, FlowingKeeps
<1>3. Reading
  BY <1>1 DEF Flows, Encoding, Ending
<1>4. PICK h \in Nat : h = Head(source)
  BY <1>1, <1>2, TakeOne
<1>5. /\ Total(source') \in Nat /\ Total(source) = h + Total(source')
      /\ (\A i \in 1..Len(source) : source[i] # 0) =>
           h # 0 /\ \A i \in 1..Len(source') : source'[i] # 0
  BY <1>1, <1>2, <1>4, TakeOne
<1>6. /\ Ahead.who = Current /\ (\A i \in 1..Len(encoder) : encoder[i] # 0)
      /\ (transform \/ encoder = <<>>) /\ transform \in BOOLEAN /\ chunked \in BOOLEAN
      /\ eof = "none" /\ Ahead.got + Total(source) + Total(encoder) = Total(Now.chunks)
  BY <1>3 DEF Flows, Reading, IType, TypeOK
<1>7. CASE transform
  <2>1. framer' = framer /\ encoder' = IF h = 0 THEN encoder ELSE Append(encoder, h)
    BY <1>4, <1>7 DEF Read
  <2>2. Ahead' = Ahead
    BY <1>1, <2>1, AheadSame
  <2>3. chunked /\ Ahead.mode = "chunked"
    BY <1>3, <1>7 DEF Reading
  <2>4. Total(encoder') = Total(encoder) + h /\ \A i \in 1..Len(encoder') : encoder'[i] # 0
    <3>1. CASE h = 0
      BY <1>2, <1>6, <2>1, <3>1
    <3>2. CASE h # 0
      BY <1>2, <1>6, <2>1, <3>2, PutOne
    <3> QED
      BY <3>1, <3>2
  <2>5. Ahead'.got + Total(source') + Total(encoder') = Total(Now'.chunks)
    BY <1>2, <1>5, <1>6, <2>2, <2>4
  <2>6. Reading'
    BY <1>1, <1>6, <1>7, <2>2, <2>3, <2>5 DEF Reading
  <2> QED
    BY <1>1, <1>2, <1>6, <1>7, <2>2, <2>4, <2>6 DEF Flows
<1>8. CASE ~transform
  <2>1. framer' = framer \o Framed(h) /\ encoder' = encoder /\ encoder = <<>> /\ ~transform'
    BY <1>1, <1>4, <1>6, <1>8 DEF Read
  <2>2. /\ (chunked /\ Ahead.mode = "chunked" /\ h # 0) => Ahead' = Took(Ahead, h)
        /\ (~chunked /\ h # 0 /\ Ahead.mode = "length" /\ h < Ahead.left) =>
              Ahead' = [Took(Ahead, h) EXCEPT !.left = @ - h]
        /\ (~chunked /\ h # 0 /\ Ahead.mode = "length" /\ h = Ahead.left) =>
              Ahead' = Expect(Took(Ahead, h), "status")
        /\ (~chunked /\ h = 0) => Ahead' = Ahead
    BY <1>1, <2>1, FramedAhead
  <2>3. /\ Took(Ahead, h).mode = Ahead.mode /\ Took(Ahead, h).who = Ahead.who
        /\ Took(Ahead, h).got = Ahead.got + h
    BY <1>2, TookIs
  <2>4. LET less == [Took(Ahead, h) EXCEPT !.left = @ - h]
        IN  /\ less.mode = Ahead.mode /\ less.who = Ahead.who
            /\ less.got = Ahead.got + h /\ less.left = Ahead.left - h
    BY <1>2, TookIs
  <2>5. LET last == Expect(Took(Ahead, h), "status")
        IN  last.mode = "status" /\ last.who = Ahead.who /\ last.got = Ahead.got + h
    BY <1>2, TookIs
  <2>6. Total(encoder) = 0 /\ Total(encoder') = 0
    BY <2>1, TotalEmpty
  <2>7. ASSUME Ahead'.got = Ahead.got + h, Ahead'.who = Current,
               \/ /\ chunked /\ Ahead'.mode = "chunked"
                  /\ \A i \in 1..Len(source') : source'[i] # 0
               \/ /\ ~chunked
                  /\ \/ Total(source') = 0 /\ Ahead'.mode = "status"
                     \/ Total(source') # 0 /\ Ahead'.mode = "length"
                        /\ Ahead'.left = Total(source')
        PROVE  Flows'
    <3>1. Ahead'.got + Total(source') + Total(encoder') = Total(Now'.chunks)
      BY <1>2, <1>5, <1>6, <2>6, <2>7
    <3>2. Reading'
      BY <1>1, <1>6, <2>1, <2>7, <3>1 DEF Reading
    <3> QED
      BY <1>1, <1>2, <1>6, <2>1, <2>7, <3>2 DEF Flows
  <2>8. CASE chunked
    <3>1. Ahead.mode = "chunked" /\ \A i \in 1..Len(source) : source[i] # 0
      BY <1>3, <1>8, <2>8 DEF Reading
    <3>2. h # 0 /\ (\A i \in 1..Len(source') : source'[i] # 0)
      BY <1>5, <3>1
    <3>3. Ahead' = Took(Ahead, h)
      BY <2>2, <2>8, <3>1, <3>2
    <3> QED
      BY <1>6, <2>3, <2>7, <2>8, <3>1, <3>2, <3>3
  <2>9. CASE ~chunked
    <3>1. CASE Total(source) = 0
      <4>1. Ahead.mode = "status"
        BY <1>3, <2>9, <3>1 DEF Reading
      <4>2. h = 0 /\ Total(source') = 0
        BY <1>5, <3>1
      <4> QED
        BY <1>2, <1>6, <2>2, <2>7, <2>9, <4>1, <4>2
    <3>2. CASE Total(source) # 0
      <4>1. Ahead.mode = "length" /\ Ahead.left = h + Total(source')
        BY <1>3, <1>5, <2>9, <3>2 DEF Reading
      <4>2. CASE h = 0
        <5>1. Ahead' = Ahead /\ Ahead.got = Ahead.got + h /\ Ahead.left = Total(source')
          BY <1>2, <1>5, <2>2, <2>9, <4>1, <4>2
        <5> QED
          BY <1>5, <1>6, <2>7, <2>9, <3>2, <4>1, <4>2, <5>1
      <4>3. CASE h # 0 /\ Total(source') = 0
        <5>1. Ahead' = Expect(Took(Ahead, h), "status")
          BY <2>2, <2>9, <4>1, <4>3
        <5> QED
          BY <1>6, <2>5, <2>7, <2>9, <4>3, <5>1
      <4>4. CASE h # 0 /\ Total(source') # 0
        <5>1. h < Ahead.left /\ Ahead.left - h = Total(source')
          BY <1>5, <4>1, <4>4
        <5>2. Ahead' = [Took(Ahead, h) EXCEPT !.left = @ - h]
          BY <2>2, <2>9, <4>1, <4>4, <5>1
        <5> QED
          BY <1>6, <2>4, <2>7, <2>9, <4>1, <4>4, <5>1, <5>2
      <4> QED
        BY <4>2, <4>3, <4>4
    <3> QED
      BY <3>1, <3>2
  <2> QED
    BY <2>8, <2>9
<1> QED
  BY <1>7, <1>8

(* The source ends. *)
LEMMA SourceEndsStep ==
  ASSUME IType, Flows, SourceEnds, Current \in Responses
  PROVE  Flows'
<1>1. /\ source = <<>> /\ eof = "none" /\ source' = source
      /\ UNCHANGED <<routes, plan, transform, chunked, wire>>
  BY DEF SourceEnds, Streaming
<1>2. /\ At(5)' /\ Current' = Current /\ Now' = Now /\ AllUnits' = AllUnits
      /\ Ahead \in Clients /\ Ahead.got \in Nat /\ encoder \in Seq(Nat)
      /\ Total(Now.chunks) \in Nat /\ Total(encoder) \in Nat
  BY <1>1, FlowingKeeps
<1>3. Reading /\ Total(source) = 0
  BY <1>1, TotalEmpty DEF Flows, Encoding, Ending
<1>4. /\ Ahead.who = Current /\ (\A i \in 1..Len(encoder) : encoder[i] # 0)
      /\ (transform \/ encoder = <<>>)
      /\ Ahead.got + Total(encoder) = Total(Now.chunks)
  BY <1>2, <1>3 DEF Flows, Reading
<1>5. CASE transform
  <2>1. encoder' = Append(encoder, 1) /\ eof' = "encoder" /\ framer' = framer
    BY <1>5 DEF SourceEnds
  <2>2. Ahead' = Ahead
    BY <1>1, <2>1, AheadSame
  <2>3. chunked /\ Ahead.mode = "chunked"
    BY <1>3, <1>5 DEF Reading
  <2>4. Total(encoder') = Total(encoder) + 1 /\ \A i \in 1..Len(encoder') : encoder'[i] # 0
    <3>1. 1 \in Nat /\ 1 # 0
      OBVIOUS
    <3> QED
      BY <1>2, <1>4, <2>1, <3>1, PutOne
  <2>5. AllUnits = Total(Now.chunks) + 1
    BY <1>5 DEF AllUnits
  <2>6. Ahead'.got + Total(encoder') = AllUnits'
    BY <1>2, <1>4, <2>2, <2>4, <2>5
  <2>7. Encoding'
    BY <1>1, <1>5, <2>1, <2>2, <2>3, <2>6 DEF Encoding
  <2> QED
    BY <1>1, <1>2, <1>4, <1>5, <2>2, <2>4, <2>7 DEF Flows
<1>6. CASE ~transform
  <2>1. Final /\ encoder' = encoder /\ encoder = <<>> /\ Total(encoder) = 0
    BY <1>4, <1>6, TotalEmpty DEF SourceEnds
  <2>2. /\ chunked /\ Ahead.mode = "chunked" => Ahead' = Expect(Ahead, "status")
        /\ ~chunked => Ahead' = Ahead
        /\ state' = "finished" /\ eof' = "framer"
    BY <1>1, <2>1, FinalAhead
  <2>3. Ahead'.mode = "status" /\ Ahead'.got = Ahead.got /\ Ahead'.who = Ahead.who
    <3>1. CASE chunked
      <4>1. Ahead.mode = "chunked"
        BY <1>3, <3>1 DEF Reading
      <4> QED
        BY <1>2, <2>2, <3>1, <4>1, ExpectIs
    <3>2. CASE ~chunked
      BY <1>3, <2>2, <3>2 DEF Reading
    <3> QED
      BY <3>1, <3>2
  <2>4. AllUnits = Total(Now.chunks)
    BY <1>2, <1>6 DEF AllUnits
  <2>5. Ahead'.got = AllUnits'
    BY <1>2, <1>4, <2>1, <2>3, <2>4
  <2>6. Ending'
    BY <1>1, <2>1, <2>2, <2>3, <2>5 DEF Ending
  <2> QED
    BY <1>1, <1>2, <1>4, <2>1, <2>3, <2>6 DEF Flows
<1> QED
  BY <1>5, <1>6

(* The body transform gives a chunk to the framer. *)
LEMMA EncodeStep ==
  ASSUME IType, Flows, Encode, Current \in Responses
  PROVE  Flows'
<1>1. /\ encoder # <<>> /\ source' = source /\ eof' = eof /\ encoder' = Tail(encoder)
      /\ UNCHANGED <<routes, plan, transform, chunked, wire>>
      /\ framer' = framer \o Framed(Head(encoder))
  BY DEF Encode, Streaming
<1>2. /\ At(5)' /\ Current' = Current /\ Now' = Now /\ AllUnits' = AllUnits
      /\ Ahead \in Clients /\ Ahead.got \in Nat
      /\ source \in Seq(Nat) /\ encoder \in Seq(Nat)
      /\ Total(Now.chunks) \in Nat /\ Total(source) \in Nat /\ Total(encoder) \in Nat
  BY <1>1, FlowingKeeps
<1>3. PICK h \in Nat : h = Head(encoder)
  BY <1>1, <1>2, TakeOne
<1>4. /\ Total(encoder') \in Nat /\ Total(encoder) = h + Total(encoder')
      /\ h # 0 /\ \A i \in 1..Len(encoder') : encoder'[i] # 0
  <2>1. \A i \in 1..Len(encoder) : encoder[i] # 0
    BY DEF Flows
  <2> QED
    BY <1>1, <1>2, <1>3, <2>1, TakeOne
<1>5. transform /\ chunked /\ Ahead.mode = "chunked" /\ Ahead.who = Current
  BY <1>1 DEF Flows, Reading, Encoding, Ending
<1>6. Ahead' = Took(Ahead, h)
  BY <1>1, <1>3, <1>4, <1>5, FramedAhead
<1>7. Ahead'.mode = "chunked" /\ Ahead'.who = Current /\ Ahead'.got = Ahead.got + h
  BY <1>2, <1>5, <1>6, TookIs
<1>8. CASE Reading
  <2>1. eof = "none" /\ Ahead.got + Total(source) + Total(encoder) = Total(Now.chunks)
    BY <1>8 DEF Reading
  <2>2. Ahead'.got + Total(source') + Total(encoder') = Total(Now'.chunks)
    <3>1. Total(source') = Total(source) /\ Total(Now'.chunks) = Total(Now.chunks)
      BY <1>1, <1>2
    <3>2. Ahead.got + Total(source) + (h + Total(encoder')) = Total(Now.chunks)
      BY <1>4, <2>1
    <3>3. Ahead.got \in Nat /\ Total(source) \in Nat
      BY <1>2, TotalNat
    <3>4. (Ahead.got + h) + Total(source) + Total(encoder')
            = Ahead.got + Total(source) + (h + Total(encoder'))
      BY <1>4, <3>3
    <3> QED
      BY <1>7, <3>1, <3>2, <3>4, Zenon
  <2>3. Reading'
    BY <1>1, <1>5, <1>7, <2>1, <2>2 DEF Reading
  <2> QED
    BY <1>1, <1>2, <1>4, <1>5, <1>7, <2>3 DEF Flows
<1>9. CASE Encoding
  <2>1. eof = "encoder" /\ source = <<>> /\ Ahead.got + Total(encoder) = AllUnits
    BY <1>9 DEF Encoding
  <2>2. Ahead'.got + Total(encoder') = AllUnits'
    BY <1>2, <1>4, <1>7, <2>1
  <2>3. Encoding'
    BY <1>1, <1>5, <1>7, <2>1, <2>2 DEF Encoding
  <2> QED
    BY <1>1, <1>2, <1>4, <1>5, <1>7, <2>3 DEF Flows
<1>10. ~Ending
  BY <1>1 DEF Ending
<1> QED
  BY <1>8, <1>9, <1>10 DEF Flows

(* The body transform ends. *)
LEMMA EncoderEndsStep ==
  ASSUME IType, Flows, EncoderEnds, Current \in Responses
  PROVE  Flows'
<1>1. /\ eof = "encoder" /\ encoder = <<>> /\ Final
      /\ UNCHANGED <<routes, plan, transform, chunked, wire, source, encoder>>
  BY DEF EncoderEnds, Streaming
<1>2. /\ At(5)' /\ Current' = Current /\ AllUnits' = AllUnits
      /\ Ahead \in Clients /\ Ahead.got \in Nat
  BY <1>1, FlowingKeeps
<1>3. Encoding /\ Ahead.who = Current /\ Total(encoder) = 0
  BY <1>1, TotalEmpty DEF Flows, Reading, Ending
<1>4. source = <<>> /\ transform /\ chunked /\ Ahead.mode = "chunked" /\ Ahead.got = AllUnits
  <2>1. Ahead.got + 0 = AllUnits
    BY <1>3 DEF Encoding
  <2> QED
    BY <1>2, <1>3, <2>1 DEF Encoding
<1>5. Ahead' = Expect(Ahead, "status") /\ state' = "finished" /\ eof' = "framer"
  BY <1>1, <1>4, FinalAhead
<1>6. Ahead'.mode = "status" /\ Ahead'.got = Ahead.got /\ Ahead'.who = Ahead.who
  BY <1>2, <1>5, ExpectIs
<1>7. Ending'
  BY <1>1, <1>2, <1>4, <1>5, <1>6 DEF Ending
<1>8. \A i \in 1..Len(encoder') : encoder'[i] # 0
  BY <1>1
<1> QED
  BY <1>1, <1>2, <1>3, <1>6, <1>7, <1>8 DEF Flows

(* The client that is ahead has what leaves the framer, and the framer      *)
(* closes when nothing is left.                                             *)
LEMMA FlowsKept ==
  ASSUME IType, Flows, Current \in Responses, Ahead' = Ahead,
         UNCHANGED <<routes, plan, transform, chunked, source, encoder, state>>,
         \/ eof' = eof /\ (framer = <<>> => framer' = <<>>)
         \/ eof = "framer" /\ eof' = "closed" /\ framer' = <<>>
  PROVE  Flows'
<1>1. At(5)' /\ Current' = Current /\ Now' = Now /\ AllUnits' = AllUnits
  BY FlowingKeeps
<1>2. /\ Ahead.who = Current /\ (\A i \in 1..Len(encoder) : encoder[i] # 0)
      /\ (transform \/ encoder = <<>>)
  BY DEF Flows
<1>3. CASE eof' = eof /\ (framer = <<>> => framer' = <<>>)
  <2>1. Reading => Reading'
    BY <1>1, <1>3 DEF Reading
  <2>2. Encoding => Encoding'
    BY <1>1, <1>3 DEF Encoding
  <2>3. Ending => Ending'
    BY <1>1, <1>3 DEF Ending
  <2>4. Reading' \/ Encoding' \/ Ending'
    BY <2>1, <2>2, <2>3 DEF Flows
  <2> QED
    BY <1>1, <1>2, <2>4 DEF Flows
<1>4. CASE eof = "framer" /\ eof' = "closed" /\ framer' = <<>>
  <2>1. Ending
    BY <1>4 DEF Flows, Reading, Encoding
  <2>2. Ending'
    BY <1>1, <1>4, <2>1 DEF Ending
  <2> QED
    BY <1>1, <1>2, <2>2 DEF Flows
<1> QED
  BY <1>3, <1>4

(* The framer gives a piece to the socket, or closes. *)
LEMMA PiecesLeave ==
  ASSUME IType, Flows, Flush \/ FramerCloses, ~raw, Open, Current \in Responses
  PROVE  Flows'
<1>1. UNCHANGED <<routes, plan, transform, chunked, source, encoder, state>>
  BY DEF Flush, FramerCloses, Streaming
<1>2. CASE Flush
  <2>1. /\ framer # <<>> /\ framer' = Tail(framer) /\ routes' = routes /\ eof' = eof
        /\ wire' = Append(wire, Head(framer))
    BY <1>1, <1>2, Zenon DEF Flush, Sent
  <2>2. Ahead' = Ahead
    BY <2>1, AheadFlushed
  <2> QED
    BY <1>1, <2>1, <2>2, FlowsKept
<1>3. CASE FramerCloses
  <2>1. UNCHANGED <<wire, framer, routes>> /\ eof = "framer" /\ eof' = "closed" /\ framer = <<>>
    BY <1>3 DEF FramerCloses, Streaming
  <2>2. Ahead' = Ahead
    BY <2>1, AheadSame
  <2> QED
    BY <1>1, <2>1, <2>2, FlowsKept
<1> QED
  BY <1>2, <1>3

--------------------------------------------------------------------------------
(* Every piece belongs to a response that has begun. *)
Begun == {p \in Piece : p.who <= Current}

(* And so does everything that was sent or is held back. *)
WhoInv ==
  /\ wire \in Seq(Begun) /\ framer \in Seq(Begun)
  /\ tail \in [Responses -> Seq(Begun)]

(* What a response counts, whatever its plan is. *)
Counts ==
  /\ Busy /\ Current \in Nat /\ bodySize \in Nat
  /\ source \in Seq(Nat) /\ encoder \in Seq(Nat)

(* Such are the numbers of TypeOK. *)
LEMMA CountsOf == IType => Counts
BY DEF IType, TypeOK, Counts, Current

(* WhoInv is inductive, together with the types. *)
LEMMA WhoNext == Counts /\ WhoInv /\ [Next]_vars => WhoInv'
<1> SUFFICES ASSUME Counts, WhoInv, [Next]_vars PROVE WhoInv'
  OBVIOUS
<1>1. PICK B : B = Begun
  OBVIOUS
<1>2. /\ wire \in Seq(B) /\ framer \in Seq(B) /\ tail \in [Responses -> Seq(B)]
  BY <1>1 DEF WhoInv
<1>3. ASSUME Current' = Current, wire' \in Seq(B), framer' \in Seq(B), tail' \in [Responses -> Seq(B)]
      PROVE  WhoInv'
  <2>1. Begun' = B
    BY <1>1, <1>3 DEF Begun
  <2> QED
    BY <1>3, <2>1 DEF WhoInv
<1>4. ASSUME Current \in Responses, NEW part \in Parts, NEW n \in Nat
      PROVE  [who |-> Current, part |-> part, n |-> n] \in B
  BY <1>1, <1>4, MaxResponsesAssumption DEF Begun, Piece, Responses
<1>5. ASSUME Current \in Responses, NEW size \in Nat
      PROVE  framer \o Framed(size) \in Seq(B)
  <2>1. \A p \in B : <<p>> \in Seq(B)
    OBVIOUS
  <2>2. "chunk" \in Parts /\ "data" \in Parts /\ <<>> \in Seq(B)
    BY DEF Parts
  <2>3. Framed(size) \in Seq(B)
    BY <1>4, <1>5, <2>1, <2>2, Zenon DEF Framed
  <2> QED
    BY <1>2, <2>3
<1>6. ASSUME Current \in Responses, Final
      PROVE  framer' \in Seq(B)
  <2>1. ZeroChunk \in B
    <3>1. "last" \in Parts /\ 0 \in Nat
      BY DEF Parts
    <3> QED
      BY <1>4, <1>6, <3>1 DEF ZeroChunk
  <2> QED
    BY <1>2, <1>6, <2>1 DEF Final
<1>7. ASSUME NEW piece \in B
      PROVE  Sent(piece) \in Seq(B)
  BY <1>2, <1>7 DEF Sent
<1>8. Flowing => Current \in Responses
  BY DEF Flowing, Counts, Busy
<1>9. CASE Begin
  <2>1. Len(routes) \in Nat /\ Current' = Current + 1 /\ UNCHANGED <<tail, wire>> /\ framer' = <<>>
    BY <1>9 DEF Begin, Counts, Current
  <2>2. \A p \in Piece : p.who \in Nat
    BY MaxResponsesAssumption DEF Piece, Responses
  <2>3. B \subseteq Begun'
    BY <1>1, <2>1, <2>2 DEF Begun, Current
  <2>4. PICK C : C = Begun'
    OBVIOUS
  <2>5. wire' \in Seq(C) /\ framer' \in Seq(C) /\ tail' \in [Responses -> Seq(C)]
    <3>1. Seq(B) \subseteq Seq(C)
      BY <2>3, <2>4
    <3> QED
      BY <1>2, <2>1, <3>1
  <2> QED
    BY <2>4, <2>5 DEF WhoInv
<1>10. CASE RouteStep
  <2>1. CASE Fail
    BY <1>2, <1>3, <2>1 DEF Fail, streams, Current
  <2>2. CASE ~Fail
    <3>1. PICK call : Call(call)
      BY <1>10, <2>2 DEF RouteStep, AddBodyTransform, AddRawBodyTransform, Header, SetBodySize,
         Status, SendBody, SendEmptyBody, Framing, EndHeaders, EndBody, Pipe, FramerClosed
    <3>2. Current \in Responses /\ Current' = Current
      BY <3>1 DEF Call, Counts, Busy, Current
    <3>3. framer' = framer /\ tail' = tail
      BY <1>10, <2>2 DEF RouteStep, AddBodyTransform, AddRawBodyTransform, Header, SetBodySize,
         Status, SendBody, SendEmptyBody, Framing, EndHeaders, EndBody, Pipe, FramerClosed, streams
    <3>4. [i \in 1..Len(Writes(call)) |->
             [who |-> Current, part |-> Writes(call)[i], n |-> bodySize]] \in Seq(B)
      <4>1. Writes(call) \in Seq(Parts) /\ bodySize \in Nat
        BY WritesType DEF Counts
      <4>2. \A i \in 1..Len(Writes(call)) : Writes(call)[i] \in Parts
        BY <4>1
      <4>3. \A i \in 1..Len(Writes(call)) :
              [who |-> Current, part |-> Writes(call)[i], n |-> bodySize] \in B
        BY <1>4, <3>2, <4>1, <4>2
      <4> QED
        BY <4>1, <4>3
    <3>5. wire' \in Seq(B)
      BY <1>2, <3>1, <3>4 DEF Call
    <3> QED
      BY <1>2, <1>3, <3>2, <3>3, <3>5
  <2> QED
    BY <2>1, <2>2
<1>11. CASE StreamStep
  <2>0. Current' = Current
    BY <1>11 DEF StreamStep, Read, SourceEnds, Encode, EncoderEnds, Flush, FramerCloses, FlushRaw,
       Streaming, Current
  <2>1. CASE Read
    <3>1. Head(source) \in Nat
      BY <2>1 DEF Read, Counts
    <3>2. framer' \in Seq(B)
      BY <1>2, <1>5, <1>8, <2>1, <3>1 DEF Read
    <3> QED
      BY <1>2, <1>3, <2>0, <2>1, <3>2 DEF Read
  <2>2. CASE SourceEnds
    <3>1. framer' \in Seq(B)
      BY <1>2, <1>6, <1>8, <2>2 DEF SourceEnds
    <3> QED
      BY <1>2, <1>3, <2>0, <2>2, <3>1 DEF SourceEnds
  <2>3. CASE Encode
    <3>1. Head(encoder) \in Nat
      BY <2>3 DEF Encode, Counts
    <3>2. framer' \in Seq(B)
      BY <1>5, <1>8, <2>3, <3>1 DEF Encode
    <3> QED
      BY <1>2, <1>3, <2>0, <2>3, <3>2 DEF Encode
  <2>4. CASE EncoderEnds
    <3>1. framer' \in Seq(B)
      BY <1>6, <1>8, <2>4 DEF EncoderEnds
    <3> QED
      BY <1>2, <1>3, <2>0, <2>4, <3>1 DEF EncoderEnds
  <2>5. CASE Flush
    <3>1. Current \in Responses /\ framer # <<>> /\ framer' = Tail(framer)
      BY <1>8, <2>5 DEF Flush
    <3>2. framer' \in Seq(B) /\ Head(framer) \in B
      BY <1>2, <3>1
    <3>3. CASE raw
      <4>1. tail' = [tail EXCEPT ![Current] = Append(@, Head(framer))] /\ wire' = wire
        BY <2>5, <3>3 DEF Flush
      <4> QED
        BY <1>2, <1>3, <2>0, <3>1, <3>2, <4>1
    <3>4. CASE ~raw
      <4>1. wire' = Sent(Head(framer)) /\ tail' = tail
        BY <2>5, <3>4 DEF Flush
      <4> QED
        BY <1>2, <1>3, <1>7, <2>0, <3>2, <4>1
    <3> QED
      BY <3>3, <3>4
  <2>6. CASE FramerCloses
    BY <1>2, <1>3, <2>0, <2>6 DEF FramerCloses
  <2>7. ASSUME NEW r \in Responses, FlushRaw(r)
        PROVE  WhoInv'
    <3>1. /\ tail[r] # <<>> /\ tail' = [tail EXCEPT ![r] = Tail(@)]
          /\ wire' = Sent(Head(tail[r])) /\ framer' = framer
      BY <2>7 DEF FlushRaw
    <3>2. Head(tail[r]) \in B /\ Tail(tail[r]) \in Seq(B)
      BY <1>2, <3>1
    <3> QED
      BY <1>2, <1>3, <1>7, <2>0, <3>1, <3>2
  <2> QED
    BY <1>11, <2>1, <2>2, <2>3, <2>4, <2>5, <2>6, <2>7 DEF StreamStep
<1>12. CASE PeerCloses
  BY <1>2, <1>3, <1>12 DEF PeerCloses, streams, Current
<1>13. CASE UNCHANGED vars
  BY <1>2, <1>3, <1>13 DEF vars, streams, Current
<1> QED
  BY <1>9, <1>10, <1>11, <1>12, <1>13 DEF Next, Step

--------------------------------------------------------------------------------
(* A body transform of the route is added, or will be. *)
Kept == Makes(Current, "transform") => transform \/ "transform" \in Left

(* Kept is kept: a transform leaves the plan only by being added. *)
LEMMA KeptStep ==
  ASSUME IType, Open', RouteStep, Kept
  PROVE  Kept'
<1>1. /\ transform \in BOOLEAN /\ enqueued \in Nat
      /\ ~Fail
  BY DEF IType, TypeOK, Fail, Open
<1>2. ASSUME routes' = routes, Left \subseteq {Head(plan)} \cup Left',
             Head(plan) = "transform" => transform' = TRUE,
             Head(plan) # "transform" => transform' = transform
      PROVE  Kept'
  <2>1. Makes(Current, "transform")' <=> Makes(Current, "transform")
    BY <1>2 DEF Makes, Current
  <2> QED
    BY <1>1, <1>2, <2>1 DEF Kept
<1>3. ASSUME NEW call, Call(call), Returns
      PROVE  routes' = routes /\ Head(plan) = call /\ Left \subseteq {Head(plan)} \cup Left'
  BY <1>3, CallState, LeftReturns DEF Returns
<1>4. ASSUME NEW call, Call(call), NEW made \in Seq(Calls), plan' = made \o Tail(plan)
      PROVE  routes' = routes /\ Head(plan) = call /\ Left \subseteq {Head(plan)} \cup Left'
  <2>1. \A i \in 1..Len(made) : made[i] \in Calls
    BY <1>4
  <2> QED
    BY <1>4, <2>1, CallState, LeftReplaced
<1>5. CASE AddBodyTransform
  <2>1. Call("transform") /\ Returns /\ transform' = TRUE
    BY <1>5 DEF AddBodyTransform
  <2> QED
    BY <1>2, <1>3, <2>1
<1>6. CASE AddRawBodyTransform \/ Header \/ SetBodySize \/ Framing \/ EndHeaders \/ EndBody
           \/ Pipe \/ FramerClosed
  <2>1. PICK call \in Calls : Call(call) /\ Returns /\ transform' = transform /\ call # "transform"
    BY <1>6 DEF AddRawBodyTransform, Header, SetBodySize, Framing, EndHeaders, EndBody,
         Pipe, FramerClosed, response, Calls
  <2> QED
    BY <1>2, <1>3, <2>1
<1>7. CASE Status
  <2>1. [i \in 1..enqueued |-> "header"] \in Seq(Calls)
    BY <1>1 DEF Calls
  <2>2. PICK made \in Seq(Calls) : made = [i \in 1..enqueued |-> "header"]
    BY <2>1
  <2>3. Call("status") /\ plan' = made \o Tail(plan) /\ transform' = transform
    BY <1>7, <2>2 DEF Status
  <2> QED
    <3>1. routes' = routes /\ Head(plan) = "status" /\ Left \subseteq {Head(plan)} \cup Left'
      BY <1>4, <2>3
    <3> QED
      BY <1>2, <2>3, <3>1
<1>8. CASE SendBody
  <2>1. <<"framing", "defaults", "endHeaders", "pipe", "closed">> \in Seq(Calls)
    BY DEF Calls
  <2>2. PICK made \in Seq(Calls) :
          made = <<"framing", "defaults", "endHeaders", "pipe", "closed">>
    BY <2>1
  <2>3. PICK call \in {"buffered", "streamed"} : Call(call)
    BY <1>8 DEF SendBody
  <2>4. plan' = made \o Tail(plan) /\ transform' = transform
    BY <1>8, <2>2 DEF SendBody
  <2> QED
    BY <1>2, <1>4, <2>3, <2>4
<1>9. CASE SendEmptyBody
  <2>1. <<"defaults", "endHeaders", "endBody">> \in Seq(Calls)
    BY DEF Calls
  <2>2. PICK made \in Seq(Calls) : made = <<"defaults", "endHeaders", "endBody">>
    BY <2>1
  <2>3. Call("empty") /\ plan' = made \o Tail(plan) /\ transform' = transform
    BY <1>9, <2>2 DEF SendEmptyBody, response
  <2> QED
    <3>1. routes' = routes /\ Head(plan) = "empty" /\ Left \subseteq {Head(plan)} \cup Left'
      BY <1>4, <2>3
    <3> QED
      BY <1>2, <2>3, <3>1
<1> QED
  BY <1>1, <1>5, <1>6, <1>7, <1>8, <1>9 DEF RouteStep

--------------------------------------------------------------------------------
(* While the socket is open the client that is ahead is where the response  *)
(* is; once it is closed nothing is sent any more.                          *)
Follow ==
  /\ \A r \in Responses : tail[r] = <<>>
  /\ Current = 0 => Ahead = Fresh /\ Still /\ Idle
  /\ Current > 0 => Kept /\ IF Now.head THEN HeadInv ELSE BodyInv

(* The invariant of a connection whose responses are all delimited. *)
FollowInv == AllDelimited => IF Open THEN Follow ELSE Client.mode # "lost"

(* The inductive invariant behind ClientFollows and ResponseComplete. *)
SendInv == IType /\ MadeInv /\ WhoInv /\ FollowInv

(* The client is not lost, nor is the one that is ahead. *)
LEMMA FollowSane ==
  ASSUME IType, Follow
  PROVE  Ahead.mode # "lost" /\ Ahead.who <= Current /\ Client.mode # "lost"
<1>1. Current \in Nat
  BY DEF Current, IType, TypeOK
<1>2. CASE Current = 0
  BY <1>2, ClientBehind DEF Follow, Fresh
<1>3. CASE Current > 0
  <2>1. Unsent => Ahead.mode # "lost" /\ Ahead.who <= Current
    BY DEF Unsent
  <2>2. BodyInv => Unsent \/ (Ahead.mode \in {"headers", "length", "chunked", "status"} /\ Ahead.who = Current)
    BY DEF BodyInv, BeforeBody, AtFraming, AtDefaults, AtEndHeaders, AtPipe, Heading, Flows,
       Reading, Encoding, Ending, Done
  <2>3. Ahead.mode # "lost" /\ Ahead.who <= Current
    BY <1>1, <1>3, <2>1, <2>2 DEF Follow, HeadInv
  <2> QED
    BY <2>3, ClientBehind
<1> QED
  BY <1>1, <1>2, <1>3

(* Between two routes nothing is left to be sent. *)
LEMMA AtRest ==
  ASSUME IType, Follow, Idle
  PROVE  /\ Still /\ Ahead.mode = "status" /\ Client = Ahead /\ Left = {}
         /\ Current > 0 => IF Now.head THEN Ahead.got = 0 ELSE Ahead.got = AllUnits
<1>1. Current \in Nat /\ plan = <<>>
  BY DEF Current, Idle, IType, TypeOK
<1>2. Left = {}
  BY <1>1 DEF Left
<1> DEFINE Rest ==
      /\ Still /\ Ahead.mode = "status"
      /\ Current > 0 => IF Now.head THEN Ahead.got = 0 ELSE Ahead.got = AllUnits
<1>3. ASSUME Current = 0
      PROVE  Rest
  BY <1>3 DEF Follow, Fresh
<1>4. ASSUME Current > 0, Now.head
      PROVE  Rest
  <2>1. HeadInv
    BY <1>4 DEF Follow
  <2>2. state \in {"body", "finished"}
    BY <1>2, <2>1 DEF HeadInv, IType, TypeOK
  <2> QED
    BY <1>4, <2>1, <2>2 DEF HeadInv, Unsent
<1>5. ASSUME Current > 0, ~Now.head
      PROVE  Rest
  <2>1. BodyInv
    BY <1>5 DEF Follow
  <2>2. ~BeforeBody /\ ~AtFraming /\ ~AtDefaults /\ ~AtEndHeaders /\ ~AtPipe /\ ~Flows
    BY <1>1, <1>2, AtAll DEF BeforeBody, AtFraming, AtDefaults, AtEndHeaders, AtPipe, Flows
  <2> QED
    BY <1>5, <2>1, <2>2 DEF BodyInv, Done
<1>6. Rest
  BY <1>1, <1>3, <1>4, <1>5
<1>7. Client = Ahead
  <2>1. wire \o framer = wire
    BY <1>6, SeqsOfPieces DEF Still
  <2> QED
    BY <2>1 DEF Client, Ahead
<1> QED
  BY <1>2, <1>6, <1>7

(* A route that begins sends nothing. *)
LEMMA BeginAhead ==
  ASSUME IType, WhoInv, Begin, framer = <<>>
  PROVE  Ahead' = Ahead /\ Client' = Client
<1>1. PICK route \in Routes : routes' = Append(routes, route)
  BY DEF Begin
<1>2. /\ routes \in Seq(Route) /\ Current \in Nat /\ wire \in Seq(Piece)
      /\ wire' = wire /\ framer' = <<>>
  BY DEF Begin, Current, IType, TypeOK
<1>3. Current' = Current + 1 /\ \A r \in 1..Current : routes'[r] = routes[r]
  BY <1>1, <1>2 DEF Current
<1>4. wire \o framer = wire /\ wire' \o framer' = wire
  BY <1>2
<1>5. ASSUME NEW i \in 1..Len(wire)
      PROVE  wire[i].who \in Heads <=> wire[i].who \in Heads'
  <2>1. wire[i] \in Begun
    BY DEF WhoInv
  <2>2. wire[i].who \in 1..Current
    BY <1>2, <2>1, MaxResponsesAssumption DEF Begun, Piece, Responses
  <2>3. PICK w : w = wire[i].who
    OBVIOUS
  <2>4. w \in Heads <=> w \in Heads'
    BY <1>2, <1>3, <2>2, <2>3 DEF Heads
  <2> QED
    BY <2>3, <2>4
<1>6. Reads(wire, Heads) = Reads(wire, Heads')
  <2>1. wire \in Seq(AnyPiece)
    BY SeqsOfPieces
  <2>2. PICK h : h = Heads'
    OBVIOUS
  <2> QED
    BY <1>5, <2>1, <2>2, ReadsSame
<1> QED
  BY <1>2, <1>4, <1>6 DEF Ahead, Client

(* Follow is established by a route that begins. *)
LEMMA BeginFollows ==
  ASSUME IType, WhoInv, Begin, Follow, AllDelimited'
  PROVE  Follow'
<1>1. PICK route \in Routes : routes' = Append(routes, route) /\ plan' = route.calls
  BY DEF Begin
<1>2. /\ routes \in Seq(Route) /\ Current \in Nat /\ route \in Route
      /\ state' = "line" /\ ~transform' /\ ~chunked' /\ eof' = "none"
      /\ source' = <<>> /\ encoder' = <<>> /\ framer' = <<>> /\ tail' = tail
  BY RoutesAssumption DEF Begin, Current, IType, TypeOK
<1>3. Current' = Current + 1 /\ Now' = route /\ Now' = routes'[Current']
  BY <1>1, <1>2 DEF Current, Now
<1>4. Idle
  BY DEF Begin
<1>5. framer = <<>> /\ Ahead.mode = "status" /\ Ahead.who <= Current
  BY <1>4, AtRest, FollowSane DEF Still
<1>6. Ahead' = Ahead
  BY <1>5, BeginAhead
<1>7. Ahead.who \in Nat
  BY AheadType DEF Clients
<1>8. plan' \in Seq(Calls \ InternalCalls)
  BY <1>1, <1>2 DEF Route
<1>9. Left' \cap InternalCalls = {}
  BY <1>8 DEF Left
<1>10. Unsent'
  BY <1>2, <1>3, <1>5, <1>6, <1>7, <1>9 DEF Unsent, Still, Opened
<1>11. \A call : Makes(Current, call)' => call \in Left'
  BY <1>1, <1>3 DEF Makes, Left
<1>12. Delimited(Current)'
  <2>1. Current' \in 1..Current'
    BY <1>2, <1>3
  <2> QED
    BY <2>1 DEF AllDelimited
<1>13. Kept'
  BY <1>11 DEF Kept
<1>14. CASE Now'.head
  <2>1. "empty" \in Left'
    BY <1>3, <1>11, <1>12, <1>14 DEF Delimited
  <2> QED
    BY <1>2, <1>3, <1>10, <1>13, <1>14, <2>1 DEF Follow, HeadInv
<1>15. CASE ~Now'.head
  <2>1. Left' \cap {"buffered", "streamed"} # {}
    BY <1>3, <1>11, <1>12, <1>15 DEF Delimited, SendsBody
  <2>2. HasEmptyChunk' => TransformAhead(plan')
    BY <1>1, <1>3, <1>12, <1>15 DEF Delimited, HasEmptyChunk, TransformAhead
  <2>3. BeforeBody'
    BY <1>10, <2>1, <2>2 DEF BeforeBody
  <2> QED
    BY <1>2, <1>3, <1>13, <1>15, <2>3 DEF Follow, BodyInv
<1> QED
  BY <1>14, <1>15

(* Follow is kept by the steps of a route. *)
LEMMA RouteFollows ==
  ASSUME IType, MadeInv, Open', RouteStep, Follow, AllDelimited
  PROVE  Follow'
<1>1. ~Idle /\ Current \in Responses /\ Current > 0
  <2>1. ~Idle
    BY RouteStepBusy, Zenon
  <2> QED
    BY <2>1, MaxResponsesAssumption DEF IType, Busy, Responses
<1>2. routes' = routes /\ tail' = tail
  BY DEF RouteStep, AddBodyTransform, AddRawBodyTransform, Header, SetBodySize, Call,
     Status, SendBody, SendEmptyBody, Framing, EndHeaders, EndBody, Pipe, FramerClosed, Fail, streams
<1>3. Current' = Current /\ Now' = Now
  BY <1>2 DEF Current, Now
<1>4. Made /\ Kept /\ Delimited(Current)
  BY <1>1, MaxResponsesAssumption DEF MadeInv, Follow, AllDelimited, Responses
<1>5. Kept'
  BY <1>4, KeptStep
<1>6. CASE Now.head
  <2>1. HeadInv
    BY <1>1, <1>6 DEF Follow
  <2>2. HeadInv'
    BY <1>1, <1>4, <1>6, <2>1, HeadStep
  <2> QED
    BY <1>1, <1>2, <1>3, <1>5, <1>6, <2>2 DEF Follow
<1>7. CASE ~Now.head
  <2>1. BodyInv
    BY <1>1, <1>7 DEF Follow
  <2>2. bodySize # 0 => bodySize = Total(Now.chunks)
    BY <1>1, <1>4, <1>7, BodyFacts
  <2>3. BodyInv'
    <3>1. BeforeBody => BodyInv'
      BY <1>1, <1>4, <1>7, BeforeStep DEF BodyInv
    <3>2. AtFraming => BodyInv'
      BY <1>1, <2>2, FramingStep DEF BodyInv
    <3>3. AtDefaults => BodyInv'
      BY <1>1, DefaultsStep DEF BodyInv
    <3>4. AtEndHeaders => BodyInv'
      BY <1>1, <1>7, EndHeadersStep DEF BodyInv
    <3>5. AtPipe => BodyInv'
      BY <1>1, PipeStep DEF BodyInv
    <3>6. Flows => BodyInv'
      BY <1>1, ClosedStep DEF BodyInv
    <3>7. Done => BodyInv'
      BY <1>1, DoneStep DEF BodyInv
    <3> QED
      BY <2>1, <3>1, <3>2, <3>3, <3>4, <3>5, <3>6, <3>7 DEF BodyInv
  <2> QED
    BY <1>1, <1>2, <1>3, <1>5, <1>7, <2>3 DEF Follow
<1> QED
  BY <1>6, <1>7

(* Follow is kept by the steps of the streams. *)
LEMMA StreamFollows ==
  ASSUME IType, MadeInv, Open, StreamStep, Follow, AllDelimited
  PROVE  Follow'
<1>1. Flowing /\ (Read \/ SourceEnds \/ Encode \/ EncoderEnds \/ Flush \/ FramerCloses)
  BY DEF StreamStep, FlushRaw, Follow, Read, SourceEnds, Encode, EncoderEnds, Flush, FramerCloses
<1>2. Current \in Responses /\ Current > 0 /\ plan \in Seq(Calls) /\ plan # <<>>
  BY <1>1, MaxResponsesAssumption DEF Flowing, IType, Busy, Responses, Idle, TypeOK
<1>3. UNCHANGED <<routes, plan, transform>>
  BY <1>1 DEF Read, SourceEnds, Encode, EncoderEnds, Flush, FramerCloses, Streaming
<1>4. Current' = Current /\ Now' = Now /\ Left' = Left
  BY <1>3 DEF Current, Now, Left
<1>5. Made /\ Kept /\ Delimited(Current)
  BY <1>2, MaxResponsesAssumption DEF MadeInv, Follow, AllDelimited, Responses
<1>6. Kept'
  BY <1>3, <1>4, <1>5 DEF Kept, Makes
<1>7. Left \cap InternalCalls # {} /\ Head(plan) = "closed"
  BY <1>1, <1>2, LeftHead DEF Flowing, InternalCalls
<1>8. ~Unsent /\ ~Done
  BY <1>7 DEF Unsent, Done
<1>9. ~Now.head
  BY <1>2, <1>8 DEF Follow, HeadInv
<1>10. Flows
  <2>1. BodyInv
    BY <1>2, <1>9 DEF Follow
  <2>2. ~AtFraming /\ ~AtDefaults /\ ~AtEndHeaders /\ ~AtPipe
    BY <1>7, AtAll DEF AtFraming, AtDefaults, AtEndHeaders, AtPipe
  <2> QED
    BY <1>8, <2>1, <2>2 DEF BodyInv, BeforeBody
<1>11. ~raw
  BY <1>2, <1>5, <1>9, BodyFacts
<1>12. Flows'
  BY <1>1, <1>2, <1>10, <1>11, ReadStep, SourceEndsStep, EncodeStep, EncoderEndsStep, PiecesLeave
<1>13. tail' = tail
  BY <1>1, <1>11 DEF Read, SourceEnds, Encode, EncoderEnds, Flush, FramerCloses
<1> QED
  BY <1>2, <1>4, <1>6, <1>9, <1>12, <1>13 DEF Follow, BodyInv

(* What is sent once the socket is closed. *)
LEMMA NothingSent ==
  ASSUME IType, Step \/ PeerCloses \/ UNCHANGED vars
  PROVE  routes' = routes /\ (~Open' => wire' = wire) /\ (Open' => Open)
<1>1. CASE RouteStep
  <2>1. CASE Fail
    BY <2>1 DEF Fail, Open
  <2>2. CASE ~Fail
    <3>1. PICK call : Call(call)
      BY <1>1, <2>2 DEF RouteStep, AddBodyTransform, AddRawBodyTransform, Header, SetBodySize,
         Status, SendBody, SendEmptyBody, Framing, EndHeaders, EndBody, Pipe, FramerClosed
    <3>2. routes' = routes /\ socket' = socket /\ (Writes(call) # <<>> => Open)
      BY <3>1 DEF Call
    <3>3. Writes(call) = <<>> => wire' = wire
      BY <3>1, CallSends
    <3> QED
      BY <3>2, <3>3 DEF Open
  <2> QED
    BY <2>1, <2>2
<1>2. CASE StreamStep
  <2>1. routes' = routes /\ socket' = socket /\ (wire' = wire \/ \E piece : wire' = Sent(piece))
    BY <1>2 DEF StreamStep, Read, SourceEnds, Encode, EncoderEnds, Flush, FramerCloses, FlushRaw,
       Streaming
  <2> QED
    BY <2>1 DEF Sent, Open
<1>3. CASE PeerCloses
  BY <1>3 DEF PeerCloses, Open
<1>4. CASE UNCHANGED vars
  BY <1>4 DEF vars, Open
<1> QED
  BY <1>1, <1>2, <1>3, <1>4 DEF Step

(* A step that changes neither the route nor the streams. *)
LEMMA FollowStutters ==
  ASSUME Follow, UNCHANGED <<routes, plan, response, streams, wire>>
  PROVE  Follow'
<1>1. UNCHANGED <<state, transform, chunked>>
  BY DEF response
<1>2. UNCHANGED <<source, encoder, framer, eof, tail>>
  BY DEF streams
<1>3. Ahead' = Ahead /\ Current' = Current
  BY <1>2, AheadSame
<1>4. Now' = Now /\ Left' = Left /\ HasEmptyChunk' = HasEmptyChunk /\ Still' = Still
  BY <1>2, <1>3 DEF Now, Left, HasEmptyChunk, Still
<1>5. Kept' = Kept /\ (Unsent => Unsent')
  BY <1>1, <1>2, <1>3, <1>4 DEF Kept, Makes, Unsent, Opened
<1>6. HeadInv => HeadInv'
  BY <1>1, <1>3, <1>4, <1>5 DEF HeadInv
<1>7. (At(1) => At(1)') /\ (At(2) => At(2)') /\ (At(3) => At(3)') /\ (At(4) => At(4)')
      /\ (At(5) => At(5)')
  BY DEF At
<1>8. (Heading => Heading') /\ (Known => Known') /\ AllUnits' = AllUnits
  BY <1>1, <1>2, <1>3, <1>4 DEF Heading, Known, AllUnits
<1>9. BeforeBody => BeforeBody'
  BY <1>1, <1>4, <1>5 DEF BeforeBody
<1>10. (AtFraming => AtFraming') /\ (AtDefaults => AtDefaults')
       /\ (AtEndHeaders => AtEndHeaders') /\ (AtPipe => AtPipe')
  BY <1>1, <1>3, <1>7, <1>8 DEF AtFraming, AtDefaults, AtEndHeaders, AtPipe
<1>11. (Reading => Reading') /\ (Encoding => Encoding') /\ (Ending => Ending')
  BY <1>1, <1>2, <1>3, <1>4, <1>8 DEF Reading, Encoding, Ending
<1>12. (Flows => Flows') /\ (Done => Done')
  BY <1>1, <1>2, <1>3, <1>4, <1>7, <1>8, <1>11 DEF Flows, Done
<1>13. BodyInv => BodyInv'
  BY <1>9, <1>10, <1>12 DEF BodyInv
<1>14. Idle' = Idle
  BY DEF Idle
<1> QED
  BY <1>2, <1>3, <1>4, <1>5, <1>6, <1>13, <1>14 DEF Follow

(* FollowInv is kept by every step. *)
LEMMA FollowNext == SendInv /\ [Next]_vars => FollowInv'
<1> SUFFICES ASSUME SendInv, [Next]_vars, AllDelimited'
             PROVE  (IF Open THEN Follow ELSE Client.mode # "lost")'
  BY DEF FollowInv
<1>1. IType /\ MadeInv /\ WhoInv
  BY DEF SendInv
<1>2. ASSUME AllDelimited
      PROVE  (Open => Follow) /\ Client.mode # "lost"
  BY <1>1, <1>2, FollowSane DEF SendInv, FollowInv
<1>3. CASE Begin
  <2>1. PICK route \in Routes : routes' = Append(routes, route)
    BY <1>3 DEF Begin
  <2>2. /\ Current \in Nat /\ Current' = Current + 1
        /\ \A r \in 1..Current : routes'[r] = routes[r] /\ r \in 1..Current'
    BY <1>1, <2>1 DEF Current, IType, TypeOK
  <2>3. AllDelimited
    <3>1. ASSUME NEW r \in 1..Current
          PROVE  Delimited(r)
      <4>1. Delimited(r)'
        BY <2>2 DEF AllDelimited
      <4>2. routes'[r] = routes[r]
        BY <2>2
      <4> QED
        BY <4>1, <4>2 DEF Delimited, SendsBody, Makes
    <3> QED
      BY <3>1 DEF AllDelimited
  <2>4. Open /\ Open'
    BY <1>3 DEF Begin, Open
  <2>5. Follow'
    BY <1>1, <1>2, <1>3, <2>3, <2>4, BeginFollows
  <2> QED
    BY <2>4, <2>5
<1>4. CASE Step \/ PeerCloses \/ UNCHANGED vars
  <2>1. routes' = routes /\ (~Open' => wire' = wire) /\ (Open' => Open)
    BY <1>1, <1>4, NothingSent
  <2>2. AllDelimited
    BY <2>1 DEF AllDelimited, Delimited, SendsBody, Makes, Current
  <2>3. CASE ~Open'
    <3>1. Client' = Client
      BY <2>1, <2>3 DEF Client, Heads, Current
    <3> QED
      BY <1>2, <2>2, <2>3, <3>1
  <2>4. CASE Open'
    <3>1. Open /\ Follow
      BY <1>2, <2>1, <2>2, <2>4
    <3>2. CASE RouteStep
      BY <1>1, <2>2, <2>4, <3>1, <3>2, RouteFollows
    <3>3. CASE StreamStep
      BY <1>1, <2>2, <2>4, <3>1, <3>3, StreamFollows
    <3>4. CASE PeerCloses
      BY <2>4, <3>4 DEF PeerCloses, Open
    <3>5. CASE UNCHANGED vars
      <4>1. UNCHANGED <<routes, plan, response, streams, wire>>
        BY <3>5 DEF vars
      <4>2. Follow'
        BY <3>1, <4>1, FollowStutters
      <4> QED
        BY <2>4, <4>2
    <3> QED
      BY <1>4, <2>4, <3>2, <3>3, <3>4, <3>5 DEF Step
  <2> QED
    BY <2>3, <2>4
<1> QED
  BY <1>3, <1>4 DEF Next

(* SendInv holds at first. *)
LEMMA SendInit == Init => SendInv
<1> SUFFICES ASSUME Init PROVE SendInv
  OBVIOUS
<1>1. IType
  BY InitType
<1>2. Current = 0 /\ wire = <<>> /\ framer = <<>> /\ plan = <<>>
      /\ source = <<>> /\ encoder = <<>> /\ tail = [r \in Responses |-> <<>>]
      /\ Open
  BY DEF Init, Current, Open
<1>3. MadeInv
  BY <1>2 DEF MadeInv
<1>4. WhoInv
  BY <1>2 DEF WhoInv
<1>5. Ahead = Fresh
  <2>1. wire \o framer = <<>>
    BY <1>2
  <2> QED
    BY <2>1, ReadsEmpty DEF Ahead
<1>6. Follow
  BY <1>2, <1>5 DEF Follow, Still, Idle
<1> QED
  BY <1>1, <1>2, <1>3, <1>4, <1>6 DEF SendInv, FollowInv

(* SendInv is kept by every step. *)
LEMMA SendNext == SendInv /\ [Next]_vars => SendInv'
BY NextType, MadeNext, CountsOf, WhoNext, FollowNext DEF SendInv

(* What the runs check follows from SendInv. *)
LEMMA SendFollows == SendInv => ClientFollows
<1> SUFFICES ASSUME SendInv, AllDelimited PROVE Client.mode # "lost"
  BY DEF ClientFollows
<1> QED
  BY FollowSane DEF SendInv, FollowInv

(* A route that has resolved is in the phase Done, or answered HEAD. *)
LEMMA SendComplete == SendInv => ResponseComplete
<1> SUFFICES ASSUME SendInv, AllDelimited, Idle, Open PROVE
        /\ Client.mode = "status"
        /\ Current > 0 =>
             Client.got = IF routes[Current].head THEN 0
                          ELSE Total(routes[Current].chunks)
                                 + (IF Makes(Current, "transform") THEN 1 ELSE 0)
  BY DEF ResponseComplete
<1>1. IType /\ MadeInv /\ Follow
  BY DEF SendInv, FollowInv
<1>2. /\ Ahead.mode = "status" /\ Client = Ahead /\ Left = {}
      /\ Current > 0 => IF Now.head THEN Ahead.got = 0 ELSE Ahead.got = AllUnits
  BY <1>1, AtRest
<1>3. Current > 0 => (transform <=> Makes(Current, "transform"))
  BY <1>1, <1>2 DEF MadeInv, Made, Follow, Kept
<1>4. Current > 0 => AllUnits = Total(routes[Current].chunks)
                              + (IF Makes(Current, "transform") THEN 1 ELSE 0)
  BY <1>3 DEF AllUnits, Now
<1> QED
  BY <1>2, <1>4 DEF Now

(* If every response of a connection is delimited, its client never loses   *)
(* track of where one ends and the next begins: what the routes call, in    *)
(* whatever order, and what the streams write, agrees with the framing the  *)
(* headers announced (response.ts:212-274, 342-362, 443-693).               *)
THEOREM ClientFollowsCorrect == Spec => []ClientFollows
BY SendInit, SendNext, SendFollows, PTL DEF Spec

(* If every response of a connection is delimited, the client has the whole *)
(* response, every unit of it, by the time its route resolved               *)
(* (response.ts:698, 746).                                                  *)
THEOREM ResponseCompleteCorrect == Spec => []ResponseComplete
BY SendInit, SendNext, SendComplete, PTL DEF Spec

--------------------------------------------------------------------------------
(* Positions, moved. *)
LEMMA Shifted ==
  ASSUME NEW S, S \subseteq Nat, IsFiniteSet(S), NEW d \in Nat
  PROVE  /\ IsFiniteSet({i + d : i \in S})
         /\ Cardinality({i + d : i \in S}) = Cardinality(S)
<1> DEFINE T == {i + d : i \in S}
<1> DEFINE f == [i \in S |-> i + d]
<1>1. f \in [S -> T] /\ (\A a, b \in S : f[a] = f[b] => a = b) /\ (\A t \in T : \E s \in S : f[s] = t)
  OBVIOUS
<1> HIDE DEF f, T
<1>2. f \in Bijection(S, T)
  BY <1>1, Fun_IsBij
<1>3. ExistsBijection(S, T)
  BY <1>2 DEF ExistsBijection
<1>4. IsFiniteSet(T) /\ Cardinality(T) = Cardinality(S)
  BY <1>3, FS_Bijection
<1> QED
  BY <1>4 DEF T

(* One more, and the others moved up by one. *)
LEMMA OneShifted ==
  ASSUME NEW S, S \subseteq Nat \ {0}, IsFiniteSet(S)
  PROVE  Cardinality({1} \cup {i + 1 : i \in S}) = Cardinality(S) + 1
<1> DEFINE T == {i + 1 : i \in S}
<1>1. IsFiniteSet(T) /\ Cardinality(T) = Cardinality(S)
  BY Shifted
<1>2. 1 \notin T
  OBVIOUS
<1>3. Cardinality(T \cup {1}) = Cardinality(T) + 1
  BY <1>1, <1>2, FS_AddElement
<1>4. T \cup {1} = {1} \cup T
  OBVIOUS
<1> QED
  BY <1>1, <1>3, <1>4

(* The headers of a plan that are written in time, and those of a route     *)
(* that has not sent its status line.                                       *)
Hdrs(p) == {i \in 1..Len(p) : InTime(p, i) /\ p[i] = "header"}

SetsOf(p) == {i \in 1..Len(p) : Sets(p, i)}

(* The status line is sent before the headers end. *)
StatusFirst(p) == \E i \in 1..Len(p) : p[i] = "status" /\ InTime(p, i)

(* These sets can be counted. *)
LEMMA MarksFinite ==
  ASSUME NEW p \in Seq(Calls)
  PROVE  /\ Hdrs(p) \subseteq Nat \ {0} /\ IsFiniteSet(Hdrs(p)) /\ Cardinality(Hdrs(p)) \in Nat
         /\ SetsOf(p) \subseteq Nat \ {0} /\ IsFiniteSet(SetsOf(p)) /\ Cardinality(SetsOf(p)) \in Nat
<1>1. IsFiniteSet(1..Len(p)) /\ 1..Len(p) \subseteq Nat \ {0}
  BY FS_Interval
<1>2. Hdrs(p) \in SUBSET (1..Len(p)) /\ SetsOf(p) \in SUBSET (1..Len(p))
  BY DEF Hdrs, SetsOf
<1>3. IsFiniteSet(Hdrs(p)) /\ IsFiniteSet(SetsOf(p))
  BY <1>1, <1>2, FS_Subset
<1> QED
  BY <1>1, <1>2, <1>3, FS_CardinalityType

(* InTime of a plan and of what is left of it when its first call returned. *)
LEMMA InTimeTail ==
  ASSUME NEW p \in Seq(Calls), p # <<>>
  PROVE  /\ Len(p) \in Nat /\ 1 \in 1..Len(p) /\ p[1] = Head(p)
         /\ InTime(p, 1) <=> Head(p) \notin Ends
         /\ \A i \in 1..Len(p) : Head(p) \in Ends => ~InTime(p, i)
         /\ \A i \in 1..Len(Tail(p)) :
              /\ i + 1 \in 1..Len(p) /\ Tail(p)[i] = p[i + 1]
              /\ InTime(p, i + 1) <=> Head(p) \notin Ends /\ InTime(Tail(p), i)
              /\ (\A j \in 1..(i + 1) : p[j] # "status") <=>
                   Head(p) # "status" /\ \A j \in 1..i : Tail(p)[j] # "status"
         /\ \A i \in 1..Len(p) : i # 1 => \E j \in 1..Len(Tail(p)) : i = j + 1
<1>1. PICK q \in Seq(Calls) : q = Tail(p)
  <2>1. Tail(p) \in Seq(Calls)
    OBVIOUS
  <2> QED
    BY <2>1
<1>2. /\ Len(p) \in Nat /\ 1 \in 1..Len(p) /\ p[1] = Head(p)
      /\ Len(q) = Len(p) - 1
      /\ \A i \in 1..Len(q) : i + 1 \in 1..Len(p) /\ q[i] = p[i + 1]
      /\ \A i \in 1..Len(p) : i # 1 => i - 1 \in 1..Len(q) /\ i = (i - 1) + 1
  BY <1>1
<1>3. InTime(p, 1) <=> Head(p) \notin Ends
  BY <1>2 DEF InTime
<1>4. \A i \in 1..Len(p) : Head(p) \in Ends => ~InTime(p, i)
  BY <1>2 DEF InTime
<1>5. ASSUME NEW i \in 1..Len(q), NEW S
      PROVE  (\A j \in 1..(i + 1) : p[j] \notin S) <=>
               Head(p) \notin S /\ \A j \in 1..i : q[j] \notin S
  <2>1. ASSUME \A j \in 1..(i + 1) : p[j] \notin S
        PROVE  Head(p) \notin S /\ \A j \in 1..i : q[j] \notin S
    <3>1. 1 \in 1..(i + 1)
      OBVIOUS
    <3>2. ASSUME NEW j \in 1..i
          PROVE  q[j] \notin S
      <4>1. j + 1 \in 1..(i + 1) /\ j \in 1..Len(q)
        BY <1>2
      <4> QED
        BY <1>2, <2>1, <4>1
    <3> QED
      BY <1>2, <2>1, <3>1, <3>2
  <2>2. ASSUME Head(p) \notin S, \A j \in 1..i : q[j] \notin S, NEW j \in 1..(i + 1)
        PROVE  p[j] \notin S
    <3>1. CASE j = 1
      BY <1>2, <2>2, <3>1
    <3>2. CASE j # 1
      <4>1. j - 1 \in 1..i /\ j - 1 \in 1..Len(q) /\ (j - 1) + 1 = j
        BY <1>2, <3>2
      <4> QED
        BY <1>2, <2>2, <4>1
    <3> QED
      BY <3>1, <3>2
  <2> QED
    BY <2>1, <2>2
<1>6. ASSUME NEW i \in 1..Len(q)
      PROVE  /\ InTime(p, i + 1) <=> Head(p) \notin Ends /\ InTime(q, i)
             /\ (\A j \in 1..(i + 1) : p[j] # "status") <=>
                  Head(p) # "status" /\ \A j \in 1..i : q[j] # "status"
  <2>1. (\A j \in 1..(i + 1) : p[j] \notin Ends) <=>
          Head(p) \notin Ends /\ \A j \in 1..i : q[j] \notin Ends
    BY <1>5
  <2>2. (\A j \in 1..(i + 1) : p[j] \notin {"status"}) <=>
          Head(p) \notin {"status"} /\ \A j \in 1..i : q[j] \notin {"status"}
    BY <1>5
  <2> QED
    BY <2>1, <2>2 DEF InTime
<1>7. \A i \in 1..Len(p) : i # 1 => \E j \in 1..Len(q) : i = j + 1
  BY <1>2
<1> QED
  BY <1>1, <1>2, <1>3, <1>4, <1>6, <1>7

(* The headers to be written, when the first call of the plan returned. *)
LEMMA HdrsTail ==
  ASSUME NEW p \in Seq(Calls), p # <<>>
  PROVE  /\ Head(p) \in Ends => Cardinality(Hdrs(p)) = 0
         /\ (Head(p) \notin Ends /\ Head(p) # "header") =>
              Cardinality(Hdrs(p)) = Cardinality(Hdrs(Tail(p)))
         /\ Head(p) = "header" => Cardinality(Hdrs(p)) = Cardinality(Hdrs(Tail(p))) + 1
<1>1. PICK q \in Seq(Calls) : q = Tail(p)
  <2>1. Tail(p) \in Seq(Calls)
    OBVIOUS
  <2> QED
    BY <2>1
<1>2. /\ 1 \in 1..Len(p) /\ p[1] = Head(p)
      /\ InTime(p, 1) <=> Head(p) \notin Ends
      /\ \A i \in 1..Len(p) : Head(p) \in Ends => ~InTime(p, i)
      /\ \A i \in 1..Len(q) :
           /\ i + 1 \in 1..Len(p) /\ q[i] = p[i + 1]
           /\ InTime(p, i + 1) <=> Head(p) \notin Ends /\ InTime(q, i)
      /\ \A i \in 1..Len(p) : i # 1 => \E j \in 1..Len(q) : i = j + 1
  BY <1>1, InTimeTail
<1>3. Head(p) = "header" => Head(p) \notin Ends
  BY DEF Ends
<1>4. /\ Hdrs(q) \subseteq Nat \ {0} /\ IsFiniteSet(Hdrs(q))
      /\ Cardinality({i + 1 : i \in Hdrs(q)}) = Cardinality(Hdrs(q))
      /\ Cardinality({1} \cup {i + 1 : i \in Hdrs(q)}) = Cardinality(Hdrs(q)) + 1
  <2>1. Hdrs(q) \subseteq Nat \ {0} /\ IsFiniteSet(Hdrs(q)) /\ Hdrs(q) \subseteq Nat /\ 1 \in Nat
    BY MarksFinite
  <2> QED
    BY <2>1, Shifted, OneShifted
<1>5. ASSUME Head(p) \in Ends
      PROVE  Hdrs(p) = {}
  BY <1>2, <1>5 DEF Hdrs
<1>6. ASSUME Head(p) \notin Ends
      PROVE  \A i \in 1..Len(p) : i # 1 => (i \in Hdrs(p) <=> i \in {j + 1 : j \in Hdrs(q)})
  <2> SUFFICES ASSUME NEW i \in 1..Len(p), i # 1
               PROVE  i \in Hdrs(p) <=> i \in {j + 1 : j \in Hdrs(q)}
    OBVIOUS
  <2>1. PICK j \in 1..Len(q) : i = j + 1
    BY <1>2
  <2>2. i \in Hdrs(p) <=> j \in Hdrs(q)
    BY <1>2, <1>6, <2>1 DEF Hdrs
  <2>3. i \in {k + 1 : k \in Hdrs(q)} <=> j \in Hdrs(q)
    BY <1>4, <2>1
  <2> QED
    BY <2>2, <2>3
<1>7. {j + 1 : j \in Hdrs(q)} \subseteq 1..Len(p) /\ 1 \notin {j + 1 : j \in Hdrs(q)}
  BY <1>2, <1>4 DEF Hdrs
<1>8. Hdrs(p) \subseteq 1..Len(p)
  BY DEF Hdrs
<1>9. ASSUME Head(p) \notin Ends, Head(p) # "header"
      PROVE  Hdrs(p) = {j + 1 : j \in Hdrs(q)}
  <2>1. 1 \notin Hdrs(p)
    BY <1>2, <1>9 DEF Hdrs
  <2> QED
    BY <1>6, <1>7, <1>8, <1>9, <2>1
<1>10. ASSUME Head(p) = "header"
       PROVE  Hdrs(p) = {1} \cup {j + 1 : j \in Hdrs(q)}
  <2>1. 1 \in Hdrs(p)
    BY <1>2, <1>3, <1>10 DEF Hdrs
  <2> QED
    BY <1>3, <1>6, <1>7, <1>8, <1>10, <2>1
<1> QED
  BY <1>1, <1>4, <1>5, <1>9, <1>10, FS_EmptySet

(* The headers to be set, when the first call of the plan returned. *)
LEMMA SetsTail ==
  ASSUME NEW p \in Seq(Calls), p # <<>>
  PROVE  /\ Head(p) = "status" => Cardinality(SetsOf(p)) = Cardinality(Hdrs(Tail(p)))
         /\ (Head(p) \notin Ends \cup {"header", "defaults", "status"}) =>
              Cardinality(SetsOf(p)) = Cardinality(SetsOf(Tail(p)))
         /\ Head(p) \in {"header", "defaults"} =>
              Cardinality(SetsOf(p)) = Cardinality(SetsOf(Tail(p))) + 1
<1>1. PICK q \in Seq(Calls) : q = Tail(p)
  <2>1. Tail(p) \in Seq(Calls)
    OBVIOUS
  <2> QED
    BY <2>1
<1>2. /\ 1 \in 1..Len(p) /\ p[1] = Head(p)
      /\ InTime(p, 1) <=> Head(p) \notin Ends
      /\ \A i \in 1..Len(q) :
           /\ i + 1 \in 1..Len(p) /\ q[i] = p[i + 1]
           /\ InTime(p, i + 1) <=> Head(p) \notin Ends /\ InTime(q, i)
      /\ \A i \in 1..Len(p) : i # 1 => \E j \in 1..Len(q) : i = j + 1
  BY <1>1, InTimeTail
<1>s. Len(p) \in Nat /\ \A i \in 1..Len(q) :
        (\A j \in 1..(i + 1) : p[j] # "status") <=>
          Head(p) # "status" /\ \A j \in 1..i : q[j] # "status"
  <2>1. \A i \in 1..Len(Tail(p)) :
          (\A j \in 1..(i + 1) : p[j] # "status") <=>
            Head(p) # "status" /\ \A j \in 1..i : Tail(p)[j] # "status"
    BY InTimeTail, Zenon
  <2> QED
    BY <1>1, <2>1
<1>3. Head(p) \in {"header", "defaults", "status"} => Head(p) \notin Ends
  BY DEF Ends
<1>4. /\ SetsOf(q) \subseteq Nat \ {0} /\ Hdrs(q) \subseteq Nat \ {0}
      /\ Cardinality({i + 1 : i \in SetsOf(q)}) = Cardinality(SetsOf(q))
      /\ Cardinality({1} \cup {i + 1 : i \in SetsOf(q)}) = Cardinality(SetsOf(q)) + 1
      /\ Cardinality({i + 1 : i \in Hdrs(q)}) = Cardinality(Hdrs(q))
  <2>1. /\ SetsOf(q) \subseteq Nat \ {0} /\ IsFiniteSet(SetsOf(q)) /\ SetsOf(q) \subseteq Nat
        /\ Hdrs(q) \subseteq Nat \ {0} /\ IsFiniteSet(Hdrs(q)) /\ Hdrs(q) \subseteq Nat
        /\ 1 \in Nat
    BY MarksFinite
  <2>2. Cardinality({i + 1 : i \in Hdrs(q)}) = Cardinality(Hdrs(q))
    BY <2>1, Shifted
  <2>3. Cardinality({i + 1 : i \in SetsOf(q)}) = Cardinality(SetsOf(q))
    BY <2>1, Shifted
  <2>4. Cardinality({1} \cup {i + 1 : i \in SetsOf(q)}) = Cardinality(SetsOf(q)) + 1
    BY <2>1, OneShifted
  <2> QED
    BY <2>1, <2>2, <2>3, <2>4
<1>5. ASSUME NEW j \in 1..Len(q), Head(p) \notin Ends
      PROVE  /\ Head(p) = "status" => (Sets(p, j + 1) <=> j \in Hdrs(q))
             /\ Head(p) # "status" => (Sets(p, j + 1) <=> j \in SetsOf(q))
  <2>1. Sets(p, j + 1) <=>
          InTime(q, j) /\ (q[j] = "header"
                           \/ (q[j] = "defaults" /\ \A k \in 1..(j + 1) : p[k] # "status"))
    BY <1>2, <1>5, Zenon DEF Sets
  <2>2. j \in Hdrs(q) <=> InTime(q, j) /\ q[j] = "header"
    BY <1>5 DEF Hdrs
  <2>3. j \in SetsOf(q) <=> InTime(q, j) /\ (q[j] = "header"
                               \/ (q[j] = "defaults" /\ \A k \in 1..j : q[k] # "status"))
    BY <1>5, Zenon DEF SetsOf, Sets
  <2>4. (\A k \in 1..(j + 1) : p[k] # "status") <=>
          Head(p) # "status" /\ \A k \in 1..j : q[k] # "status"
    BY <1>s
  <2> QED
    BY <2>1, <2>2, <2>3, <2>4, Zenon
<1>6. ASSUME NEW S, S \subseteq 1..Len(q),
             \A j \in 1..Len(q) : Sets(p, j + 1) <=> j \in S
      PROVE  /\ ~Sets(p, 1) => SetsOf(p) = {j + 1 : j \in S}
             /\ Sets(p, 1) => SetsOf(p) = {1} \cup {j + 1 : j \in S}
  <2>1. \A i \in 1..Len(p) : i # 1 => (i \in SetsOf(p) <=> i \in {j + 1 : j \in S})
    <3> SUFFICES ASSUME NEW i \in 1..Len(p), i # 1
                 PROVE  i \in SetsOf(p) <=> i \in {j + 1 : j \in S}
      OBVIOUS
    <3>1. PICK j \in 1..Len(q) : i = j + 1
      BY <1>2
    <3>2. i \in SetsOf(p) <=> j \in S
      BY <1>6, <3>1 DEF SetsOf
    <3>3. i \in {k + 1 : k \in S} <=> j \in S
      BY <1>6, <3>1
    <3> QED
      BY <3>2, <3>3
  <2>2. {j + 1 : j \in S} \subseteq 1..Len(p) /\ 1 \notin {j + 1 : j \in S}
    BY <1>2, <1>s, <1>6
  <2>3. SetsOf(p) \subseteq 1..Len(p) /\ (1 \in SetsOf(p) <=> Sets(p, 1))
    BY <1>2 DEF SetsOf
  <2> QED
    BY <2>1, <2>2, <2>3
<1>7. Sets(p, 1) <=> Head(p) \in {"header", "defaults"}
  <2>1. Head(p) = "defaults" => \A j \in 1..1 : p[j] # "status"
    BY <1>2
  <2> QED
    BY <1>2, <1>3, <2>1 DEF Sets
<1>8. SetsOf(q) \subseteq 1..Len(q) /\ Hdrs(q) \subseteq 1..Len(q)
  BY DEF SetsOf, Hdrs
<1>9. ASSUME Head(p) = "status"
      PROVE  SetsOf(p) = {j + 1 : j \in Hdrs(q)}
  <2>1. \A j \in 1..Len(q) : Sets(p, j + 1) <=> j \in Hdrs(q)
    BY <1>3, <1>5, <1>9
  <2> QED
    BY <1>6, <1>7, <1>8, <1>9, <2>1
<1>10. ASSUME Head(p) \notin Ends, Head(p) # "status"
       PROVE  /\ ~Sets(p, 1) => SetsOf(p) = {j + 1 : j \in SetsOf(q)}
              /\ Sets(p, 1) => SetsOf(p) = {1} \cup {j + 1 : j \in SetsOf(q)}
  <2>1. \A j \in 1..Len(q) : Sets(p, j + 1) <=> j \in SetsOf(q)
    BY <1>5, <1>10
  <2> QED
    BY <1>6, <1>8, <2>1
<1> QED
  BY <1>1, <1>3, <1>4, <1>7, <1>9, <1>10

(* The status line puts the enqueued headers before the rest of the plan. *)
LEMMA HdrsEnqueued ==
  ASSUME NEW e \in Nat, NEW T \in Seq(Calls)
  PROVE  Cardinality(Hdrs([i \in 1..e |-> "header"] \o T)) = e + Cardinality(Hdrs(T))
<1>1. PICK p \in Seq(Calls) : p = [i \in 1..e |-> "header"] \o T
  <2>1. [i \in 1..e |-> "header"] \in Seq(Calls)
    BY DEF Calls
  <2>2. [i \in 1..e |-> "header"] \o T \in Seq(Calls)
    BY <2>1
  <2> QED
    BY <2>2
<1>2. /\ Len(p) = e + Len(T) /\ Len(T) \in Nat
      /\ \A i \in 1..e : p[i] = "header" /\ i \in 1..Len(p)
      /\ \A i \in 1..Len(T) : p[i + e] = T[i] /\ i + e \in 1..Len(p)
  <2>1. PICK made \in Seq(Calls) : made = [i \in 1..e |-> "header"]
    <3>1. [i \in 1..e |-> "header"] \in Seq(Calls)
      BY DEF Calls
    <3> QED
      BY <3>1
  <2>2. Len(made) = e /\ \A i \in 1..e : made[i] = "header"
    BY <2>1
  <2>3. p = made \o T
    BY <1>1, <2>1
  <2>4. /\ Len(p) = Len(made) + Len(T) /\ Len(T) \in Nat
        /\ \A i \in 1..Len(made) : p[i] = made[i]
        /\ \A i \in 1..Len(T) : p[Len(made) + i] = T[i]
    BY <2>3
  <2>5. \A i \in 1..Len(T) : p[i + e] = T[i]
    BY <2>2, <2>4
  <2> QED
    BY <2>2, <2>4, <2>5
<1>3. "header" \notin Ends
  BY DEF Ends
<1>4. \A i \in 1..e : i \in Hdrs(p)
  <2> SUFFICES ASSUME NEW i \in 1..e PROVE i \in Hdrs(p)
    OBVIOUS
  <2>1. \A j \in 1..i : p[j] \notin Ends
    BY <1>2, <1>3
  <2> QED
    BY <1>2, <2>1 DEF Hdrs, InTime
<1>5. ASSUME NEW i \in 1..Len(T)
      PROVE  i + e \in Hdrs(p) <=> i \in Hdrs(T)
  <2>1. (\A j \in 1..(i + e) : p[j] \notin Ends) <=> (\A j \in 1..i : T[j] \notin Ends)
    <3>1. ASSUME \A j \in 1..(i + e) : p[j] \notin Ends, NEW j \in 1..i
          PROVE  T[j] \notin Ends
      <4>1. j + e \in 1..(i + e) /\ j \in 1..Len(T)
        BY <1>2
      <4> QED
        BY <1>2, <3>1, <4>1
    <3>2. ASSUME \A j \in 1..i : T[j] \notin Ends, NEW j \in 1..(i + e)
          PROVE  p[j] \notin Ends
      <4>1. CASE j \in 1..e
        BY <1>2, <1>3, <4>1
      <4>2. CASE j \notin 1..e
        <5>1. j - e \in 1..i /\ j - e \in 1..Len(T) /\ (j - e) + e = j
          BY <1>2, <4>2
        <5> QED
          BY <1>2, <3>2, <5>1
      <4> QED
        BY <4>1, <4>2
    <3> QED
      BY <3>1, <3>2
  <2>2. p[i + e] = T[i] /\ i + e \in 1..Len(p)
    BY <1>2
  <2> QED
    BY <2>1, <2>2 DEF Hdrs, InTime
<1>6. /\ Hdrs(T) \subseteq Nat \ {0} /\ IsFiniteSet(Hdrs(T)) /\ Cardinality(Hdrs(T)) \in Nat
      /\ Hdrs(T) \subseteq Nat /\ Hdrs(T) \subseteq 1..Len(T) /\ Hdrs(p) \subseteq 1..Len(p)
  <2>1. Hdrs(T) \subseteq Nat \ {0} /\ IsFiniteSet(Hdrs(T)) /\ Cardinality(Hdrs(T)) \in Nat
    BY MarksFinite
  <2> QED
    BY <2>1 DEF Hdrs
<1> DEFINE rest == {i + e : i \in Hdrs(T)}
<1>7. IsFiniteSet(rest) /\ Cardinality(rest) = Cardinality(Hdrs(T))
  BY <1>6, Shifted
<1>8. (1..e) \cap rest = {}
  BY <1>6
<1>9. Hdrs(p) = (1..e) \cup rest
  <2>1. \A i \in 1..Len(p) : i \notin 1..e => \E j \in 1..Len(T) : i = j + e
    <3> SUFFICES ASSUME NEW i \in 1..Len(p), i \notin 1..e PROVE \E j \in 1..Len(T) : i = j + e
      OBVIOUS
    <3>1. i - e \in 1..Len(T) /\ i = (i - e) + e
      BY <1>2
    <3> QED
      BY <3>1
  <2>2. Hdrs(p) \subseteq (1..e) \cup rest
    BY <1>5, <1>6, <2>1
  <2>3. rest \subseteq Hdrs(p)
    BY <1>5, <1>6
  <2> QED
    BY <1>4, <2>2, <2>3
<1>10. IsFiniteSet(1..e) /\ Cardinality(1..e) = e
  <2>1. 1 \in Int /\ e \in Int
    OBVIOUS
  <2> QED
    BY <2>1, FS_Interval
<1> HIDE DEF rest
<1>11. Cardinality((1..e) \cup rest) = e + Cardinality(rest)
  <2>1. Cardinality((1..e) \cup rest) =
          Cardinality(1..e) + Cardinality(rest) - Cardinality((1..e) \cap rest)
    BY <1>7, <1>10, FS_Union
  <2>2. Cardinality((1..e) \cap rest) = 0
    BY <1>8, FS_EmptySet
  <2>3. Cardinality(rest) \in Nat
    BY <1>6, <1>7
  <2> QED
    BY <1>10, <2>1, <2>2, <2>3
<1> QED
  BY <1>1, <1>7, <1>9, <1>11

(* The calls a method makes that ends the headers. *)
LEMMA NoneInTime ==
  ASSUME NEW made \in Seq(Calls), NEW T \in Seq(Calls), NEW k \in 1..Len(made), made[k] \in Ends,
         \A i \in 1..k : made[i] \notin {"header", "status"}
  PROVE  Cardinality(Hdrs(made \o T)) = 0 /\ ~StatusFirst(made \o T)
<1>1. PICK p \in Seq(Calls) : p = made \o T
  <2>1. made \o T \in Seq(Calls)
    OBVIOUS
  <2> QED
    BY <2>1
<1>2. Len(made) \in Nat /\ \A i \in 1..k : p[i] = made[i]
  BY <1>1
<1>3. ASSUME NEW i \in 1..Len(p), InTime(p, i)
      PROVE  p[i] \notin {"header", "status"}
  <2>1. CASE i < k
    BY <1>2, <2>1
  <2>2. CASE k <= i
    <3>1. k \in 1..i /\ p[k] \in Ends
      BY <1>2, <2>2
    <3> QED
      BY <1>3, <3>1 DEF InTime
  <2> QED
    BY <2>1, <2>2
<1>4. Hdrs(p) = {}
  BY <1>3 DEF Hdrs
<1>5. ~StatusFirst(p)
  BY <1>3 DEF StatusFirst
<1> QED
  BY <1>1, <1>4, <1>5, FS_EmptySet

(* A status line that is still to come was to come before. *)
LEMMA StatusTail ==
  ASSUME NEW p \in Seq(Calls), p # <<>>, Head(p) \notin Ends, StatusFirst(Tail(p))
  PROVE  StatusFirst(p)
<1>1. PICK i \in 1..Len(Tail(p)) : Tail(p)[i] = "status" /\ InTime(Tail(p), i)
  BY DEF StatusFirst
<1>2. i + 1 \in 1..Len(p) /\ p[i + 1] = "status" /\ InTime(p, i + 1)
  BY <1>1, InTimeTail
<1> QED
  BY <1>2 DEF StatusFirst

--------------------------------------------------------------------------------
(* What was written of the current response. *)
LEMMA WrittenType ==
  ASSUME IType, NEW part
  PROVE  /\ Written(part) \subseteq 1..Len(wire) /\ Len(wire) \in Nat
         /\ IsFiniteSet(Written(part)) /\ Cardinality(Written(part)) \in Nat
<1>1. Len(wire) \in Nat
  BY DEF IType, TypeOK
<1>2. IsFiniteSet(1..Len(wire)) /\ Written(part) \in SUBSET (1..Len(wire))
  BY <1>1, FS_Interval DEF Written
<1> QED
  BY <1>1, <1>2, FS_Subset, FS_CardinalityType

(* One piece more is written. *)
LEMMA WrittenMore ==
  ASSUME IType, NEW piece, wire' = Append(wire, piece), Current' = Current, NEW part
  PROVE  /\ (piece.part # part \/ piece.who # Current) => Written(part)' = Written(part)
         /\ (piece.part = part /\ piece.who = Current) =>
              /\ Written(part)' = Written(part) \cup {Len(wire) + 1}
              /\ Cardinality(Written(part)') = Cardinality(Written(part)) + 1
<1>1. Len(wire) \in Nat /\ Len(wire') = Len(wire) + 1 /\ wire'[Len(wire) + 1] = piece
      /\ \A i \in 1..Len(wire) : wire'[i] = wire[i]
  <2>1. wire \in Seq(Piece)
    BY DEF IType, TypeOK
  <2> QED
    BY <2>1
<1>2. 1..Len(wire') = 1..Len(wire) \cup {Len(wire) + 1}
  BY <1>1
<1>3. ASSUME NEW i
      PROVE  i \in Written(part)' <=>
               \/ i \in Written(part)
               \/ i = Len(wire) + 1 /\ piece.part = part /\ piece.who = Current
  BY <1>1, <1>2 DEF Written
<1>4. Len(wire) + 1 \notin Written(part)
  BY <1>1, WrittenType
<1>5. (piece.part # part \/ piece.who # Current) => Written(part)' = Written(part)
  BY <1>3
<1>6. (piece.part = part /\ piece.who = Current) =>
        Written(part)' = Written(part) \cup {Len(wire) + 1}
  BY <1>3
<1> QED
  BY <1>4, <1>5, <1>6, WrittenType, FS_AddElement

--------------------------------------------------------------------------------
(* What only the methods that send a body call is called by them alone.     *)
PlanInv ==
  /\ state = "line" => Left \cap InternalCalls = {}
  /\ state = "headers" => Left \cap InternalCalls = {} \/ At(1) \/ At(2) \/ At(3)

(* What the streams hold is of a body. *)
BodyPieces == {p \in Piece : p.part \in {"data", "chunk", "last"}}

(* What the streams hold is of a body. *)
PartsInv == framer \in Seq(BodyPieces) /\ tail \in [Responses -> Seq(BodyPieces)]

(* PlanInv is kept by the steps of a route. *)
LEMMA PlanRoute == IType /\ PlanInv /\ RouteStep => PlanInv'
<1> SUFFICES ASSUME IType, PlanInv, RouteStep PROVE PlanInv'
  OBVIOUS
<1>0. plan \in Seq(Calls) /\ enqueued \in Nat /\ InternalCalls = {"framing", "pipe", "closed"}
  BY DEF IType, TypeOK, InternalCalls
<1>1. ASSUME plan # <<>>, Head(plan) \notin {"framing", "defaults", "endHeaders"}
      PROVE  /\ ~At(1) /\ ~At(2) /\ ~At(3)
             /\ state \in {"line", "headers"} => Left \cap InternalCalls = {}
  <2>1. ~At(1) /\ ~At(2) /\ ~At(3)
    BY <1>1, AtAll
  <2> QED
    BY <2>1 DEF PlanInv
<1>2. ASSUME plan # <<>>, plan' = Tail(plan), Left \cap InternalCalls = {}
      PROVE  Left' \cap InternalCalls = {}
  BY <1>0, <1>2, LeftReturns
<1>3. CASE AddBodyTransform \/ AddRawBodyTransform \/ SetBodySize
  <2>1. PICK call \in {"transform", "raw", "size"} : Call(call) /\ plan' = Tail(plan) /\ state' = state
    BY <1>3 DEF AddBodyTransform, AddRawBodyTransform, SetBodySize, Returns
  <2>2. plan # <<>> /\ Head(plan) \notin {"framing", "defaults", "endHeaders"}
    BY <2>1, CallState
  <2> QED
    BY <1>1, <1>2, <2>1, <2>2 DEF PlanInv
<1>4. CASE Header
  <2>1. PICK call \in {"header", "defaults"} : Call(call) /\ plan' = Tail(plan) /\ state' = state
    BY <1>4 DEF Header, Returns
  <2>2. plan # <<>> /\ Head(plan) = call
    BY <2>1, CallState
  <2>3. ~At(1) /\ ~At(3) /\ (At(2) => At(3)')
    BY <2>1, <2>2, AtAll
  <2> QED
    BY <1>2, <2>1, <2>2, <2>3 DEF PlanInv
<1>5. CASE Status
  <2>1. [i \in 1..enqueued |-> "header"] \in Seq(Calls)
    BY <1>0 DEF Calls
  <2>2. PICK made \in Seq(Calls) : made = [i \in 1..enqueued |-> "header"]
    BY <2>1
  <2>3. \A i \in 1..Len(made) : made[i] \in {"header"}
    BY <1>0, <2>2
  <2>4. Call("status") /\ plan' = made \o Tail(plan)
    BY <1>5, <2>2 DEF Status
  <2>5. plan # <<>> /\ Head(plan) = "status" /\ state = "line" /\ state' = "headers"
    <3>1. plan # <<>> /\ Head(plan) = "status" /\ state \in Allowed("status")
      BY <2>4, CallState
    <3>2. state' = "headers"
      BY <1>5 DEF Status
    <3> QED
      BY <3>1, <3>2 DEF Allowed
  <2>6. Left' \subseteq Left \cup {"header"}
    BY <1>0, <2>3, <2>4, <2>5, LeftReplaced
  <2> QED
    BY <1>0, <1>1, <2>5, <2>6 DEF PlanInv
<1>6. CASE SendBody
  <2>1. PICK call \in {"buffered", "streamed"} : Call(call)
    BY <1>6 DEF SendBody
  <2>2. plan # <<>> /\ Head(plan) = call /\ state = "headers" /\ state' = state
    BY <1>6, <2>1, CallState DEF Allowed, SendBody
  <2>3. Left \cap InternalCalls = {}
    BY <1>1, <2>2
  <2>4. At(1)'
    BY <1>6, <2>2, <2>3, AtStart DEF SendBody
  <2> QED
    BY <2>2, <2>4 DEF PlanInv
<1>7. CASE SendEmptyBody
  <2>1. <<"defaults", "endHeaders", "endBody">> \in Seq(Calls)
    BY DEF Calls
  <2>2. PICK made \in Seq(Calls) : made = <<"defaults", "endHeaders", "endBody">>
    BY <2>1
  <2>3. \A i \in 1..Len(made) : made[i] \in {"defaults", "endHeaders", "endBody"}
    BY <2>2
  <2>4. Call("empty") /\ plan' = made \o Tail(plan) /\ state' = state
    BY <1>7, <2>2 DEF SendEmptyBody, response
  <2>5. plan # <<>> /\ Head(plan) = "empty"
    BY <2>4, CallState
  <2>6. Left' \subseteq Left \cup {"defaults", "endHeaders", "endBody"}
    BY <1>0, <2>3, <2>4, <2>5, LeftReplaced
  <2> QED
    BY <1>0, <1>1, <2>4, <2>5, <2>6 DEF PlanInv
<1>8. CASE Framing
  <2>1. Call("framing") /\ plan' = Tail(plan) /\ state' = state
    BY <1>8 DEF Framing, Returns
  <2>2. plan # <<>> /\ Head(plan) = "framing" /\ state = "headers"
    BY <2>1, CallState DEF Allowed
  <2>3. "framing" \in Left \cap InternalCalls /\ ~At(2) /\ ~At(3)
    BY <1>0, <2>2, LeftHead, AtAll
  <2>4. At(1)
    BY <2>2, <2>3 DEF PlanInv
  <2>5. At(2)'
    BY <2>1, <2>4, AtAll
  <2> QED
    BY <2>1, <2>2, <2>5 DEF PlanInv
<1>9. CASE EndHeaders \/ EndBody
  BY <1>9 DEF EndHeaders, EndBody, PlanInv
<1>10. CASE Pipe \/ FramerClosed
  <2>1. PICK call \in {"pipe", "closed"} : Call(call)
    BY <1>10 DEF Pipe, FramerClosed
  <2>2. plan # <<>> /\ Head(plan) = call /\ state' = state
    BY <1>10, <2>1, CallState DEF Pipe, FramerClosed, response
  <2>3. call \in Left \cap InternalCalls
    BY <1>0, <2>1, <2>2, LeftHead
  <2>4. state \notin {"line", "headers"}
    BY <1>1, <2>1, <2>2, <2>3
  <2> QED
    BY <2>2, <2>4 DEF PlanInv
<1>11. CASE Fail
  <2>1. Left' = {}
    BY <1>11 DEF Fail, Left
  <2> QED
    BY <2>1 DEF PlanInv
<1> QED
  BY <1>3, <1>4, <1>5, <1>6, <1>7, <1>8, <1>9, <1>10, <1>11 DEF RouteStep

(* And by a route that begins. *)
LEMMA PlanBegin ==
  ASSUME Begin
  PROVE  PlanInv' /\ plan' \in Seq(Calls)
<1>1. PICK route \in Routes : plan' = route.calls
  BY DEF Begin
<1>2. plan' \in Seq(Calls \ InternalCalls) /\ state' = "line"
  BY <1>1, RoutesAssumption DEF Begin, Route
<1>3. Left' \cap InternalCalls = {} /\ plan' \in Seq(Calls)
  BY <1>2 DEF Left
<1> QED
  BY <1>2, <1>3 DEF PlanInv

(* PlanInv is inductive, together with the types. *)
LEMMA PlanNext == IType /\ PlanInv /\ [Next]_vars => PlanInv'
<1> SUFFICES ASSUME IType, PlanInv, [Next]_vars PROVE PlanInv'
  OBVIOUS
<1>1. CASE Begin
  BY <1>1, PlanBegin
<1>2. CASE StreamStep \/ PeerCloses \/ UNCHANGED vars
  <2>1. plan' = plan /\ state' \in {state, "finished"}
    BY <1>2 DEF StreamStep, PeerCloses, vars, response, Read, SourceEnds, Encode, EncoderEnds,
       Flush, FramerCloses, FlushRaw, Streaming, Final
  <2>2. Left' = Left /\ (At(1) => At(1)') /\ (At(2) => At(2)') /\ (At(3) => At(3)')
    BY <2>1 DEF Left, At
  <2> QED
    BY <2>1, <2>2 DEF PlanInv
<1> QED
  BY <1>1, <1>2, PlanRoute DEF Next, Step

(* PartsInv is inductive, together with the types. *)
LEMMA PartsNext == Counts /\ PartsInv /\ [Next]_vars => PartsInv'
<1> SUFFICES ASSUME Counts, PartsInv, [Next]_vars PROVE PartsInv'
  OBVIOUS
<1>1. PICK B : B = BodyPieces
  OBVIOUS
<1>2. framer \in Seq(B) /\ tail \in [Responses -> Seq(B)] /\ BodyPieces' = B
  BY <1>1 DEF PartsInv, BodyPieces
<1>3. ASSUME framer' \in Seq(B), tail' \in [Responses -> Seq(B)]
      PROVE  PartsInv'
  BY <1>2, <1>3 DEF PartsInv
<1>4. ASSUME Current \in Responses, NEW part \in {"data", "chunk", "last"}, NEW n \in Nat
      PROVE  [who |-> Current, part |-> part, n |-> n] \in B
  <2>1. part \in Parts
    BY DEF Parts
  <2> QED
    BY <1>1, <1>4, <2>1 DEF BodyPieces, Piece
<1>5. ASSUME Current \in Responses, NEW size \in Nat
      PROVE  framer \o Framed(size) \in Seq(B)
  <2>1. \A p \in B : <<p>> \in Seq(B)
    OBVIOUS
  <2>2. <<>> \in Seq(B) /\ "chunk" \in {"data", "chunk", "last"} /\ "data" \in {"data", "chunk", "last"}
    OBVIOUS
  <2>3. Framed(size) \in Seq(B)
    BY <1>4, <1>5, <2>1, <2>2, Zenon DEF Framed
  <2> QED
    BY <1>2, <2>3
<1>6. ASSUME Current \in Responses, Final
      PROVE  framer' \in Seq(B)
  <2>1. ZeroChunk \in B
    BY <1>4, <1>6 DEF ZeroChunk
  <2> QED
    BY <1>2, <1>6, <2>1 DEF Final
<1>7. Flowing => Current \in Responses
  BY DEF Flowing, Counts, Busy
<1>8. CASE Begin
  <2>1. framer' = <<>> /\ tail' = tail
    BY <1>8 DEF Begin
  <2> QED
    BY <1>2, <1>3, <2>1
<1>9. CASE RouteStep \/ PeerCloses \/ UNCHANGED vars
  <2>1. framer' = framer /\ tail' = tail
    BY <1>9 DEF RouteStep, AddBodyTransform, AddRawBodyTransform, Header, SetBodySize,
         Status, SendBody, SendEmptyBody, Framing, EndHeaders, EndBody, Pipe, FramerClosed, Fail,
         PeerCloses, vars, streams
  <2> QED
    BY <1>2, <1>3, <2>1
<1>10. CASE Read
  <2>1. Head(source) \in Nat
    BY <1>10 DEF Read, Counts
  <2>2. framer' \in Seq(B)
    BY <1>2, <1>5, <1>7, <1>10, <2>1 DEF Read
  <2> QED
    BY <1>2, <1>3, <1>10, <2>2 DEF Read
<1>11. CASE SourceEnds \/ EncoderEnds
  <2>1. framer' \in Seq(B) /\ tail' = tail
    BY <1>2, <1>6, <1>7, <1>11 DEF SourceEnds, EncoderEnds
  <2> QED
    BY <1>2, <1>3, <2>1
<1>12. CASE Encode
  <2>1. Head(encoder) \in Nat
    BY <1>12 DEF Encode, Counts
  <2>2. framer' \in Seq(B)
    BY <1>5, <1>7, <1>12, <2>1 DEF Encode
  <2> QED
    BY <1>2, <1>3, <1>12, <2>2 DEF Encode
<1>13. CASE Flush
  <2>1. Current \in Responses /\ framer # <<>> /\ framer' = Tail(framer)
    BY <1>7, <1>13 DEF Flush
  <2>2. framer' \in Seq(B) /\ Head(framer) \in B
    BY <1>2, <2>1
  <2>3. CASE raw
    <3>1. tail' = [tail EXCEPT ![Current] = Append(@, Head(framer))]
      BY <1>13, <2>3 DEF Flush
    <3> QED
      BY <1>2, <1>3, <2>1, <2>2, <3>1
  <2>4. CASE ~raw
    BY <1>2, <1>3, <1>13, <2>2, <2>4 DEF Flush
  <2> QED
    BY <2>3, <2>4
<1>14. CASE FramerCloses
  BY <1>2, <1>3, <1>14 DEF FramerCloses
<1>15. ASSUME NEW r \in Responses, FlushRaw(r)
       PROVE  PartsInv'
  <2>1. tail[r] # <<>> /\ tail' = [tail EXCEPT ![r] = Tail(@)] /\ framer' = framer
    BY <1>15 DEF FlushRaw
  <2>2. Tail(tail[r]) \in Seq(B)
    BY <1>2, <2>1
  <2> QED
    BY <1>2, <1>3, <2>1, <2>2
<1> QED
  BY <1>8, <1>9, <1>10, <1>11, <1>12, <1>13, <1>14, <1>15 DEF Next, Step, StreamStep

--------------------------------------------------------------------------------
(* The headers the route has set and those it will set in time.             *)
Wanted == Cardinality(SetsOf(Now.calls))

(* Before the status line: the enqueued headers and those to come. *)
LineHeaders ==
  /\ Written("header") = {} /\ Written("blank") = {}
  /\ StatusFirst(plan) => enqueued + Cardinality(SetsOf(plan)) = Wanted

(* After it: the written headers and those to come. *)
MoreHeaders ==
  /\ Written("blank") = {}
  /\ ~Idle => Cardinality(Written("header")) + Cardinality(Hdrs(plan)) = Wanted

(* Once the headers ended: all of them, ahead of the blank line. *)
AllHeaders ==
  /\ Cardinality(Written("header")) = Wanted
  /\ \A i \in Written("header"), j \in Written("blank") : i < j

(* One of these holds in each state of a response. *)
HdrInv ==
  Current > 0 =>
    /\ state = "line" => LineHeaders
    /\ state = "headers" => MoreHeaders
    /\ state \in {"body", "finished"} => AllHeaders

(* What a call leaves of the pieces that were written. *)
LEMMA CallWritten ==
  ASSUME IType, NEW call, Call(call)
  PROVE  /\ Current' = Current /\ Now' = Now /\ Wanted' = Wanted
         /\ Writes(call) = <<>> => \A part : Written(part)' = Written(part)
         /\ \A p \in Parts : Writes(call) = <<p>> =>
              /\ \A part : part # p => Written(part)' = Written(part)
              /\ Written(p)' = Written(p) \cup {Len(wire) + 1}
              /\ Cardinality(Written(p)') = Cardinality(Written(p)) + 1
<1>1. Current' = Current /\ Now' = Now /\ Wanted' = Wanted
  BY CallState DEF Now, Wanted
<1>2. ASSUME Writes(call) = <<>>
      PROVE  \A part : Written(part)' = Written(part)
  <2>1. wire' = wire
    BY <1>2, CallSends
  <2> QED
    BY <1>1, <2>1 DEF Written
<1>3. ASSUME NEW p \in Parts, Writes(call) = <<p>>
      PROVE  /\ \A part : part # p => Written(part)' = Written(part)
             /\ Written(p)' = Written(p) \cup {Len(wire) + 1}
             /\ Cardinality(Written(p)') = Cardinality(Written(p)) + 1
  <2>1. wire' = Append(wire, Says(p)) /\ Says(p).who = Current /\ Says(p).part = p
    BY <1>3, CallSends DEF Says
  <2> QED
    BY <1>1, <2>1, WrittenMore
<1> QED
  BY <1>1, <1>2, <1>3

(* The headers of a response whose status line is not sent. *)
LEMMA LineRoute ==
  ASSUME IType, PlanInv, Current \in Responses, RouteStep, ~Fail, state = "line", LineHeaders
  PROVE  \/ state' = "line" /\ LineHeaders'
         \/ state' = "headers" /\ MoreHeaders'
<1>1. /\ plan \in Seq(Calls) /\ plan # <<>> /\ Tail(plan) \in Seq(Calls) /\ enqueued \in Nat
      /\ Cardinality(SetsOf(plan)) \in Nat /\ Cardinality(SetsOf(Tail(plan))) \in Nat
      /\ Head(plan) \notin InternalCalls
  <2>1. PICK call : Call(call)
    BY DEF RouteStep, AddBodyTransform, AddRawBodyTransform, Header, SetBodySize,
       Status, SendBody, SendEmptyBody, Framing, EndHeaders, EndBody, Pipe, FramerClosed
  <2>2. plan \in Seq(Calls) /\ plan # <<>> /\ Tail(plan) \in Seq(Calls)
    BY <2>1, CallType
  <2>3. Head(plan) \notin InternalCalls
    BY <2>2, LeftHead DEF PlanInv
  <2> QED
    BY <2>2, <2>3, MarksFinite DEF IType, TypeOK
<1>2. ASSUME NEW call, Call(call)
      PROVE  Head(plan) = call /\ call \notin {"buffered", "streamed", "framing", "endHeaders", "endBody"}
  BY <1>2, CallState DEF Allowed
<1>3. CASE AddBodyTransform \/ AddRawBodyTransform \/ SetBodySize
  <2>1. PICK call \in {"transform", "raw", "size"} :
          Call(call) /\ plan' = Tail(plan) /\ state' = state /\ enqueued' = enqueued
    BY <1>3 DEF AddBodyTransform, AddRawBodyTransform, SetBodySize, Returns
  <2>2. Writes(call) = <<>>
    BY <2>1 DEF Writes
  <2>3. \A part : Written(part)' = Written(part)
    BY <2>1, <2>2, CallWritten
  <2>4. Wanted' = Wanted
    BY <2>1, CallWritten
  <2>5. Head(plan) \notin Ends \cup {"header", "defaults", "status"}
    BY <1>2, <2>1 DEF Ends
  <2>6. Cardinality(SetsOf(plan)) = Cardinality(SetsOf(plan'))
    BY <1>1, <2>1, <2>5, SetsTail
  <2>7. StatusFirst(plan') => StatusFirst(plan)
    BY <1>1, <2>1, <2>5, StatusTail
  <2> QED
    BY <2>1, <2>3, <2>4, <2>6, <2>7 DEF LineHeaders
<1>4. CASE Header
  <2>1. PICK call \in {"header", "defaults"} :
          Call(call) /\ plan' = Tail(plan) /\ state' = state /\ enqueued' = enqueued + 1
    BY <1>4 DEF Header, Returns
  <2>2. Writes(call) = <<>>
    BY <2>1 DEF Writes
  <2>3. \A part : Written(part)' = Written(part)
    BY <2>1, <2>2, CallWritten
  <2>4. Wanted' = Wanted
    BY <2>1, CallWritten
  <2>5. Head(plan) \in {"header", "defaults"} /\ Head(plan) \notin Ends
    BY <1>2, <2>1 DEF Ends
  <2>6. Cardinality(SetsOf(plan)) = Cardinality(SetsOf(plan')) + 1
    BY <1>1, <2>1, <2>5, SetsTail
  <2>7. StatusFirst(plan') => StatusFirst(plan)
    BY <1>1, <2>1, <2>5, StatusTail
  <2>8. enqueued' + Cardinality(SetsOf(plan')) = enqueued + Cardinality(SetsOf(plan))
    BY <1>1, <2>1, <2>6
  <2>9. StatusFirst(plan') => enqueued' + Cardinality(SetsOf(plan')) = Wanted'
    BY <2>4, <2>7, <2>8 DEF LineHeaders
  <2> QED
    BY <2>1, <2>3, <2>9 DEF LineHeaders
<1>5. CASE Status
  <2>1. /\ Call("status") /\ state' = "headers"
        /\ plan' = [i \in 1..enqueued |-> "header"] \o Tail(plan)
    BY <1>5 DEF Status
  <2>2. Writes("status") = <<"status">> /\ "status" \in Parts
    BY DEF Writes, Parts
  <2>3. Written("header")' = Written("header") /\ Written("blank")' = Written("blank")
    BY <2>1, <2>2, CallWritten
  <2>4. Wanted' = Wanted /\ Head(plan) = "status"
    BY <1>2, <2>1, CallWritten
  <2>5. Cardinality(SetsOf(plan)) = Cardinality(Hdrs(Tail(plan)))
    BY <1>1, <2>4, SetsTail
  <2>6. Cardinality(Hdrs(plan')) = enqueued + Cardinality(Hdrs(Tail(plan)))
    BY <1>1, <2>1, HdrsEnqueued
  <2>7. StatusFirst(plan)
    <3>1. InTime(plan, 1) /\ plan[1] = "status" /\ 1 \in 1..Len(plan)
      BY <1>1, <2>4, InTimeTail DEF Ends
    <3> QED
      BY <3>1 DEF StatusFirst
  <2>8. Cardinality(Hdrs(plan')) = Wanted
    BY <2>5, <2>6, <2>7 DEF LineHeaders
  <2>9. Cardinality(Written("header")') = 0 /\ Wanted \in Nat
    <3>1. Written("header")' = {}
      BY <2>3 DEF LineHeaders
    <3>2. Cardinality({}) = 0
      BY FS_EmptySet
    <3>3. enqueued + Cardinality(SetsOf(plan)) = Wanted
      BY <2>7 DEF LineHeaders
    <3>4. Wanted \in Nat
      BY <1>1, <3>3
    <3> QED
      BY <3>1, <3>2, <3>4
  <2>10. Cardinality(Written("header")') + Cardinality(Hdrs(plan')) = Wanted'
    BY <2>4, <2>8, <2>9
  <2> QED
    BY <2>1, <2>3, <2>10 DEF LineHeaders, MoreHeaders
<1>6. CASE SendEmptyBody
  <2>1. <<"defaults", "endHeaders", "endBody">> \in Seq(Calls)
    BY DEF Calls
  <2>2. PICK made \in Seq(Calls) : made = <<"defaults", "endHeaders", "endBody">>
    BY <2>1
  <2>3. Call("empty") /\ plan' = made \o Tail(plan) /\ state' = state
    BY <1>6, <2>2 DEF SendEmptyBody, response
  <2>4. 2 \in 1..Len(made) /\ made[2] \in Ends /\ \A i \in 1..2 : made[i] \notin {"header", "status"}
    BY <2>2 DEF Ends
  <2>5. ~StatusFirst(plan')
    BY <1>1, <2>3, <2>4, NoneInTime
  <2>6. Writes("empty") = <<>>
    BY DEF Writes
  <2>7. \A part : Written(part)' = Written(part)
    BY <2>3, <2>6, CallWritten
  <2> QED
    BY <2>3, <2>5, <2>7 DEF LineHeaders
<1>7. ~SendBody /\ ~Framing /\ ~EndHeaders /\ ~EndBody /\ ~Pipe /\ ~FramerClosed
  BY <1>1, <1>2 DEF SendBody, Framing, EndHeaders, EndBody, Pipe, FramerClosed, InternalCalls
<1> QED
  BY <1>3, <1>4, <1>5, <1>6, <1>7 DEF RouteStep

(* The headers of a response whose status line is sent. *)
LEMMA HeadersRoute ==
  ASSUME IType, PlanInv, Current \in Responses, RouteStep, ~Fail, state = "headers", MoreHeaders
  PROVE  \/ state' = "headers" /\ MoreHeaders'
         \/ state' = "body" /\ AllHeaders'
<1>1. /\ plan \in Seq(Calls) /\ plan # <<>> /\ Tail(plan) \in Seq(Calls)
      /\ Cardinality(Hdrs(plan)) \in Nat /\ Cardinality(Hdrs(Tail(plan))) \in Nat
      /\ Cardinality(Written("header")) \in Nat /\ Len(wire) \in Nat
      /\ Head(plan) \notin {"pipe", "closed"}
  <2>1. PICK call : Call(call)
    BY DEF RouteStep, AddBodyTransform, AddRawBodyTransform, Header, SetBodySize,
       Status, SendBody, SendEmptyBody, Framing, EndHeaders, EndBody, Pipe, FramerClosed
  <2>2. plan \in Seq(Calls) /\ plan # <<>> /\ Tail(plan) \in Seq(Calls)
    BY <2>1, CallType
  <2>3. Head(plan) \notin {"pipe", "closed"}
    BY <2>2, LeftHead, AtAll DEF PlanInv, InternalCalls
  <2> QED
    BY <2>2, <2>3, MarksFinite, WrittenType
<1>2. ASSUME NEW call, Call(call)
      PROVE  Head(plan) = call /\ call \notin {"status", "endBody"}
  BY <1>2, CallState DEF Allowed
<1>3. Cardinality(Written("header")) + Cardinality(Hdrs(plan)) = Wanted /\ Written("blank") = {}
  BY <1>1 DEF MoreHeaders, Idle
<1>4. CASE AddBodyTransform \/ AddRawBodyTransform \/ SetBodySize
  <2>1. PICK call \in {"transform", "raw", "size"} :
          Call(call) /\ plan' = Tail(plan) /\ state' = state
    BY <1>4 DEF AddBodyTransform, AddRawBodyTransform, SetBodySize, Returns
  <2>2. Writes(call) = <<>>
    BY <2>1 DEF Writes
  <2>3. \A part : Written(part)' = Written(part)
    BY <2>1, <2>2, CallWritten
  <2>4. Wanted' = Wanted
    BY <2>1, CallWritten
  <2>5. Head(plan) \notin Ends /\ Head(plan) # "header"
    BY <1>2, <2>1 DEF Ends
  <2>6. Cardinality(Hdrs(plan)) = Cardinality(Hdrs(plan'))
    BY <1>1, <2>1, <2>5, HdrsTail
  <2> QED
    BY <1>3, <2>1, <2>3, <2>4, <2>6 DEF MoreHeaders
<1>5. CASE Header /\ Call("header")
  <2>1. plan' = Tail(plan) /\ state' = state
    BY <1>5 DEF Header, Returns
  <2>2. Writes("header") = <<"header">> /\ "header" \in Parts
    BY DEF Writes, Parts
  <2>3. /\ Cardinality(Written("header")') = Cardinality(Written("header")) + 1
        /\ Written("blank")' = Written("blank")
    BY <1>5, <2>2, CallWritten
  <2>4. Wanted' = Wanted /\ Head(plan) = "header"
    BY <1>2, <1>5, CallWritten
  <2>5. Cardinality(Hdrs(plan)) = Cardinality(Hdrs(plan')) + 1
    BY <1>1, <2>1, <2>4, HdrsTail
  <2>6. Cardinality(Written("header")') + Cardinality(Hdrs(plan')) = Wanted'
    BY <1>1, <1>3, <2>1, <2>3, <2>4, <2>5
  <2> QED
    BY <1>3, <2>1, <2>3, <2>6 DEF MoreHeaders
<1>6. CASE Header /\ Call("defaults")
  <2>1. plan' = Tail(plan) /\ state' = state
    BY <1>6 DEF Header, Returns
  <2>2. wire' = Append(wire, Says("default"))
        \/ wire' = Append(Append(wire, Says("default")), Says("chunked"))
    <3>1. "default" \in Parts /\ "chunked" \in Parts
      BY DEF Parts
    <3>2. Writes("defaults") \in {<<"default", "chunked">>, <<"default">>}
      BY DEF Writes
    <3> QED
      BY <1>6, <3>1, <3>2, CallSends
  <2>3. wire \in Seq(Piece) /\ Current' = Current
    BY <1>6, CallState DEF IType, TypeOK
  <2>4. ASSUME NEW part \in {"header", "blank"}
        PROVE  Written(part)' = Written(part)
    <3>1. Says("default").part = "default" /\ Says("chunked").part = "chunked"
      BY DEF Says
    <3>2. PICK d, c : d = Says("default") /\ c = Says("chunked")
      OBVIOUS
    <3>3. \A i \in 1..Len(wire) : wire'[i] = wire[i] /\ i \in 1..Len(wire')
      BY <2>2, <2>3, <3>2
    <3>4. \A i \in 1..Len(wire') : i \notin 1..Len(wire) => wire'[i] \in {d, c}
      BY <2>2, <2>3, <3>2
    <3>5. \A i \in 1..Len(wire') : i \notin 1..Len(wire) => wire'[i].part # part
      BY <2>4, <3>1, <3>2, <3>4
    <3> QED
      BY <2>3, <3>3, <3>5 DEF Written
  <2>5. Wanted' = Wanted /\ Head(plan) = "defaults"
    BY <1>2, <1>6, CallWritten
  <2>6. Cardinality(Hdrs(plan)) = Cardinality(Hdrs(plan'))
    BY <1>1, <2>1, <2>5, HdrsTail DEF Ends
  <2> QED
    BY <1>3, <2>1, <2>4, <2>5, <2>6 DEF MoreHeaders
<1>7. ASSUME NEW made \in Seq(Calls), NEW call \in Ends, Call(call), plan' = made \o Tail(plan),
             NEW k \in 1..Len(made), made[k] \in Ends,
             \A i \in 1..k : made[i] \notin {"header", "status"},
             Writes(call) = <<>>, state' = state
      PROVE  state' = "headers" /\ MoreHeaders'
  <2>1. \A part : Written(part)' = Written(part)
    BY <1>7, CallWritten
  <2>2. Wanted' = Wanted /\ Head(plan) \in Ends
    BY <1>2, <1>7, CallWritten
  <2>3. Cardinality(Hdrs(plan)) = 0
    BY <1>1, <2>2, HdrsTail
  <2>4. Cardinality(Hdrs(plan')) = 0
    BY <1>1, <1>7, NoneInTime
  <2> QED
    BY <1>3, <1>7, <2>1, <2>2, <2>3, <2>4 DEF MoreHeaders
<1>8. CASE SendBody
  <2>1. <<"framing", "defaults", "endHeaders", "pipe", "closed">> \in Seq(Calls)
    BY DEF Calls
  <2>2. PICK made \in Seq(Calls) :
          made = <<"framing", "defaults", "endHeaders", "pipe", "closed">>
    BY <2>1
  <2>3. PICK call \in {"buffered", "streamed"} : Call(call)
    BY <1>8 DEF SendBody
  <2>4. plan' = made \o Tail(plan) /\ state' = state
    BY <1>8, <2>2 DEF SendBody
  <2>5. call \in Ends /\ Writes(call) = <<>>
    BY <2>3 DEF Ends, Writes
  <2>6. 3 \in 1..Len(made) /\ made[3] \in Ends /\ \A i \in 1..3 : made[i] \notin {"header", "status"}
    BY <2>2 DEF Ends
  <2> QED
    BY <1>7, <2>3, <2>4, <2>5, <2>6
<1>9. CASE SendEmptyBody
  <2>1. <<"defaults", "endHeaders", "endBody">> \in Seq(Calls)
    BY DEF Calls
  <2>2. PICK made \in Seq(Calls) : made = <<"defaults", "endHeaders", "endBody">>
    BY <2>1
  <2>3. Call("empty") /\ plan' = made \o Tail(plan) /\ state' = state
    BY <1>9, <2>2 DEF SendEmptyBody, response
  <2>4. "empty" \in Ends /\ Writes("empty") = <<>>
    BY DEF Ends, Writes
  <2>5. 2 \in 1..Len(made) /\ made[2] \in Ends /\ \A i \in 1..2 : made[i] \notin {"header", "status"}
    BY <2>2 DEF Ends
  <2> QED
    BY <1>7, <2>3, <2>4, <2>5
<1>10. CASE Framing
  <2>1. Call("framing") /\ plan' = Tail(plan) /\ state' = state
    BY <1>10 DEF Framing, Returns
  <2>2. Writes("framing") = <<>> \/ (Writes("framing") = <<"length">> /\ "length" \in Parts)
    BY DEF Writes, Parts
  <2>3. Written("header")' = Written("header") /\ Written("blank")' = Written("blank")
    BY <2>1, <2>2, CallWritten
  <2>4. Wanted' = Wanted /\ Head(plan) = "framing"
    BY <1>2, <2>1, CallWritten
  <2>5. Cardinality(Hdrs(plan)) = Cardinality(Hdrs(plan'))
    BY <1>1, <2>1, <2>4, HdrsTail DEF Ends
  <2> QED
    BY <1>3, <2>1, <2>3, <2>4, <2>5 DEF MoreHeaders
<1>11. CASE EndHeaders
  <2>1. Call("endHeaders") /\ state' = "body"
    BY <1>11 DEF EndHeaders
  <2>2. Writes("endHeaders") = <<"blank">> /\ "blank" \in Parts
    BY DEF Writes, Parts
  <2>3. /\ Written("header")' = Written("header")
        /\ Written("blank")' = Written("blank") \cup {Len(wire) + 1}
    BY <2>1, <2>2, CallWritten
  <2>4. Wanted' = Wanted /\ Head(plan) = "endHeaders"
    BY <1>2, <2>1, CallWritten
  <2>5. Cardinality(Hdrs(plan)) = 0
    BY <1>1, <2>4, HdrsTail DEF Ends
  <2>6. Cardinality(Written("header")') = Wanted'
    BY <1>1, <1>3, <2>3, <2>4, <2>5
  <2>7. \A i \in Written("header")', j \in Written("blank")' : i < j
    BY <1>1, <1>3, <2>3, WrittenType
  <2> QED
    BY <2>1, <2>6, <2>7 DEF AllHeaders
<1>12. ~Status /\ ~EndBody /\ ~Pipe /\ ~FramerClosed
  BY <1>1, <1>2 DEF Status, EndBody, Pipe, FramerClosed
<1> QED
  BY <1>4, <1>5, <1>6, <1>8, <1>9, <1>10, <1>11, <1>12 DEF RouteStep, Header

(* A route whose headers ended writes no more of them. *)
LEMMA SentRoute ==
  ASSUME IType, Current \in Responses, RouteStep, ~Fail, state \in {"body", "finished"}
  PROVE  state' \in {"body", "finished"} /\ wire' = wire /\ routes' = routes
<1>1. ASSUME NEW call, Call(call)
      PROVE  call \notin {"transform", "raw", "header", "defaults", "status", "buffered",
                          "streamed", "framing", "endHeaders"}
  BY <1>1, CallState DEF Allowed
<1>2. ~AddBodyTransform /\ ~AddRawBodyTransform /\ ~Header /\ ~Status /\ ~SendBody
  BY <1>1 DEF AddBodyTransform, AddRawBodyTransform, Header, Status, SendBody
<1>3. ~Framing /\ ~EndHeaders
  BY <1>1 DEF Framing, EndHeaders
<1>4. SetBodySize \/ SendEmptyBody \/ EndBody \/ Pipe \/ FramerClosed
  BY <1>2, <1>3 DEF RouteStep
<1>5. PICK call \in {"size", "empty", "endBody", "pipe", "closed"} : Call(call)
  BY <1>4 DEF SetBodySize, SendEmptyBody, EndBody, Pipe, FramerClosed
<1>6. Writes(call) = <<>>
  BY <1>5 DEF Writes
<1>7. wire' = wire /\ routes' = routes
  BY <1>5, <1>6, CallSends, CallState
<1>8. state' \in {state, "finished"}
  BY <1>4 DEF SetBodySize, SendEmptyBody, EndBody, Pipe, FramerClosed, response
<1> QED
  BY <1>7, <1>8

--------------------------------------------------------------------------------
(* While a body flows the headers are over. *)
LEMMA FlowingSent ==
  ASSUME IType, PlanInv, Flowing
  PROVE  state \in {"body", "finished"}
<1>1. plan \in Seq(Calls) /\ plan # <<>> /\ Head(plan) = "closed"
  BY DEF Flowing, Idle, IType, TypeOK
<1>2. "closed" \in Left \cap InternalCalls
  BY <1>1, LeftHead DEF InternalCalls
<1>3. ~At(1) /\ ~At(2) /\ ~At(3)
  BY <1>1, AtAll
<1>4. state \notin {"line", "headers"}
  BY <1>2, <1>3 DEF PlanInv
<1> QED
  BY <1>4 DEF IType, TypeOK

(* What a step of the streams sends is of a body. *)
LEMMA StreamSends ==
  ASSUME IType, PartsInv, StreamStep
  PROVE  wire' = wire \/ \E piece \in BodyPieces : wire' = Append(wire, piece)
<1>1. ASSUME NEW piece \in BodyPieces, wire' = Sent(piece)
      PROVE  wire' = wire \/ \E p \in BodyPieces : wire' = Append(wire, p)
  BY <1>1 DEF Sent
<1>2. CASE Read \/ SourceEnds \/ Encode \/ EncoderEnds \/ FramerCloses
  BY <1>2 DEF Read, SourceEnds, Encode, EncoderEnds, FramerCloses
<1>3. CASE Flush
  <2>1. Head(framer) \in BodyPieces
    BY <1>3 DEF Flush, PartsInv
  <2>2. wire' = wire \/ wire' = Sent(Head(framer))
    BY <1>3 DEF Flush
  <2> QED
    BY <1>1, <2>1, <2>2
<1>4. ASSUME NEW r \in Responses, FlushRaw(r)
      PROVE  wire' = wire \/ \E p \in BodyPieces : wire' = Append(wire, p)
  <2>1. tail[r] \in Seq(BodyPieces) /\ tail[r] # <<>> /\ wire' = Sent(Head(tail[r]))
    BY <1>4 DEF FlushRaw, PartsInv
  <2>2. Head(tail[r]) \in BodyPieces
    BY <2>1
  <2> QED
    BY <1>1, <2>1, <2>2
<1> QED
  BY <1>2, <1>3, <1>4 DEF StreamStep

(* A step that leaves the plan and the headers as they are. *)
LEMMA HdrStutters ==
  ASSUME HdrInv, routes' = routes, plan' = plan, enqueued' = enqueued,
         Written("header")' = Written("header"), Written("blank")' = Written("blank"),
         state' = state \/ (state \in {"body", "finished"} /\ state' \in {"body", "finished"})
  PROVE  HdrInv'
<1>1. Current' = Current /\ Now' = Now /\ Wanted' = Wanted
  BY DEF Current, Now, Wanted
<1>2. LineHeaders => LineHeaders'
  BY <1>1 DEF LineHeaders
<1>3. MoreHeaders => MoreHeaders'
  BY <1>1 DEF MoreHeaders, Idle
<1>4. AllHeaders => AllHeaders'
  BY <1>1 DEF AllHeaders
<1> QED
  BY <1>1, <1>2, <1>3, <1>4 DEF HdrInv

(* A response that begins has written nothing. *)
LEMMA HdrBegin ==
  ASSUME routes \in Seq(Route), WhoInv, Begin
  PROVE  HdrInv'
<1>1. PICK route \in Routes : routes' = Append(routes, route) /\ plan' = route.calls
  BY DEF Begin
<1>2. /\ routes \in Seq(Route) /\ route \in Route /\ Current \in Nat
      /\ wire' = wire /\ enqueued' = 0 /\ state' = "line"
  BY <1>1, RoutesAssumption DEF Begin, Current
<1>3. Current' = Current + 1 /\ Now' = route
  <2>1. Len(routes') = Len(routes) + 1 /\ routes'[Len(routes) + 1] = route
    BY <1>1, <1>2
  <2> QED
    BY <2>1 DEF Current, Now
<1>4. Written("header")' = {} /\ Written("blank")' = {}
  <2>1. \A i \in 1..Len(wire) : wire[i] \in Begun
    BY DEF WhoInv
  <2>2. \A p \in Begun : p.who \in Nat /\ p.who <= Current
    BY MaxResponsesAssumption DEF Begun, Piece, Responses
  <2>3. \A i \in 1..Len(wire') : wire'[i].who # Current'
    BY <1>2, <1>3, <2>1, <2>2
  <2> QED
    BY <2>3 DEF Written
<1>5. plan' = Now'.calls /\ plan' \in Seq(Calls)
  <2>1. route.calls \in Seq(Calls \ InternalCalls)
    BY <1>2 DEF Route
  <2> QED
    BY <1>1, <1>3, <2>1
<1>6. 0 + Cardinality(SetsOf(plan')) = Cardinality(SetsOf(plan'))
  BY <1>5, MarksFinite
<1>7. LineHeaders'
  BY <1>2, <1>4, <1>5, <1>6 DEF LineHeaders, Wanted
<1> QED
  BY <1>2, <1>7 DEF HdrInv

(* A route that fails. *)
LEMMA HdrFail ==
  ASSUME HdrInv, Fail
  PROVE  HdrInv'
<1>1. /\ plan' = <<>> /\ state' = state /\ Current' = Current /\ Now' = Now /\ Wanted' = Wanted
      /\ \A part : Written(part)' = Written(part)
  BY DEF Fail, response, Current, Now, Wanted, Written
<1>2. ~StatusFirst(plan') /\ Idle'
  BY <1>1 DEF StatusFirst, Idle
<1>3. LineHeaders => LineHeaders'
  BY <1>1, <1>2 DEF LineHeaders
<1>4. MoreHeaders => MoreHeaders'
  BY <1>1, <1>2 DEF MoreHeaders
<1>5. AllHeaders => AllHeaders'
  BY <1>1 DEF AllHeaders
<1> QED
  BY <1>1, <1>3, <1>4, <1>5 DEF HdrInv

(* HdrInv is kept by the calls of a route. *)
LEMMA HdrRoute ==
  ASSUME IType, PlanInv, HdrInv, RouteStep, ~Fail
  PROVE  HdrInv'
<1>1. PICK call : Call(call)
  BY DEF RouteStep, AddBodyTransform, AddRawBodyTransform, Header, SetBodySize,
     Status, SendBody, SendEmptyBody, Framing, EndHeaders, EndBody, Pipe, FramerClosed
<1>2. Current \in Responses /\ Current > 0
  BY <1>1, CallState DEF Responses
<1>3. CASE state = "line"
  <2>1. LineHeaders
    BY <1>2, <1>3 DEF HdrInv
  <2>2. \/ state' = "line" /\ LineHeaders'
        \/ state' = "headers" /\ MoreHeaders'
    BY <1>2, <1>3, <2>1, LineRoute
  <2> QED
    BY <2>2 DEF HdrInv
<1>4. CASE state = "headers"
  <2>1. MoreHeaders
    BY <1>2, <1>4 DEF HdrInv
  <2>2. \/ state' = "headers" /\ MoreHeaders'
        \/ state' = "body" /\ AllHeaders'
    BY <1>2, <1>4, <2>1, HeadersRoute
  <2> QED
    BY <2>2 DEF HdrInv
<1>5. CASE state \in {"body", "finished"}
  <2>1. AllHeaders
    BY <1>2, <1>5 DEF HdrInv
  <2>2. state' \in {"body", "finished"} /\ wire' = wire /\ routes' = routes
    BY <1>2, <1>5, SentRoute
  <2>3. AllHeaders'
    BY <2>1, <2>2 DEF AllHeaders, Written, Wanted, Now, Current
  <2> QED
    BY <2>2, <2>3 DEF HdrInv
<1> QED
  BY <1>3, <1>4, <1>5 DEF IType, TypeOK

(* HdrInv is kept by the streams, which write no headers. *)
LEMMA HdrStream ==
  ASSUME IType, PlanInv, PartsInv, HdrInv, StreamStep
  PROVE  HdrInv'
<1>1. routes' = routes /\ plan' = plan /\ enqueued' = enqueued
  BY DEF StreamStep, Read, SourceEnds, Encode, EncoderEnds, Flush, FramerCloses, FlushRaw,
     Streaming, response
<1>2. Current' = Current
  BY <1>1 DEF Current
<1>3. Written("header")' = Written("header") /\ Written("blank")' = Written("blank")
  <2>1. CASE wire' = wire
    BY <1>2, <2>1 DEF Written
  <2>2. ASSUME NEW piece \in BodyPieces, wire' = Append(wire, piece)
        PROVE  Written("header")' = Written("header") /\ Written("blank")' = Written("blank")
    <3>1. piece.part # "header" /\ piece.part # "blank"
      BY DEF BodyPieces
    <3> QED
      BY <1>2, <2>2, <3>1, WrittenMore
  <2> QED
    BY <2>1, <2>2, StreamSends
<1>4. state' = state \/ (Flowing /\ state' = "finished")
  BY DEF StreamStep, Read, SourceEnds, Encode, EncoderEnds, Flush, FramerCloses, FlushRaw,
     Final, response
<1>5. state' = state \/ (state \in {"body", "finished"} /\ state' \in {"body", "finished"})
  BY <1>4, FlowingSent
<1> QED
  BY <1>1, <1>3, <1>5, HdrStutters

(* The inductive invariant behind HeadersArrive. *)
HeadersInv == IType /\ WhoInv /\ PlanInv /\ PartsInv /\ HdrInv

(* HeadersInv holds at first. *)
LEMMA HeadersInit == Init => HeadersInv
<1> SUFFICES ASSUME Init PROVE HeadersInv
  OBVIOUS
<1>1. IType
  BY InitType
<1>2. Current = 0 /\ wire = <<>> /\ framer = <<>> /\ state = "finished"
      /\ tail = [r \in Responses |-> <<>>]
  BY DEF Init, Current
<1>3. \A S : <<>> \in Seq(S)
  OBVIOUS
<1>4. WhoInv /\ PartsInv
  BY <1>2, <1>3 DEF WhoInv, PartsInv
<1>5. PlanInv /\ HdrInv
  BY <1>2 DEF PlanInv, HdrInv
<1> QED
  BY <1>1, <1>4, <1>5 DEF HeadersInv

(* HeadersInv is kept by every step. *)
LEMMA HeadersNext == HeadersInv /\ [Next]_vars => HeadersInv'
<1> SUFFICES ASSUME HeadersInv, [Next]_vars PROVE HeadersInv'
  OBVIOUS
<1>0. IType /\ WhoInv /\ PlanInv /\ PartsInv /\ HdrInv
  BY DEF HeadersInv
<1>1. IType' /\ WhoInv' /\ PlanInv' /\ PartsInv'
  BY <1>0, NextType, CountsOf, WhoNext, PlanNext, PartsNext
<1>2. HdrInv'
  <2>1. CASE Begin
    BY <1>0, <2>1, HdrBegin DEF IType, TypeOK
  <2>2. CASE Fail
    BY <1>0, <2>2, HdrFail
  <2>3. CASE RouteStep /\ ~Fail
    BY <1>0, <2>3, HdrRoute
  <2>4. CASE StreamStep
    BY <1>0, <2>4, HdrStream
  <2>5. CASE PeerCloses \/ UNCHANGED vars
    <3>1. routes' = routes /\ plan' = plan /\ enqueued' = enqueued /\ state' = state
          /\ \A part : Written(part)' = Written(part)
      BY <2>5 DEF PeerCloses, vars, response, Written, Current
    <3> QED
      BY <1>0, <3>1, HdrStutters
  <2> QED
    BY <2>1, <2>2, <2>3, <2>4, <2>5 DEF Next, Step
<1> QED
  BY <1>1, <1>2 DEF HeadersInv

(* What the run checks follows from HeadersInv. *)
LEMMA HeadersFollow == HeadersInv => HeadersArrive
<1> SUFFICES ASSUME HeadersInv, Current > 0, state \in {"body", "finished"} PROVE HeadersArrive
  BY DEF HeadersArrive
<1>1. AllHeaders
  BY DEF HeadersInv, HdrInv
<1> QED
  BY <1>1 DEF AllHeaders, HeadersArrive, Wanted, SetsOf, Now

(* Every header a route sets before it ends its headers is sent exactly     *)
(* once and ahead of the blank line, whether it was enqueued before the     *)
(* status line or written after it (response.ts:342-362, 914-933).          *)
THEOREM HeadersArriveCorrect == Spec => []HeadersArrive
BY HeadersInit, HeadersNext, HeadersFollow, PTL DEF Spec
================================================================================
