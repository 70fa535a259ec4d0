--------------------------- MODULE HTTPRequestProofs ---------------------------
(***************************************************************************)
(* Facts about the parser that hold for every input: how readLine splits   *)
(* the buffer, how a body is filled, and that no step leaves the types.    *)
(***************************************************************************)
EXTENDS HTTPRequest, SequenceTheorems, WellFoundedInduction, TLAPS

(* A nonempty set of naturals has a least element. *)
LEMMA LeastElement ==
  ASSUME NEW S, S \subseteq Nat, S # {}
  PROVE  \E i \in S : \A j \in S : i <= j
<1>1. \E i \in S : \A j \in S : ~(<<j, i>> \in OpToRel(<, Nat))
  BY NatLessThanWellFounded, WFMin
<1>2. \A i, j \in Nat : ~(<<j, i>> \in OpToRel(<, Nat)) => ~(j < i)
  BY Zenon DEF OpToRel
<1>3. \A i, j \in Nat : ~(j < i) => i <= j
  BY SMT
<1> QED
  BY <1>1, <1>2, <1>3, Zenon

(* A line that is found ends at the first CRLF of the buffer. *)
LEMMA LineEndIsFirst ==
  ASSUME NEW b \in Seq(Token), HasLine(b)
  PROVE  /\ LineEnd(b) \in 1..Len(b)
         /\ b[LineEnd(b)].kind \in Terminated
         /\ \A j \in 1..(LineEnd(b) - 1) : b[j].kind \notin Terminated
<1>1. LineEnds(b) \subseteq Nat /\ LineEnds(b) # {}
  BY DEF LineEnds, HasLine
<1>2. \E i \in LineEnds(b) : \A j \in LineEnds(b) : i <= j
  BY <1>1, LeastElement
<1>3. LineEnd(b) \in LineEnds(b) /\ \A j \in LineEnds(b) : LineEnd(b) <= j
  BY <1>2 DEF LineEnd
<1> QED
  BY <1>3 DEF LineEnds

(* readLine (request.ts:189-219) loses nothing: the line and what stays in  *)
(* the buffer are the buffer, in order, and the buffer gets shorter.  The   *)
(* line ends with the first CRLF of the buffer: none is inside it.          *)
THEOREM ReadLineSplits ==
  ASSUME NEW b \in Seq(Token), HasLine(b)
  PROVE  /\ LineOf(b) \in Seq(Token) /\ AfterLine(b) \in Seq(Token)
         /\ LineOf(b) \o AfterLine(b) = b
         /\ Len(AfterLine(b)) < Len(b)
         /\ Len(LineOf(b)) \in 1..Len(b)
         /\ LineOf(b)[Len(LineOf(b))].kind \in Terminated
         /\ \A j \in 1..(Len(LineOf(b)) - 1) : LineOf(b)[j].kind \notin Terminated
<1> DEFINE k == LineEnd(b)
<1>1. k \in 1..Len(b) /\ Len(b) \in Nat
  BY LineEndIsFirst
<1> HIDE DEF k
<1>2. \A i \in 1..Len(b) : b[i] \in Token
  OBVIOUS
<1>3. /\ SubSeq(b, 1, k) \in Seq(Token)
      /\ Len(SubSeq(b, 1, k)) = k
      /\ \A i \in 1..k : SubSeq(b, 1, k)[i] = b[i]
  BY <1>1, <1>2, SubSeqProperties
<1>4. /\ SubSeq(b, k + 1, Len(b)) \in Seq(Token)
      /\ Len(SubSeq(b, k + 1, Len(b))) = Len(b) - k
      /\ \A i \in 1..(Len(b) - k) : SubSeq(b, k + 1, Len(b))[i] = b[k + i]
  BY <1>1, <1>2, SubSeqProperties
<1>5. SubSeq(b, 1, k) \o SubSeq(b, k + 1, Len(b)) = b
  <2>1. SubSeq(b, 1, Len(b)) = b
    BY SubSeqFull
  <2>2. 1 \in 1..Len(b) + 1 /\ k \in 1 - 1..Len(b) /\ Len(b) \in k..Len(b)
    BY <1>1
  <2>3. SubSeq(b, 1, k) \o SubSeq(b, k + 1, Len(b)) = SubSeq(b, 1, Len(b))
    BY <2>2, ConcatAdjacentSubSeq
  <2> QED
    BY <2>1, <2>3
<1>6. LineOf(b) = SubSeq(b, 1, k) /\ AfterLine(b) = SubSeq(b, k + 1, Len(b))
  BY DEF k, LineOf, AfterLine
<1>7. Len(AfterLine(b)) < Len(b)
  BY <1>1, <1>4, <1>6
<1>8. /\ b[k].kind \in Terminated
      /\ \A j \in 1..(k - 1) : b[j].kind \notin Terminated
  BY LineEndIsFirst DEF k
<1>9. /\ SubSeq(b, 1, k)[k] = b[k]
      /\ \A j \in 1..(k - 1) : SubSeq(b, 1, k)[j] = b[j]
  BY <1>1, <1>3
<1>10. /\ Len(LineOf(b)) \in 1..Len(b)
       /\ LineOf(b)[Len(LineOf(b))].kind \in Terminated
       /\ \A j \in 1..(Len(LineOf(b)) - 1) : LineOf(b)[j].kind \notin Terminated
  BY <1>1, <1>3, <1>6, <1>8, <1>9
<1> QED
  BY <1>3, <1>4, <1>5, <1>6, <1>7, <1>10, Zenon

(* A body takes no more than its size (request.ts:77-90), and the state     *)
(* tells whether it is complete (request.ts:337-339).                       *)
LEMMA FillType ==
  ASSUME NEW old \in [size : Nat, data : Seq(Token)], Len(old.data) <= old.size,
         NEW b \in Seq(Token), Fill(old, b)
  PROVE  /\ body' \in [size : Nat, data : Seq(Token)]
         /\ Len(body'.data) <= body'.size
         /\ buffer' \in Seq(Token)
         /\ state' \in {"FINISHED", "BODY"}
<1> DEFINE needed == old.size - Len(old.data)
           taken  == IF Len(b) < needed THEN Len(b) ELSE needed
           part   == SubSeq(b, 1, taken)
<1>1. /\ old.size \in Nat /\ old.data \in Seq(Token) /\ Len(b) \in Nat
      /\ Len(old.data) \in Nat
  OBVIOUS
<1>2. needed \in Nat /\ taken \in 0..needed /\ taken <= Len(b)
  BY <1>1
<1>3. /\ body' = [old EXCEPT !.data = @ \o part]
      /\ buffer' = SubSeq(b, taken + 1, Len(b))
      /\ state' \in {"FINISHED", "BODY"}
  BY DEF Fill
<1>4. \A i \in 1..Len(b) : b[i] \in Token
  OBVIOUS
<1> HIDE DEF taken
<1>5. part \in Seq(Token) /\ Len(part) = taken
  BY <1>1, <1>2, <1>4, SubSeqProperties
<1>6. SubSeq(b, taken + 1, Len(b)) \in Seq(Token)
  BY <1>1, <1>2, <1>4, SubSeqProperties
<1> HIDE DEF part
<1>7. /\ old.data \o part \in Seq(Token)
      /\ Len(old.data \o part) = Len(old.data) + taken
  BY <1>1, <1>5, ConcatProperties
<1>8. body'.size = old.size /\ body'.data = old.data \o part
  BY <1>3
<1>9. body' \in [size : Nat, data : Seq(Token)]
  BY <1>1, <1>3, <1>7
<1>10. Len(body'.data) <= body'.size
  <2>1. Len(old.data) + taken <= old.size
    BY <1>1, <1>2
  <2> QED
    BY <1>7, <1>8, <2>1
<1> QED
  BY <1>3, <1>6, <1>9, <1>10

(* A body begins with no data, which is not more than its size. *)
LEMMA NewBodyType ==
  ASSUME NEW size \in Nat
  PROVE  /\ NewBody(size) \in [size : Nat, data : Seq(Token)]
         /\ Len(NewBody(size).data) <= NewBody(size).size
BY DEF NewBody

(* A declared length is a number. *)
LEMMA DeclaredLengthType ==
  ASSUME headers \in Seq(Token)
  PROVE  DeclaredLength \in Nat
<1>1. CASE \E i \in 1..Len(headers) : headers[i].kind = "length"
  <2> DEFINE i == CHOOSE i \in 1..Len(headers) : headers[i].kind = "length"
  <2>1. i \in 1..Len(headers)
    BY <1>1
  <2>2. headers[i] \in Token
    BY <2>1
  <2>3. headers[i].n \in Nat
    BY <2>2 DEF Token
  <2> QED
    BY <1>1, <2>3 DEF DeclaredLength
<1>2. CASE ~\E i \in 1..Len(headers) : headers[i].kind = "length"
  BY <1>2 DEF DeclaredLength
<1> QED
  BY <1>1, <1>2

(* Every step of the parser keeps the types of its state. *)
ParserAction ==
  \/ \E chunk \in Seq(Token) : Write(chunk)
  \/ NextRequest \/ AwaitLine \/ ParseRequestLine \/ ParseHeader \/ EndHeaders
  \/ \E error \in {"syntax", "version", "unknown"} : RejectLine(error)
  \/ \E size \in Nat : EndHeadersLoading(size)
  \/ \E size \in Nat : LoadBufferBody(size)
  \/ UpdateBody \/ UpdateBodyThrows \/ LeaveLoop
  \/ UNCHANGED requestVars

(* Every turn of the loop keeps the types of the parser. *)
LEMMA ParserTypeStep == RequestTypeOK /\ ParserAction => RequestTypeOK'
<1> SUFFICES ASSUME RequestTypeOK, ParserAction PROVE RequestTypeOK'
  OBVIOUS
<1> USE DEF RequestTypeOK
<1>0. /\ buffer \in Seq(Token)
      /\ HasLine(buffer) => /\ AfterLine(buffer) \in Seq(Token)
                            /\ LineEnd(buffer) \in 1..Len(buffer)
  BY ReadLineSplits, LineEndIsFirst
<1>11. /\ buffer \in Seq(Token)
      /\ HasLine(buffer) =>
           /\ AfterLine(buffer) \in Seq(Token)
           /\ buffer[LineEnd(buffer)] \in Token
           /\ buffer[LineEnd(buffer)].req \in Nat
  <2>1. HasLine(buffer) => buffer[LineEnd(buffer)] \in Token
    BY <1>0
  <2>2. \A e \in Token : e.req \in Nat
    BY DEF Token
  <2> QED
    BY <1>0, <2>1, <2>2
<1>1. ASSUME NEW chunk \in Seq(Token), Write(chunk) PROVE RequestTypeOK'
  <2>1. buffer' \in Seq(Token)
    BY <1>1, ConcatProperties DEF Write
  <2> QED
    BY <1>1, <2>1 DEF Write
<1>2. CASE NextRequest
  <2>1. NoBody \in [size : Nat, data : Seq(Token)] /\ Len(NoBody.data) <= NoBody.size
    BY DEF NoBody
  <2> QED
    BY <1>2, <2>1 DEF NextRequest
<1>3. CASE AwaitLine \/ UpdateBodyThrows \/ LeaveLoop \/ UNCHANGED requestVars
  BY <1>3 DEF AwaitLine, UpdateBodyThrows, LeaveLoop, requestVars
<1>4. CASE ParseRequestLine
  BY <1>11, <1>4 DEF ParseRequestLine
<1>5. CASE ParseHeader
  <2>1. headers' \in Seq(Token)
    BY <1>11, <1>5, AppendProperties DEF ParseHeader
  <2> QED
    BY <1>11, <1>5, <2>1 DEF ParseHeader
<1>6. CASE EndHeaders
  BY <1>11, <1>6 DEF EndHeaders, EndOfHeaders
<1>7. ASSUME NEW error \in {"syntax", "version", "unknown"}, RejectLine(error)
      PROVE  RequestTypeOK'
  BY <1>11, <1>7 DEF RejectLine
<1>8. ASSUME NEW size \in Nat, EndHeadersLoading(size) PROVE RequestTypeOK'
  <2>1. HasLine(buffer) /\ Fill(NewBody(size), AfterLine(buffer))
    BY <1>8 DEF EndHeadersLoading, EndOfHeaders
  <2> QED
    BY <1>11, <1>8, <2>1, NewBodyType, FillType DEF EndHeadersLoading
<1>9. ASSUME NEW size \in Nat, LoadBufferBody(size) PROVE RequestTypeOK'
  BY <1>9, NewBodyType, FillType DEF LoadBufferBody
<1>10. CASE UpdateBody
  BY <1>10, FillType DEF UpdateBody
<1> QED
  BY <1>1, <1>2, <1>3, <1>4, <1>5, <1>6, <1>7, <1>8, <1>9, <1>10 DEF ParserAction
================================================================================
