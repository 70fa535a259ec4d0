------------------------------ MODULE HTTPRequest ------------------------------
(***************************************************************************)
(* The request object of a connection, src/http/request.ts: an incremental *)
(* parser that is handed chunks by write(), is restarted by next() and     *)
(* loads a body on demand with loadBufferBody().  The module gives its     *)
(* state and one action per turn of the update() loop; ClientHandler       *)
(* composes them with the code that calls them.                            *)
(*                                                                         *)
(* The input is a sequence of tokens [kind, req, n].  Kinds "line",        *)
(* "badline", "badversion", "baduri", "header", "length", "badheader" and  *)
(* "blank" end in CRLF, "frag" is a piece of a line that does not, and     *)
(* "data" is one unit of a body, which holds no CRLF.  req is the request  *)
(* the token was sent for; n is the declared length of a "length" token,   *)
(* the position of any other.  The empty buffer stands for undefined:      *)
(* readLine and updateBody store undefined exactly when nothing is left.   *)
(***************************************************************************)
EXTENDS Naturals, Sequences

VARIABLES
  state,    \* _state: "REQUEST", "HEADERS", "BODY" or "FINISHED"
  buffer,   \* _buffer: the tokens received and not yet consumed
  line,     \* method, uri and version: the req of the parsed line, 0 if none
  headers,  \* headers: the header tokens in the order they were added
  body,     \* body: what loadBufferBody allocated and filled so far
  parsing   \* the update() loop is on the JavaScript stack

requestVars == <<state, buffer, line, headers, body, parsing>>

NoBody == [size |-> 0, data |-> <<>>]

Terminated == {"line", "badline", "badversion", "baduri", "header", "length",
               "badheader", "blank"}

Kinds == Terminated \cup {"frag", "data"}

Token == [kind : Kinds, req : Nat, n : Nat]

--------------------------------------------------------------------------------
(* readLine: the line up to the first CRLF, and what is left after it. *)

LineEnds(b) == {i \in 1..Len(b) : b[i].kind \in Terminated}

HasLine(b) == LineEnds(b) # {}

LineEnd(b) == CHOOSE i \in LineEnds(b) : \A j \in LineEnds(b) : i <= j

LineOf(b) == SubSeq(b, 1, LineEnd(b))

(* Mutant: what follows the line is dropped with it. *)
AfterLineDropsRest(b) == <<>>

AfterLine(b) == SubSeq(b, LineEnd(b) + 1, Len(b))

(* Mutant: the pieces of a line that was split over chunks do not join. *)
LineKindUnjoined(l) == IF Len(l) = 1 THEN l[1].kind ELSE "garbage"

(* What a line reads as: pieces of a split line join, while anything else   *)
(* that precedes the CRLF (the data of a body nobody read) spoils the line. *)
LineKind(l) ==
  IF \A i \in 1..(Len(l) - 1) : l[i].kind = "frag" THEN l[Len(l)].kind
  ELSE "garbage"

(* The class of error a line raises in each state, "none" if it is accepted. *)
Fault(kind) ==
  IF state = "REQUEST"
  THEN CASE kind = "line"       -> "none"
         [] kind = "badversion" -> "version"
         [] kind = "baduri"     -> "unknown"
         [] OTHER               -> "syntax"
  ELSE IF kind \in {"header", "length", "blank"} THEN "none" ELSE "syntax"

CurrentKind == LineKind(LineOf(buffer))

(* useBodyReader: the content-length header, 0 if it is not there. *)
DeclaredLength ==
  IF \E i \in 1..Len(headers) : headers[i].kind = "length"
  THEN headers[CHOOSE i \in 1..Len(headers) : headers[i].kind = "length"].n
  ELSE 0

--------------------------------------------------------------------------------
RequestInit ==
  /\ state = "REQUEST"
  /\ buffer = <<>>
  /\ line = 0
  /\ headers = <<>>
  /\ body = NoBody
  /\ parsing = FALSE

(* Mutant: Buffer.concat with its arguments swapped. *)
WriteInFront(chunk) ==
  /\ ~parsing
  /\ buffer' = chunk \o buffer
  /\ parsing' = TRUE
  /\ UNCHANGED <<state, line, headers, body>>

(* write(chunk): the chunk goes to the end of the buffer and update() runs. *)
Write(chunk) ==
  /\ ~parsing
  /\ buffer' = buffer \o chunk
  /\ parsing' = TRUE
  /\ UNCHANGED <<state, line, headers, body>>

(* Mutant: the headers of the previous request are not reset. *)
NextRequestKeepsHeaders ==
  /\ ~parsing
  /\ state' = "REQUEST"
  /\ line' = 0
  /\ body' = NoBody
  /\ parsing' = TRUE
  /\ UNCHANGED <<buffer, headers>>

(* next(): everything but the buffer is reset and update() runs. *)
NextRequest ==
  /\ ~parsing
  /\ state' = "REQUEST"
  /\ line' = 0
  /\ headers' = <<>>
  /\ body' = NoBody
  /\ parsing' = TRUE
  /\ UNCHANGED buffer

(* updateRequest and updateHeaders break the loop when there is no line. *)
AwaitLine ==
  /\ parsing
  /\ state \in {"REQUEST", "HEADERS"}
  /\ ~HasLine(buffer)
  /\ parsing' = FALSE
  /\ UNCHANGED <<state, buffer, line, headers, body>>

ParseRequestLine ==
  /\ parsing
  /\ state = "REQUEST"
  /\ HasLine(buffer)
  /\ Fault(CurrentKind) = "none"
  /\ line' = buffer[LineEnd(buffer)].req
  /\ state' = "HEADERS"
  /\ buffer' = AfterLine(buffer)
  /\ UNCHANGED <<headers, body, parsing>>

ParseHeader ==
  /\ parsing
  /\ state = "HEADERS"
  /\ HasLine(buffer)
  /\ CurrentKind \in {"header", "length"}
  /\ headers' = Append(headers, buffer[LineEnd(buffer)])
  /\ buffer' = AfterLine(buffer)
  /\ UNCHANGED <<state, line, body, parsing>>

(* A line that throws has left the buffer already; the state stays. *)
RejectLine(error) ==
  /\ parsing
  /\ state \in {"REQUEST", "HEADERS"}
  /\ HasLine(buffer)
  /\ error = Fault(CurrentKind)
  /\ error # "none"
  /\ buffer' = AfterLine(buffer)
  /\ parsing' = FALSE
  /\ UNCHANGED <<state, line, headers, body>>

(* The empty line: FINISHED, and HeadersLoaded is emitted inside the loop. *)
EndOfHeaders ==
  /\ parsing
  /\ state = "HEADERS"
  /\ HasLine(buffer)
  /\ CurrentKind = "blank"

(* Mutant: the parser goes straight on to the next request line. *)
EndHeadersGoesOn ==
  /\ EndOfHeaders
  /\ state' = "REQUEST"
  /\ buffer' = AfterLine(buffer)
  /\ UNCHANGED <<line, headers, body, parsing>>

EndHeaders ==
  /\ EndOfHeaders
  /\ state' = "FINISHED"
  /\ buffer' = AfterLine(buffer)
  /\ UNCHANGED <<line, headers, body, parsing>>

(* Mutant: a chunk is consumed whole, past the size of the body. *)
FillPastEnd(old, b) ==
  /\ body' = [old EXCEPT !.data = @ \o b]
  /\ buffer' = <<>>
  /\ state' = IF Len(body'.data) >= old.size THEN "FINISHED" ELSE "BODY"

(* Mutant: the body counts as complete one unit too late. *)
FillLate(old, b) ==
  LET needed == old.size - Len(old.data)
      taken  == IF Len(b) < needed THEN Len(b) ELSE needed
      filled == [old EXCEPT !.data = @ \o SubSeq(b, 1, taken)]
  IN  /\ body' = filled
      /\ buffer' = SubSeq(b, taken + 1, Len(b))
      /\ state' = IF Len(filled.data) > filled.size THEN "FINISHED" ELSE "BODY"

(* HTTPRequestBufferBody.update on the tokens b, and the state after it. *)
Fill(old, b) ==
  LET needed == old.size - Len(old.data)
      taken  == IF Len(b) < needed THEN Len(b) ELSE needed
      filled == [old EXCEPT !.data = @ \o SubSeq(b, 1, taken)]
  IN  /\ body' = filled
      /\ buffer' = SubSeq(b, taken + 1, Len(b))
      /\ state' = IF Len(filled.data) = filled.size THEN "FINISHED" ELSE "BODY"

NewBody(size) == [size |-> size, data |-> <<>>]

(* The empty line when the first callback of the route is the body reader:  *)
(* loadBufferBody and its update() run inside the emit, on what is buffered; *)
(* with nothing buffered that nested update() throws into the promise.       *)
EndHeadersLoading(size) ==
  /\ EndOfHeaders
  /\ Fill(NewBody(size), AfterLine(buffer))
  /\ UNCHANGED <<line, headers, parsing>>

(* loadBufferBody called from a later turn of the event loop. *)
LoadBufferBody(size) ==
  /\ ~parsing
  /\ body = NoBody
  /\ Fill(NewBody(size), buffer)
  /\ UNCHANGED <<line, headers, parsing>>

UpdateBody ==
  /\ parsing
  /\ state = "BODY"
  /\ buffer # <<>>
  /\ Fill(body, buffer)
  /\ parsing' = FALSE
  /\ UNCHANGED <<line, headers>>

(* updateBody throws "no buffer instance". *)
UpdateBodyThrows ==
  /\ parsing
  /\ state = "BODY"
  /\ buffer = <<>>
  /\ parsing' = FALSE
  /\ UNCHANGED <<state, buffer, line, headers, body>>

LeaveLoop ==
  /\ parsing
  /\ state = "FINISHED"
  /\ parsing' = FALSE
  /\ UNCHANGED <<state, buffer, line, headers, body>>

RequestTypeOK ==
  /\ state \in {"REQUEST", "HEADERS", "BODY", "FINISHED"}
  /\ buffer \in Seq(Token)
  /\ line \in Nat
  /\ headers \in Seq(Token)
  /\ body \in [size : Nat, data : Seq(Token)]
  /\ Len(body.data) <= body.size
  /\ parsing \in BOOLEAN
================================================================================
