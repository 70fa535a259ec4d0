---------------------------- MODULE RequestPipeline ----------------------------
(***************************************************************************)
(* What a connection promises about pipelined requests                     *)
(* (src/client-handler.ts:36): however the input is cut into chunks,       *)
(* requests are taken up one at a time, each writes its status line, its   *)
(* headers and its body in that order, and the next one is taken up only   *)
(* when the current one is complete.  An error page may be written at any  *)
(* moment of an open connection, between or even inside responses.         *)
(***************************************************************************)
EXTENDS Naturals, Sequences

VARIABLES
  accepted,  \* how many requests have been taken up
  phase,     \* how far the last one is; "idle" once it is complete
  open,      \* the connection is open: what is written now is sent
  sent       \* everything sent so far: [who, page, part]; who is 0 for an error page

vars == <<accepted, phase, open, sent>>

Parts == {"status", "headers", "body"}

(* The part that is written in each phase of a request. *)
PartAfter(p) ==
  CASE p = "serving" -> "status"
    [] p = "status"  -> "headers"
    [] p = "headers" -> "body"

Pages == [who : Nat, page : {"router", "error"}, part : Parts]

Phases == {"idle", "serving", "broken"} \cup Parts

Emitted(who, page, part) ==
  IF open THEN Append(sent, [who |-> who, page |-> page, part |-> part]) ELSE sent

TypeOK ==
  /\ accepted \in Nat
  /\ phase \in Phases
  /\ open \in BOOLEAN
  /\ sent \in Seq(Pages)

Init ==
  /\ accepted = 0
  /\ phase = "idle"
  /\ open = TRUE
  /\ sent = <<>>

Accept ==
  /\ phase = "idle"
  /\ accepted' = accepted + 1
  /\ phase' = "serving"
  /\ UNCHANGED <<open, sent>>

Respond ==
  /\ phase \in {"serving", "status", "headers"}
  /\ phase' = PartAfter(phase)
  /\ sent' = Emitted(accepted, "router", PartAfter(phase))
  /\ UNCHANGED <<accepted, open>>

(* Complete without a response when no callback of the router matched. *)
Complete ==
  /\ phase \in {"serving", "body"}
  /\ phase' = "idle"
  /\ UNCHANGED <<accepted, open, sent>>

(* The handler threw, or its write failed, or it waits for ever. *)
Abandon ==
  /\ phase \notin {"idle", "broken"}
  /\ phase' = "broken"
  /\ open' = FALSE
  /\ UNCHANGED <<accepted, sent>>

ErrorPage ==
  /\ open
  /\ \E part \in Parts : sent' = Emitted(0, "error", part)
  /\ UNCHANGED <<accepted, phase, open>>

Close ==
  /\ open' = FALSE
  /\ UNCHANGED <<accepted, phase, sent>>

Next == Accept \/ Respond \/ Complete \/ Abandon \/ ErrorPage \/ Close

Spec == Init /\ [][Next]_vars

--------------------------------------------------------------------------------
(* What a client relies on to match responses with its requests             *)
(* (client-handler.ts:215-218): leaving error pages aside, the parts that   *)
(* were sent never go back to an earlier request, and a request's parts     *)
(* never go back to an earlier part.                                        *)
PartNo(part) == CASE part = "status" -> 1 [] part = "headers" -> 2 [] part = "body" -> 3

ResponsesInOrder ==
  \A i, j \in 1..Len(sent) :
    (i < j /\ sent[i].page = "router" /\ sent[j].page = "router") =>
      \/ sent[i].who < sent[j].who
      \/ sent[i].who = sent[j].who /\ PartNo(sent[i].part) < PartNo(sent[j].part)
================================================================================
