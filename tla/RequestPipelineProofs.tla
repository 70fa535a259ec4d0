------------------------- MODULE RequestPipelineProofs -------------------------
(* The promise of RequestPipeline holds for any number of requests. *)
EXTENDS RequestPipeline, SequenceTheorems, TLAPS

(* The part a request has reached, counted as PartNo counts the parts. *)
Reached == IF phase = "serving" THEN 0 ELSE IF phase \in Parts THEN PartNo(phase) ELSE 3

(* What was sent belongs to the requests accepted so far, and of the last   *)
(* one only the parts it has reached.                                       *)
SentSoFar ==
  \A i \in 1..Len(sent) :
    sent[i].page = "router" =>
      \/ sent[i].who < accepted
      \/ sent[i].who = accepted /\ PartNo(sent[i].part) <= Reached

OrderInv == TypeOK /\ SentSoFar /\ ResponsesInOrder

Appended(new, e) ==
  /\ Len(new) = Len(sent) + 1 /\ new[Len(sent) + 1] = e
  /\ \A i \in 1..Len(sent) : new[i] = sent[i]

(* Sending appends one page part, or nothing on a closed connection. *)
LEMMA EmittedType ==
  ASSUME sent \in Seq(Pages), NEW who \in Nat, NEW page \in {"router", "error"},
         NEW part \in Parts
  PROVE  /\ Emitted(who, page, part) \in Seq(Pages)
         /\ open => Appended(Emitted(who, page, part),
                             [who |-> who, page |-> page, part |-> part])
         /\ ~open => Emitted(who, page, part) = sent
<1> DEFINE e == [who |-> who, page |-> page, part |-> part]
<1>1. e \in Pages
  BY DEF Pages
<1>2. Emitted(who, page, part) = IF open THEN Append(sent, e) ELSE sent
  BY DEF Emitted
<1> HIDE DEF e
<1>3. /\ Append(sent, e) \in Seq(Pages)
      /\ Len(Append(sent, e)) = Len(sent) + 1
      /\ \A i \in 1..Len(sent) : Append(sent, e)[i] = sent[i]
      /\ Append(sent, e)[Len(sent) + 1] = e
  BY <1>1, AppendProperties
<1> QED
  BY <1>2, <1>3 DEF e, Appended

(* What follows a phase is a part of a response. *)
LEMMA PartAfterType ==
  ASSUME NEW p \in {"serving", "status", "headers"}
  PROVE  PartAfter(p) \in Parts
BY DEF PartAfter, Parts

(* TypeOK is inductive. *)
LEMMA TypeStep == TypeOK /\ [Next]_vars => TypeOK'
<1> SUFFICES ASSUME TypeOK, [Next]_vars PROVE TypeOK'
  OBVIOUS
<1>1. CASE Accept
  BY <1>1 DEF Accept, TypeOK, Phases
<1>2. CASE Respond
  <2>1. sent' \in Seq(Pages)
    BY <1>2, EmittedType, PartAfterType DEF Respond, TypeOK
  <2>2. phase' \in Phases
    BY <1>2, PartAfterType DEF Respond, Phases
  <2> QED
    BY <1>2, <2>1, <2>2 DEF Respond, TypeOK
<1>3. CASE Complete \/ Abandon \/ Close
  BY <1>3 DEF Complete, Abandon, Close, TypeOK, Phases
<1>4. CASE ErrorPage
  <2>1. sent' \in Seq(Pages)
    BY <1>4, EmittedType DEF ErrorPage, TypeOK
  <2> QED
    BY <1>4, <2>1 DEF ErrorPage, TypeOK
<1>5. CASE UNCHANGED vars
  BY <1>5 DEF vars, TypeOK
<1> QED
  BY <1>1, <1>2, <1>3, <1>4, <1>5 DEF Next

(* Each page part in what was sent is one of the three. *)
LEMMA SentParts ==
  ASSUME TypeOK, NEW i \in 1..Len(sent)
  PROVE  /\ sent[i].who \in Nat
         /\ sent[i].part \in Parts
         /\ PartNo(sent[i].part) \in 1..3
<1>1. sent[i] \in Pages
  BY DEF TypeOK
<1> QED
  BY <1>1 DEF Pages, PartNo, Parts

(* OrderInv is inductive, action by action. *)
LEMMA OrderStep == OrderInv /\ [Next]_vars => OrderInv'
<1> SUFFICES ASSUME OrderInv, [Next]_vars PROVE OrderInv'
  OBVIOUS
<1>0. TypeOK /\ TypeOK' /\ SentSoFar /\ ResponsesInOrder
  BY TypeStep DEF OrderInv
<1>1. CASE Accept
  <2>1. SentSoFar'
    BY <1>0, <1>1, SentParts DEF Accept, SentSoFar, TypeOK
  <2>2. ResponsesInOrder'
    BY <1>0, <1>1 DEF Accept, ResponsesInOrder
  <2> QED
    BY <1>0, <2>1, <2>2 DEF OrderInv
<1>2. CASE Respond
  <2> DEFINE part == PartAfter(phase)
  <2>1. part \in Parts /\ phase' = part /\ accepted' = accepted
    BY <1>2, PartAfterType DEF Respond
  <2>2. Reached' = Reached + 1 /\ PartNo(part) = Reached + 1 /\ Reached \in 0..2
    BY <1>2 DEF Respond, Reached, PartAfter, PartNo, Parts
  <2>3. sent' = Emitted(accepted, "router", part)
    BY <1>2 DEF Respond
  <2>4. CASE ~open
    <3>1. sent' = sent
      BY <1>0, <2>1, <2>3, <2>4, EmittedType DEF TypeOK
    <3>2. SentSoFar'
      <4> SUFFICES ASSUME NEW i \in 1..Len(sent), sent[i].page = "router"
                   PROVE  \/ sent[i].who < accepted
                          \/ sent[i].who = accepted /\ PartNo(sent[i].part) <= Reached + 1
        BY <2>1, <2>2, <3>1 DEF SentSoFar
      <4>1. \/ sent[i].who < accepted
            \/ sent[i].who = accepted /\ PartNo(sent[i].part) <= Reached
        BY <1>0 DEF SentSoFar
      <4>2. PartNo(sent[i].part) \in 1..3
        BY <1>0, SentParts
      <4> QED
        BY <2>2, <4>1, <4>2
    <3>3. ResponsesInOrder'
      BY <1>0, <3>1 DEF ResponsesInOrder
    <3> QED
      BY <1>0, <3>2, <3>3 DEF OrderInv
  <2>5. CASE open
    <3>1. /\ Len(sent') = Len(sent) + 1
          /\ \A i \in 1..Len(sent) : sent'[i] = sent[i]
          /\ sent'[Len(sent) + 1] = [who |-> accepted, page |-> "router", part |-> part]
      <4>1. Appended(sent', [who |-> accepted, page |-> "router", part |-> part])
        BY <1>0, <2>1, <2>3, <2>5, EmittedType DEF TypeOK
      <4> QED
        BY <4>1 DEF Appended
    <3>2. SentSoFar'
      <4> SUFFICES ASSUME NEW i \in 1..Len(sent'), sent'[i].page = "router"
                   PROVE  \/ sent'[i].who < accepted
                          \/ sent'[i].who = accepted /\ PartNo(sent'[i].part) <= Reached + 1
        BY <2>1, <2>2 DEF SentSoFar
      <4>1. CASE i \in 1..Len(sent)
        <5>1. sent'[i] = sent[i] /\ sent[i].page = "router"
          BY <3>1, <4>1
        <5>2. \/ sent[i].who < accepted
              \/ sent[i].who = accepted /\ PartNo(sent[i].part) <= Reached
          BY <1>0, <4>1, <5>1 DEF SentSoFar
        <5>3. PartNo(sent[i].part) \in 1..3
          BY <1>0, <4>1, SentParts
        <5> QED
          BY <2>2, <5>1, <5>2, <5>3
      <4>2. CASE i = Len(sent) + 1
        BY <2>2, <3>1, <4>2
      <4>3. Len(sent) \in Nat
        BY <1>0 DEF TypeOK
      <4> QED
        BY <3>1, <4>1, <4>2, <4>3
    <3>3. ResponsesInOrder'
      <4> SUFFICES ASSUME NEW i \in 1..Len(sent'), NEW j \in 1..Len(sent'), i < j,
                          sent'[i].page = "router", sent'[j].page = "router"
                   PROVE  \/ sent'[i].who < sent'[j].who
                          \/ /\ sent'[i].who = sent'[j].who
                             /\ PartNo(sent'[i].part) < PartNo(sent'[j].part)
        BY DEF ResponsesInOrder
      <4>1. i \in 1..Len(sent) /\ sent'[i] = sent[i] /\ Len(sent) \in Nat
        BY <1>0, <3>1 DEF TypeOK
      <4>2. CASE j \in 1..Len(sent)
        BY <1>0, <3>1, <4>1, <4>2 DEF ResponsesInOrder
      <4>3. CASE j = Len(sent) + 1
        <5>1. sent'[j].who = accepted /\ sent'[j].part = part
          BY <3>1, <4>3
        <5>2. \/ sent[i].who < accepted
              \/ sent[i].who = accepted /\ PartNo(sent[i].part) <= Reached
          BY <1>0, <4>1 DEF SentSoFar
        <5>3. PartNo(sent[i].part) \in 1..3
          BY <1>0, <4>1, SentParts
        <5> QED
          BY <2>2, <4>1, <5>1, <5>2, <5>3
      <4> QED
        BY <3>1, <4>1, <4>2, <4>3
    <3> QED
      BY <1>0, <3>2, <3>3 DEF OrderInv
  <2> QED
    BY <2>4, <2>5
<1>3. CASE Complete
  <2>1. Reached' = 3
    BY <1>3 DEF Complete, Reached, Parts
  <2>2. sent' = sent /\ accepted' = accepted
    BY <1>3 DEF Complete
  <2>3. \A i \in 1..Len(sent) : sent[i].page = "router" =>
          sent[i].who < accepted \/ (sent[i].who = accepted /\ PartNo(sent[i].part) <= 3)
    BY <1>0, SentParts DEF SentSoFar
  <2>4. SentSoFar'
    BY <2>1, <2>2, <2>3 DEF SentSoFar
  <2>5. ResponsesInOrder'
    BY <1>0, <2>2 DEF ResponsesInOrder
  <2> QED
    BY <1>0, <2>4, <2>5 DEF OrderInv
<1>4. CASE Abandon
  <2>1. Reached' = 3
    BY <1>4 DEF Abandon, Reached, Parts
  <2>2. sent' = sent /\ accepted' = accepted
    BY <1>4 DEF Abandon
  <2>3. \A i \in 1..Len(sent) : sent[i].page = "router" =>
          sent[i].who < accepted \/ (sent[i].who = accepted /\ PartNo(sent[i].part) <= 3)
    BY <1>0, SentParts DEF SentSoFar
  <2>4. SentSoFar'
    BY <2>1, <2>2, <2>3 DEF SentSoFar
  <2>5. ResponsesInOrder'
    BY <1>0, <2>2 DEF ResponsesInOrder
  <2> QED
    BY <1>0, <2>4, <2>5 DEF OrderInv
<1>5. CASE ErrorPage
  <2>1. PICK part \in Parts : sent' = Emitted(0, "error", part)
    BY <1>5 DEF ErrorPage
  <2>2. open /\ sent \in Seq(Pages)
    BY <1>0, <1>5 DEF ErrorPage, TypeOK
  <2>3. /\ Len(sent') = Len(sent) + 1
        /\ \A i \in 1..Len(sent) : sent'[i] = sent[i]
        /\ sent'[Len(sent) + 1] = [who |-> 0, page |-> "error", part |-> part]
    <3>1. Appended(sent', [who |-> 0, page |-> "error", part |-> part])
      BY <2>1, <2>2, EmittedType
    <3> QED
      BY <3>1 DEF Appended
  <2>4. /\ Len(sent') = Len(sent) + 1
        /\ \A i \in 1..Len(sent) : sent'[i] = sent[i]
        /\ sent'[Len(sent) + 1].page = "error"
    BY <2>3
  <2>5. SentSoFar'
    <3>1. Reached' = Reached /\ accepted' = accepted
      BY <1>5 DEF ErrorPage, Reached
    <3>2. \A i \in 1..Len(sent') : i \in 1..Len(sent) \/ i = Len(sent) + 1
      BY <2>2, <2>4, LenProperties
    <3>3. SentSoFar
      BY <1>0
    <3> QED
      BY <2>4, <3>1, <3>2, <3>3 DEF SentSoFar
  <2>6. ResponsesInOrder'
    BY <1>0, <2>4 DEF ResponsesInOrder, TypeOK
  <2> QED
    BY <1>0, <2>5, <2>6 DEF OrderInv
<1>6. CASE Close \/ UNCHANGED vars
  BY <1>0, <1>6 DEF Close, vars, OrderInv, SentSoFar, ResponsesInOrder, Reached
<1> QED
  BY <1>1, <1>2, <1>3, <1>4, <1>5, <1>6 DEF Next

(* Whatever the number of requests, the responses a client receives are in  *)
(* the order of the requests, part by part.                                 *)
THEOREM PipelineInOrder == Spec => []ResponsesInOrder
<1>1. Init => OrderInv
  BY DEF Init, OrderInv, TypeOK, SentSoFar, ResponsesInOrder, Phases
<1>2. OrderInv /\ [Next]_vars => OrderInv'
  BY OrderStep
<1>3. OrderInv => ResponsesInOrder
  BY DEF OrderInv
<1> QED
  BY <1>1, <1>2, <1>3, PTL DEF Spec
================================================================================
