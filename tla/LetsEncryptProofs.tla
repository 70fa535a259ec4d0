--------------------------- MODULE LetsEncryptProofs ---------------------------
(***************************************************************************)
(* Theorems about the program around a server (LetsEncrypt): its types,    *)
(* the scheduler's queue, and which net servers and calls there can be.    *)
(***************************************************************************)
EXTENDS LetsEncrypt, SequenceTheorems, FiniteSetTheorems, WellFoundedInduction, TLAPS

--------------------------------------------------------------------------------
(* Numbers and sequences. *)

(* A set of numbers that is not empty has a least one. *)
LEMMA LeastNatural ==
  ASSUME NEW S, S \subseteq Nat, S # {}
  PROVE  \E i \in S : \A j \in S : i <= j
<1>1. \E i \in S : \A j \in S : ~(<<j, i>> \in OpToRel(<, Nat))
  BY NatLessThanWellFounded, WFMin
<1>2. \A i, j \in Nat : ~(<<j, i>> \in OpToRel(<, Nat)) => ~(j < i)
  BY Zenon DEF OpToRel
<1>3. \A i, j \in Nat : ~(j < i) => i <= j
  BY SMT
<1> QED
  BY <1>1, <1>2, <1>3, Zenon

(* A sequence with an entry inserted is the sequence, but for that entry. *)
Inserted(new, s, i, e) ==
  /\ Len(new) = Len(s) + 1
  /\ \A j \in 1..(Len(s) + 1) :
       new[j] = IF j < i THEN s[j] ELSE IF j = i THEN e ELSE s[j - 1]

(* A sequence with one more element in it. *)
LEMMA InsertProperties ==
  ASSUME NEW S, NEW s \in Seq(S), NEW i \in 1..(Len(s) + 1), NEW e \in S
  PROVE  InsertAt(s, i, e) \in Seq(S) /\ Inserted(InsertAt(s, i, e), s, i, e)
<1> DEFINE left == SubSeq(s, 1, i - 1)
           right == SubSeq(s, i, Len(s))
<1>1. Len(s) \in Nat /\ i \in Nat /\ 1 <= i /\ i <= Len(s) + 1
  BY LenProperties
<1>2. \A j \in 1..Len(s) : s[j] \in S
  BY ElementOfSeq
<1>3. /\ left \in Seq(S) /\ Len(left) = i - 1
      /\ \A j \in 1..(i - 1) : left[j] = s[j]
  <2>1. \A j \in 1..(i - 1) : s[j] \in S
    BY <1>1, <1>2
  <2> QED
    BY <1>1, <2>1, SubSeqProperties
<1>4. /\ right \in Seq(S) /\ Len(right) = Len(s) - i + 1
      /\ \A j \in 1..(Len(s) - i + 1) : right[j] = s[i + j - 1]
  <2>1. \A j \in i..Len(s) : s[j] \in S
    BY <1>1, <1>2
  <2> QED
    BY <1>1, <2>1, SubSeqProperties
<1> HIDE DEF left, right
<1>5. /\ <<e>> \in Seq(S) /\ Len(<<e>>) = 1 /\ <<e>>[1] = e
  OBVIOUS
<1>6. /\ left \o <<e>> \in Seq(S)
      /\ Len(left \o <<e>>) = i
      /\ \A j \in 1..i : (left \o <<e>>)[j] = IF j <= i - 1 THEN left[j] ELSE <<e>>[j - (i - 1)]
  BY <1>1, <1>3, <1>5, ConcatProperties
<1>7. /\ (left \o <<e>>) \o right \in Seq(S)
      /\ Len((left \o <<e>>) \o right) = Len(s) + 1
      /\ \A j \in 1..(Len(s) + 1) :
           ((left \o <<e>>) \o right)[j] =
             IF j <= i THEN (left \o <<e>>)[j] ELSE right[j - i]
  <2> DEFINE front == left \o <<e>>
  <2>1. front \in Seq(S) /\ Len(front) = i
    BY <1>6
  <2> HIDE DEF front
  <2>2. /\ front \o right \in Seq(S)
        /\ Len(front \o right) = i + (Len(s) - i + 1)
        /\ \A j \in 1..(i + (Len(s) - i + 1)) :
             (front \o right)[j] = IF j <= i THEN front[j] ELSE right[j - i]
    BY <1>4, <2>1, ConcatProperties
  <2>3. i + (Len(s) - i + 1) = Len(s) + 1
    BY <1>1
  <2>4. /\ front \o right \in Seq(S)
        /\ Len(front \o right) = Len(s) + 1
        /\ \A j \in 1..(Len(s) + 1) :
             (front \o right)[j] = IF j <= i THEN front[j] ELSE right[j - i]
    BY <2>2, <2>3, Zenon
  <2> QED
    BY <2>4, Zenon DEF front
<1>8. \A j \in 1..(Len(s) + 1) :
        ((left \o <<e>>) \o right)[j] =
          IF j < i THEN s[j] ELSE IF j = i THEN e ELSE s[j - 1]
  <2> SUFFICES ASSUME NEW j \in 1..(Len(s) + 1)
               PROVE  ((left \o <<e>>) \o right)[j] =
                        IF j < i THEN s[j] ELSE IF j = i THEN e ELSE s[j - 1]
    OBVIOUS
  <2>1. CASE j < i
    BY <1>1, <1>3, <1>6, <1>7, <2>1
  <2>2. CASE j = i
    BY <1>1, <1>5, <1>6, <1>7, <2>2
  <2>0. j \in Nat /\ (j < i \/ j = i \/ j > i)
    BY <1>1
  <2>3. CASE j > i
    <3>1. j - i \in 1..(Len(s) - i + 1) /\ i + (j - i) - 1 = j - 1
      BY <1>1, <2>3
    <3> QED
      BY <1>1, <1>4, <1>7, <2>3, <3>1
  <2> QED
    BY <2>0, <2>1, <2>2, <2>3
<1>9. InsertAt(s, i, e) = (left \o <<e>>) \o right
  BY DEF InsertAt, left, right
<1> QED
  BY <1>7, <1>8, <1>9 DEF Inserted

(* What is left of a sequence without its first k entries. *)
LEMMA DropProperties ==
  ASSUME NEW S, NEW s \in Seq(S), NEW k \in 0..Len(s)
  PROVE  /\ SubSeq(s, k + 1, Len(s)) \in Seq(S)
         /\ Len(SubSeq(s, k + 1, Len(s))) = Len(s) - k
         /\ \A i \in 1..(Len(s) - k) : SubSeq(s, k + 1, Len(s))[i] = s[k + i]
<1>1. Len(s) \in Nat /\ k \in Nat /\ k <= Len(s)
  BY LenProperties
<1>2. \A j \in (k + 1)..Len(s) : s[j] \in S
  BY <1>1, ElementOfSeq
<1>3. /\ SubSeq(s, k + 1, Len(s)) \in Seq(S)
      /\ Len(SubSeq(s, k + 1, Len(s))) = IF k + 1 <= Len(s) THEN Len(s) - (k + 1) + 1 ELSE 0
      /\ \A i \in 1..(Len(s) - (k + 1) + 1) :
           SubSeq(s, k + 1, Len(s))[i] = s[(k + 1) + i - 1]
  BY <1>1, <1>2, SubSeqProperties
<1> QED
  BY <1>1, <1>3

(* The tasks that _run runs (scheduler.ts:18-40) are the first ones of the  *)
(* queue.                                                                   *)
LEMMA DueTasksFirst ==
  ASSUME queue \in Seq(ScheduledTask)
  PROVE  /\ Cardinality(DueTasks) \in 0..Len(queue)
         /\ DueTasks = 1..Cardinality(DueTasks)
<1> DEFINE n == Len(queue)
           D == DueTasks
           Late == (1..(n + 1)) \ D
<1>1. n \in Nat /\ DOMAIN queue = 1..n
  BY LenProperties
<1>2. D \subseteq 1..n /\ \A i \in D : \A j \in 1..i : j \in D
  BY <1>1 DEF DueTasks
<1>3. Late \subseteq Nat /\ Late # {}
  BY <1>1, <1>2
<1> HIDE DEF n, D
<1>4. PICK m \in Late : \A j \in Late : m <= j
  <2> HIDE DEF Late
  <2> QED
    BY <1>3, LeastNatural
<1>5. m \in 1..(n + 1) /\ m \notin D
  BY <1>4
<1>6. D = 1..(m - 1)
  <2>1. ASSUME NEW i \in 1..(m - 1) PROVE i \in D
    <3>1. i \in 1..(n + 1) /\ ~(m <= i)
      BY <1>1, <1>5, <2>1
    <3> QED
      BY <1>4, <3>1
  <2>2. ASSUME NEW i \in D PROVE i \in 1..(m - 1)
    <3>1. i \in 1..n
      BY <1>2
    <3>2. ~(m <= i)
      BY <1>1, <1>2, <1>5, <3>1
    <3> QED
      BY <1>1, <1>5, <3>1, <3>2
  <2> QED
    BY <1>5, <2>1, <2>2
<1>7. Cardinality(D) = m - 1
  <2>1. Cardinality(1..(m - 1)) = IF 1 > m - 1 THEN 0 ELSE (m - 1) - 1 + 1
    BY <1>1, <1>5, FS_Interval
  <2> QED
    BY <1>1, <1>5, <1>6, <2>1
<1>8. Cardinality(D) \in 0..n /\ D = 1..Cardinality(D)
  BY <1>1, <1>5, <1>6, <1>7
<1> QED
  BY <1>8 DEF n, D

--------------------------------------------------------------------------------
(* The types. *)

(* The types of what belongs to the server, and of what does not. *)
NetTypeOK ==
  /\ server \in NetServers \cup {None}
  /\ net \in [NetServers -> NetStates]
  /\ connections \in [NetServers -> 0..MaxConnections]
  /\ fresh \subseteq NetServers /\ torn \subseteq Callers
  /\ pc \in [Callers -> CallPcs]
  /\ awaits \in [Callers -> NetServers \cup {None}]
  /\ restarting \subseteq Callers

ProgramTypeOK ==
  /\ up \in BOOLEAN /\ secure \in BOOLEAN
  /\ program \in Programs /\ secure = program.secure

TaskTypeOK ==
  /\ main \in {"load", "start", "done"} /\ toLoad \subseteq program.certificates
  /\ queue \in Seq(ScheduledTask)
  /\ timers \in 0..MaxTimers
  /\ task \in [Certificates -> TaskPcs]
  /\ expires \in [Certificates -> 0..Interval]

DiskTypeOK ==
  /\ config \in [Certificates -> 0..NoConfig]
  /\ life \in [Certificates -> 0..NoCertificate]
  /\ faults \in 0..program.faults

(* TypeOK is about the program, its server, its tasks and the disk. *)
LEMMA TypeParts ==
  /\ TypeOK <=> ProgramTypeOK /\ NetTypeOK /\ TaskTypeOK /\ DiskTypeOK
  /\ TypeOK' <=> ProgramTypeOK' /\ NetTypeOK' /\ TaskTypeOK' /\ DiskTypeOK'
  BY DEF TypeOK, ServerTypeOK, ProgramTypeOK, NetTypeOK, TaskTypeOK, DiskTypeOK

(* The times are numbers. *)
LEMMA Constants ==
  /\ Interval \in Nat \ {0} /\ RequestDelay \in Nat \ {0}
  /\ Life \in Nat \ {0} /\ MaxTimers \in Nat \ {0}
  /\ NoConfig \in Nat /\ NoConfig = Interval + 1
  /\ NoCertificate \in Nat /\ NoCertificate = Life + 1
  BY TimesAssumption DEF NoConfig, NoCertificate

(* A program is made of what there is. *)
LEMMA ProgramType ==
  ASSUME ProgramTypeOK
  PROVE  /\ program.certificates \subseteq Certificates
         /\ program.admins \subseteq Admins
         /\ program.faults \in Nat /\ program.secure \in BOOLEAN
  BY ProgramsAssumption DEF ProgramTypeOK

(* It stays the same until the process ends. *)
LEMMA ProgramTypeKept ==
  ProgramTypeOK /\ up' \in BOOLEAN /\ UNCHANGED <<secure, program>> => ProgramTypeOK'
  BY DEF ProgramTypeOK

(* A caller goes to an await of a call. *)
LEMMA GoesType ==
  ASSUME NetTypeOK, NEW c \in Callers, NEW where \in CallPcs, Goes(c, where)
  PROVE  pc' \in [Callers -> CallPcs] /\ pc'[c] = where
         /\ \A d \in Callers \ {c} : pc'[d] = pc[d]
  BY DEF NetTypeOK, Goes

(* A new net server is in _server, opening, and its caller waits for it. *)
LEMMA CreateType ==
  ASSUME NetTypeOK, NEW c \in Callers, CreateServer(c)
  PROVE  \E n \in NetServers :
           /\ net[n] = "free"
           /\ server' = n /\ fresh' = fresh \cup {n}
           /\ net' = [net EXCEPT ![n] = "opening"]
           /\ awaits' = [awaits EXCEPT ![c] = n]
           /\ Goes(c, "opening")
           /\ connections' = connections
<1> DEFINE free == {n \in NetServers : net[n] = "free"}
           n == CHOOSE m \in free : TRUE
<1>1. n \in free
  BY DEF CreateServer
<1>2. /\ server' = n /\ fresh' = fresh \cup {n}
      /\ net' = [net EXCEPT ![n] = "opening"]
      /\ awaits' = [awaits EXCEPT ![c] = n]
      /\ Goes(c, "opening")
      /\ connections' = connections
  BY DEF CreateServer
<1> HIDE DEF n
<1> QED
  BY <1>1, <1>2

(* A new net server keeps the types. *)
LEMMA CreateNetType ==
  ASSUME NetTypeOK, NEW c \in Callers, CreateServer(c),
         torn' \subseteq Callers, restarting' \subseteq Callers
  PROVE  NetTypeOK'
<1>1. PICK n \in NetServers :
           /\ net[n] = "free"
           /\ server' = n /\ fresh' = fresh \cup {n}
           /\ net' = [net EXCEPT ![n] = "opening"]
           /\ awaits' = [awaits EXCEPT ![c] = n]
           /\ Goes(c, "opening")
           /\ connections' = connections
  BY CreateType
<1>2. pc' \in [Callers -> CallPcs]
  BY <1>1, GoesType DEF CallPcs
<1> QED
  BY <1>1, <1>2 DEF NetTypeOK, NetStates

(* So does closing the one in _server. *)
LEMMA CloseNetType ==
  ASSUME NetTypeOK, NEW c \in Callers, server # None, CloseServer(c, server),
         restarting' \subseteq Callers
  PROVE  NetTypeOK'
<1>1. server \in NetServers
  BY DEF NetTypeOK
<1>2. pc' \in [Callers -> CallPcs]
  BY GoesType DEF CloseServer, CallPcs
<1>3. net' \in [NetServers -> NetStates]
  BY <1>1 DEF CloseServer, NetTypeOK, NetStates
<1> QED
  BY <1>1, <1>2, <1>3 DEF CloseServer, NetTypeOK

(* And the end of a start. *)
LEMMA StartNetType ==
  ASSUME NetTypeOK, NEW c \in Callers, Start(c), restarting' \subseteq Callers
  PROVE  NetTypeOK'
<1>1. CASE CreateServer(c) /\ UNCHANGED torn
  BY <1>1, CreateNetType DEF NetTypeOK
<1>2. CASE /\ Goes(c, IF server = None THEN "key" ELSE IF secure THEN "rejected" ELSE "resolved")
           /\ UNCHANGED <<server, net, connections, fresh, torn, awaits>>
  <2>1. pc' \in [Callers -> CallPcs]
    BY <1>2, GoesType DEF CallPcs
  <2> QED
    BY <1>2, <2>1 DEF NetTypeOK
<1> QED
  BY <1>1, <1>2 DEF Start

(* And the beginning and the end of a call. *)
LEMMA CallNetType ==
  ASSUME NetTypeOK, NEW c \in Callers, Call(c) \/ Return(c)
  PROVE  NetTypeOK'
<1>1. restarting' \subseteq Callers
  BY DEF Call, CallStart, CallStop, CallRestart, Return, NetTypeOK
<1>2. CASE Return(c)
  <2>1. pc' \in [Callers -> CallPcs]
    BY <1>2, GoesType DEF Return, CallPcs
  <2> QED
    BY <1>1, <1>2, <2>1 DEF Return, NetTypeOK
<1>3. CASE CallStart(c)
  BY <1>1, <1>3, StartNetType DEF CallStart
<1>4. ASSUME NEW restart \in BOOLEAN, Stop(c, restart) PROVE NetTypeOK'
  <2>1. CASE server # None /\ CloseServer(c, server)
    BY <1>1, <2>1, CloseNetType
  <2>2. CASE Start(c)
    BY <1>1, <2>2, StartNetType
  <2>3. CASE /\ Goes(c, IF secure THEN "rejected" ELSE "resolved")
             /\ UNCHANGED <<server, net, connections, fresh, torn, awaits>>
    <3>1. pc' \in [Callers -> CallPcs]
      BY <2>3, GoesType DEF CallPcs
    <3> QED
      BY <1>1, <2>3, <3>1 DEF NetTypeOK
  <2> QED
    BY <1>4, <2>1, <2>2, <2>3 DEF Stop
<1> QED
  BY <1>2, <1>3, <1>4 DEF Call, CallStop, CallRestart

(* And each await of a call. *)
LEMMA CallStepNetType ==
  ASSUME NetTypeOK, NEW c \in Callers, NEW files, CallStep(c, files)
  PROVE  NetTypeOK'
<1>1. restarting' \subseteq Callers /\ torn' \subseteq Callers
  BY DEF CallStep, ReadKey, ReadCert, CreateServer, NetTypeOK
<1>2. CASE CreateServer(c)
  BY <1>1, <1>2, CreateNetType
<1>3. CASE ~CreateServer(c)
  <2>1. /\ Goes(c, "cert") \/ Goes(c, "rejected")
        /\ UNCHANGED <<server, net, connections, fresh, awaits>>
    BY <1>3 DEF CallStep, ReadKey, ReadCert
  <2>2. pc' \in [Callers -> CallPcs]
    BY <2>1, GoesType DEF CallPcs
  <2> QED
    BY <1>1, <2>1, <2>2 DEF NetTypeOK
<1> QED
  BY <1>2, <1>3

(* And whatever happens to a net server. *)
LEMMA NetStepNetType ==
  ASSUME NetTypeOK, NEW n \in NetServers,
         Opened(n) \/ Dropped(n) \/ Closed(n) \/ Connect(n) \/ Disconnect(n)
  PROVE  NetTypeOK'
<1>1. CASE Opened(n) \/ Dropped(n)
  <2>1. pc' \in [Callers -> CallPcs]
    BY <1>1 DEF Opened, Dropped, NetTypeOK, CallPcs
  <2> QED
    BY <1>1, <2>1 DEF Opened, Dropped, NetTypeOK, NetStates
<1>2. CASE Closed(n)
  <2>1. pc' \in [Callers -> CallPcs]
    <3>1. \A c \in Callers : pc'[c] \in CallPcs
      BY <1>2 DEF Closed, AfterClose, NetTypeOK, CallPcs
    <3> QED
      BY <1>2, <3>1 DEF Closed
  <2>2. fresh' \subseteq NetServers
    BY <1>2 DEF Closed, NetTypeOK
  <2>3. net' \in [NetServers -> NetStates]
    BY <1>2 DEF Closed, NetTypeOK, NetStates
  <2> QED
    BY <1>2, <2>1, <2>2, <2>3 DEF Closed, NetTypeOK
<1>3. CASE Connect(n) \/ Disconnect(n)
  BY <1>3, MaxConnectionsAssumption DEF Connect, Disconnect, NetTypeOK
<1> QED
  BY <1>1, <1>2, <1>3

(* And the end of the process, and new files on the disk. *)
LEMMA GoneNetType ==
  ASSUME NetTypeOK, ServerGone \/ FilesChange
  PROVE  NetTypeOK'
<1>1. CASE ServerGone
  BY <1>1, MaxConnectionsAssumption DEF ServerGone, NetTypeOK, NetStates, CallPcs
<1>2. CASE FilesChange
  BY <1>2 DEF FilesChange, NetTypeOK
<1> QED
  BY <1>1, <1>2

(* And a step that leaves the server alone. *)
LEMMA SameNetType == NetTypeOK /\ UNCHANGED serverVars => NetTypeOK'
  BY DEF NetTypeOK, serverVars

(* Schedule puts one entry into the queue, somewhere, and sets a timer. *)
LEMMA ScheduleInserts ==
  ASSUME TaskTypeOK, NEW c \in Certificates, NEW kind \in Kinds, NEW due \in Nat,
         Schedule(c, kind, due)
  PROVE  \E i \in 1..(Len(queue) + 1) :
           /\ queue' \in Seq(ScheduledTask) /\ Len(queue') = Len(queue) + 1
           /\ \A j \in 1..(Len(queue) + 1) :
                queue'[j] = IF j < i THEN queue[j]
                            ELSE IF j = i THEN [certificate |-> c, kind |-> kind, due |-> due]
                            ELSE queue[j - 1]
           /\ \A j, k \in DOMAIN queue' : j < k => queue'[j].due <= queue'[k].due
           /\ timers' \in 1..MaxTimers
<1> DEFINE e == [certificate |-> c, kind |-> kind, due |-> due]
<1>1. e \in ScheduledTask
  BY DEF ScheduledTask
<1>2. queue \in Seq(ScheduledTask)
  BY DEF TaskTypeOK
<1>3. PICK i \in 1..(Len(queue) + 1) :
        /\ queue' = InsertAt(queue, i, e)
        /\ \A j, k \in DOMAIN queue' : j < k => queue'[j].due <= queue'[k].due
  BY DEF Schedule
<1>4. queue' = InsertAt(queue, i, e)
  BY <1>3
<1>5. timers' \in 1..MaxTimers
  BY Constants DEF Schedule, SetTimeout, TaskTypeOK
<1> HIDE DEF e
<1>6. /\ queue' \in Seq(ScheduledTask) /\ Len(queue') = Len(queue) + 1
      /\ \A j \in 1..(Len(queue) + 1) :
           queue'[j] = IF j < i THEN queue[j] ELSE IF j = i THEN e ELSE queue[j - 1]
  <2>1. queue' \in Seq(ScheduledTask) /\ Inserted(queue', queue, i, e)
    BY <1>1, <1>2, <1>4, InsertProperties
  <2> QED
    BY <2>1 DEF Inserted
<1> QED
  BY <1>3, <1>5, <1>6 DEF e

(* A task that is scheduled keeps the types of queue and timers. *)
LEMMA ScheduleType ==
  ASSUME TaskTypeOK, NEW c \in Certificates, NEW kind \in Kinds, NEW due \in Nat,
         Schedule(c, kind, due)
  PROVE  queue' \in Seq(ScheduledTask) /\ timers' \in 0..MaxTimers
<1>1. queue' \in Seq(ScheduledTask) /\ timers' \in 1..MaxTimers
  BY ScheduleInserts
<1> QED
  BY <1>1, Constants

(* A timer drops the tasks that are due and starts them. *)
LEMMA RunType ==
  ASSUME TaskTypeOK, Run, UNCHANGED program
  PROVE  TaskTypeOK'
<1>1. queue \in Seq(ScheduledTask)
  BY DEF TaskTypeOK
<1>2. queue' \in Seq(ScheduledTask)
  BY <1>1, DueTasksFirst, DropProperties DEF Run
<1>3. timers' \in 0..MaxTimers
  BY Constants DEF Run, TaskTypeOK
<1>4. task' \in [Certificates -> TaskPcs]
  BY DEF Run, TaskTypeOK, TaskPcs
<1> QED
  BY <1>2, <1>3, <1>4 DEF Run, TaskTypeOK

(* Time keeps the types. *)
LEMMA TickType ==
  ASSUME TypeOK, Tick, UNCHANGED <<up, secure, program>>
  PROVE  TypeOK'
<1>1. ProgramTypeOK /\ NetTypeOK /\ TaskTypeOK /\ DiskTypeOK
  BY TypeParts
<1>2. \A n, m \in Nat : n <= m => Left(n) \in 0..m /\ Left(n) <= n
  BY DEF Left
<1>3. queue' \in Seq(ScheduledTask)
  <2>1. queue \in Seq(ScheduledTask)
    BY <1>1 DEF TaskTypeOK
  <2>2. Len(queue) \in Nat /\ DOMAIN queue = 1..Len(queue)
    BY <2>1
  <2>3. \A i \in 1..Len(queue) : queue[i] \in ScheduledTask
    BY <2>1, ElementOfSeq
  <2>4. \A i \in 1..Len(queue) : [queue[i] EXCEPT !.due = Left(@)] \in ScheduledTask
    <3> SUFFICES ASSUME NEW i \in 1..Len(queue)
                 PROVE  [queue[i] EXCEPT !.due = Left(@)] \in ScheduledTask
      OBVIOUS
    <3>1. queue[i] \in ScheduledTask
      BY <2>3
    <3>2. Left(queue[i].due) \in Nat
      BY <1>2, <3>1 DEF ScheduledTask, Left
    <3> QED
      BY <3>1, <3>2 DEF ScheduledTask
  <2>5. [i \in 1..Len(queue) |-> [queue[i] EXCEPT !.due = Left(@)]] \in Seq(ScheduledTask)
    BY <2>2, <2>4, IsASeq
  <2> QED
    BY <2>2, <2>5 DEF Tick
<1>4. expires' \in [Certificates -> 0..Interval]
  <2>1. \A c \in Certificates : expires[c] \in 0..Interval
    BY <1>1 DEF TaskTypeOK
  <2>2. \A c \in Certificates : Left(expires[c]) \in 0..Interval
    BY <1>2, <2>1, Constants
  <2> QED
    BY <2>2 DEF Tick
<1>5. config' \in [Certificates -> 0..NoConfig]
  <2>1. \A c \in Certificates : config[c] \in 0..NoConfig
    BY <1>1 DEF DiskTypeOK
  <2>2. \A c \in Certificates :
          (IF config[c] = NoConfig THEN NoConfig ELSE Left(config[c])) \in 0..NoConfig
    BY <1>2, <2>1, Constants
  <2> QED
    BY <2>2 DEF Tick
<1>6. life' \in [Certificates -> 0..NoCertificate]
  <2>1. \A c \in Certificates : life[c] \in 0..NoCertificate
    BY <1>1 DEF DiskTypeOK
  <2>2. \A c \in Certificates :
          (IF life[c] = NoCertificate THEN NoCertificate ELSE Left(life[c])) \in 0..NoCertificate
    BY <1>2, <2>1, Constants
  <2> QED
    BY <2>2 DEF Tick
<1>7. NetTypeOK' /\ ProgramTypeOK'
  BY <1>1, SameNetType, ProgramTypeKept DEF Tick, ProgramTypeOK
<1>8. TaskTypeOK'
  BY <1>1, <1>3, <1>4 DEF Tick, TaskTypeOK
<1>9. DiskTypeOK'
  BY <1>1, <1>5, <1>6 DEF Tick, DiskTypeOK
<1> QED
  BY <1>7, <1>8, <1>9, TypeParts

(* The main program keeps the types. *)
LEMMA MainType ==
  ASSUME TypeOK, MainStep, UNCHANGED <<up, secure, program>>
  PROVE  TypeOK'
<1>1. ProgramTypeOK /\ NetTypeOK /\ TaskTypeOK /\ DiskTypeOK /\ ProgramTypeOK'
  BY TypeParts, ProgramTypeKept DEF ProgramTypeOK
<1>2. Main \in Callers
  BY CallersAssumption
<1>3. DiskTypeOK'
  BY <1>1 DEF MainStep, diskVars, DiskTypeOK
<1>4. ASSUME NEW c \in Certificates, LoadConfig(c) PROVE NetTypeOK' /\ TaskTypeOK'
  <2>1. config[c] \in Nat
    BY <1>1, Constants DEF DiskTypeOK
  <2>2. \E kind \in Kinds, due \in Nat : Schedule(c, kind, due)
    BY <1>4, <2>1, Constants DEF LoadConfig, Kinds
  <2>3. queue' \in Seq(ScheduledTask) /\ timers' \in 0..MaxTimers
    BY <1>1, <2>2, ScheduleType
  <2>4. NetTypeOK'
    BY <1>1, <1>4, SameNetType DEF LoadConfig
  <2> QED
    BY <1>1, <1>4, <2>3, <2>4 DEF LoadConfig, TaskTypeOK
<1>5. ASSUME StartServer PROVE NetTypeOK' /\ TaskTypeOK'
  BY <1>1, <1>2, <1>5, CallNetType DEF StartServer, Call, TaskTypeOK
<1>6. ASSUME Started PROVE NetTypeOK' /\ TaskTypeOK'
  BY <1>1, <1>2, <1>6, CallNetType DEF Started, TaskTypeOK
<1>7. NetTypeOK' /\ TaskTypeOK'
  BY <1>4, <1>5, <1>6 DEF MainStep
<1> QED
  BY <1>1, <1>3, <1>7, TypeParts

(* A task goes from one await to another. *)
LEMMA AtType ==
  ASSUME TaskTypeOK, NEW c \in Certificates, NEW here, NEW there \in TaskPcs, At(c, here, there)
  PROVE  /\ task' \in [Certificates -> TaskPcs]
         /\ task[c] = here /\ task'[c] = there
         /\ \A d \in Certificates \ {c} : task'[d] = task[d]
  BY DEF At, TaskTypeOK

(* A task keeps the types. *)
LEMMA TaskType ==
  ASSUME TypeOK, NEW c \in program.certificates, TaskStep(c), UNCHANGED <<up, secure, program>>
  PROVE  TypeOK'
<1>1. ProgramTypeOK /\ NetTypeOK /\ TaskTypeOK /\ DiskTypeOK /\ ProgramTypeOK'
  BY TypeParts, ProgramTypeKept DEF ProgramTypeOK
<1>2. c \in Certificates /\ c \in Callers
  BY <1>1, ProgramType, CallersAssumption
<1>3. ASSUME NEW here \in TaskPcs, NEW there \in TaskPcs, At(c, here, there),
             UNCHANGED <<main, toLoad, queue, timers>>,
             expires' \in [Certificates -> 0..Interval]
      PROVE  TaskTypeOK'
  BY <1>1, <1>2, <1>3, AtType DEF TaskTypeOK
<1>4. ASSUME TaskLoadsConfig(c) PROVE NetTypeOK' /\ TaskTypeOK' /\ DiskTypeOK'
  BY <1>1, <1>2, <1>3, <1>4, SameNetType
  DEF TaskLoadsConfig, TaskPcs, TaskTypeOK, diskVars, DiskTypeOK
<1>5. ASSUME CertbotWrites(c) PROVE NetTypeOK' /\ TaskTypeOK' /\ DiskTypeOK'
  <2>1. NetTypeOK'
    <3>1. FilesChange \/ UNCHANGED serverVars
      BY <1>5 DEF CertbotWrites
    <3> QED
      BY <1>1, <3>1, GoneNetType, SameNetType
  <2>2. life' \in [Certificates -> 0..NoCertificate]
    <3>1. Life \in 0..NoCertificate
      BY Constants
    <3> QED
      BY <1>1, <1>5, <3>1 DEF CertbotWrites, DiskTypeOK
  <2>3. task[c] \in TaskPcs /\ "written" \in TaskPcs
    BY <1>1, <1>2 DEF TaskTypeOK, TaskPcs
  <2>4. TaskTypeOK'
    BY <1>1, <1>3, <1>5, <2>3 DEF CertbotWrites, TaskTypeOK
  <2> QED
    BY <1>1, <1>5, <2>1, <2>2, <2>4 DEF CertbotWrites, DiskTypeOK
<1>6. ASSUME TaskRestarts(c) PROVE NetTypeOK' /\ TaskTypeOK' /\ DiskTypeOK'
  <2>1. NetTypeOK'
    BY <1>1, <1>2, <1>6, CallNetType DEF TaskRestarts, Call
  <2> QED
    BY <1>1, <1>3, <1>6, <2>1 DEF TaskRestarts, TaskPcs, TaskTypeOK, diskVars, DiskTypeOK
<1>7. ASSUME TaskRestarted(c) PROVE NetTypeOK' /\ TaskTypeOK' /\ DiskTypeOK'
  <2>1. NetTypeOK'
    BY <1>1, <1>2, <1>7, CallNetType DEF TaskRestarted
  <2>2. expires' \in [Certificates -> 0..Interval]
    BY <1>1, <1>2, <1>7, Constants DEF TaskRestarted, TaskTypeOK
  <2> QED
    BY <1>1, <1>3, <1>7, <2>1, <2>2 DEF TaskRestarted, TaskPcs, diskVars, DiskTypeOK
<1>8. ASSUME TaskSaved(c) PROVE NetTypeOK' /\ TaskTypeOK' /\ DiskTypeOK'
  <2>1. expires[c] \in Nat /\ expires[c] \in 0..NoConfig
    <3>1. expires[c] \in 0..Interval
      BY <1>1, <1>2 DEF TaskTypeOK
    <3> QED
      BY <3>1, Constants
  <2>2. queue' \in Seq(ScheduledTask) /\ timers' \in 0..MaxTimers
    BY <1>1, <1>2, <1>8, <2>1, ScheduleType DEF TaskSaved, Kinds
  <2>3. expires' \in [Certificates -> 0..Interval]
    <3>1. 0 \in 0..Interval
      BY Constants
    <3> QED
      BY <1>1, <1>8, <3>1 DEF TaskSaved, TaskTypeOK
  <2>4. task' \in [Certificates -> TaskPcs]
    BY <1>1, <1>2, <1>8, AtType DEF TaskSaved, TaskPcs
  <2>5. config' \in [Certificates -> 0..NoConfig]
    BY <1>1, <1>8, <2>1 DEF TaskSaved, DiskTypeOK
  <2> QED
    BY <1>1, <1>8, <2>2, <2>3, <2>4, <2>5, SameNetType DEF TaskSaved, TaskTypeOK, DiskTypeOK
<1> QED
  BY <1>1, <1>4, <1>5, <1>6, <1>7, <1>8, TypeParts DEF TaskStep

(* The end of the process keeps the types. *)
LEMMA EndType ==
  ASSUME TypeOK, ProcessEnds, UNCHANGED <<secure, program>>, faults' \in 0..program.faults
  PROVE  TypeOK'
<1>1. ProgramTypeOK /\ NetTypeOK /\ TaskTypeOK /\ DiskTypeOK /\ ProgramTypeOK'
  BY TypeParts, ProgramTypeKept DEF ProcessEnds
<1>2. NetTypeOK'
  BY <1>1, GoneNetType DEF ProcessEnds
<1>3. TaskTypeOK'
  BY <1>1, Constants DEF ProcessEnds, TaskTypeOK, TaskPcs
<1>4. DiskTypeOK'
  BY <1>1 DEF ProcessEnds, DiskTypeOK
<1> QED
  BY <1>1, <1>2, <1>3, <1>4, TypeParts

(* A start of the process keeps the types. *)
LEMMA BootType ==
  ASSUME TypeOK, Boot
  PROVE  TypeOK'
<1>1. ProgramTypeOK /\ NetTypeOK /\ TaskTypeOK /\ DiskTypeOK /\ ProgramTypeOK'
  BY TypeParts, ProgramTypeKept DEF Boot
<1> QED
  BY <1>1, SameNetType, TypeParts DEF Boot, TaskTypeOK, DiskTypeOK, diskVars

(* TypeOK holds at first. *)
LEMMA InitType == Init => TypeOK
<1> SUFFICES ASSUME Init PROVE TypeOK
  OBVIOUS
<1>1. ProgramTypeOK
  BY ProgramsAssumption DEF Init, ProgramTypeOK
<1>2. NetTypeOK
  BY MaxConnectionsAssumption DEF Init, ServerInit, NetTypeOK, NetStates, CallPcs
<1>3. TaskTypeOK
  BY Constants DEF Init, TaskTypeOK, TaskPcs
<1>4. DiskTypeOK
  BY <1>1, ProgramType, Constants DEF Init, DiskTypeOK
<1> QED
  BY <1>1, <1>2, <1>3, <1>4, TypeParts

(* The steps of Next, by what they change. *)
Ends ==
  /\ up /\ ProcessEnds /\ UNCHANGED <<secure, program>>
  /\ \/ Unhandled /\ UNCHANGED faults
     \/ Ready /\ (\E n \in NetServers : AddressInUse(n)) /\ UNCHANGED faults
     \/ Fault

NetMoves ==
  /\ Ready /\ Same /\ UNCHANGED <<taskVars, diskVars>>
  /\ \/ \E n \in NetServers : Opened(n) \/ Dropped(n) \/ Closed(n) \/ Connect(n) \/ Disconnect(n)
     \/ \E c \in Callers : CallStep(c, FilesExist)

(* What a step can be, with what the others leave alone. *)
LEMMA Steps ==
  ASSUME [Next]_vars
  PROVE  \/ Boot \/ Ends \/ NetMoves
         \/ Ready /\ MainStep /\ Same
         \/ Ready /\ Run /\ UNCHANGED <<serverVars, diskVars>> /\ Same
         \/ \E c \in program.certificates : TaskRuns(c)
         \/ Ready /\ Same /\ \E c \in program.admins : AdminStep(c)
         \/ Passes
         \/ UNCHANGED vars
<1>1. CASE Engine
  BY <1>1 DEF Engine, EngineStep
<1>2. CASE FailureEnds
  BY <1>2 DEF FailureEnds, Fails, Ends
<1>3. ASSUME NEW n \in NetServers, NetRuns(n) PROVE NetMoves \/ Ends
  BY <1>3 DEF NetRuns, NetStep, NetMoves, Ends, Ready
<1>4. ASSUME NEW c \in Callers, CallRuns(c) PROVE NetMoves
  BY <1>4 DEF CallRuns, NetMoves
<1>5. CASE Ready /\ Same /\ ConnectionStep
  BY <1>5 DEF ConnectionStep, NetMoves
<1>6. CASE /\ up /\ (Killed \/ \E c \in program.certificates : CertbotFails(c))
           /\ UNCHANGED <<secure, program>>
  BY <1>6 DEF Killed, CertbotFails, Ends
<1> QED
  BY <1>1, <1>2, <1>3, <1>4, <1>5, <1>6 DEF Next

(* TypeOK is inductive. *)
LEMMA TypeStep == TypeOK /\ [Next]_vars => TypeOK'
<1> SUFFICES ASSUME TypeOK, [Next]_vars PROVE TypeOK'
  OBVIOUS
<1>1. ProgramTypeOK /\ NetTypeOK /\ TaskTypeOK /\ DiskTypeOK
  BY TypeParts
<1>2. CASE Boot
  BY <1>2, BootType
<1>3. CASE Ends
  <2>1. faults' \in 0..program.faults
    BY <1>1, <1>3, ProgramType DEF Ends, Fault, DiskTypeOK
  <2> QED
    BY <1>3, <2>1, EndType DEF Ends
<1>4. CASE NetMoves
  <2>1. NetTypeOK'
    BY <1>1, <1>4, NetStepNetType, CallStepNetType DEF NetMoves
  <2> QED
    BY <1>1, <1>4, <2>1, ProgramTypeKept, TypeParts
    DEF NetMoves, Same, ProgramTypeOK, taskVars, diskVars, TaskTypeOK, DiskTypeOK
<1>5. CASE Ready /\ MainStep /\ Same
  BY <1>5, MainType DEF Same
<1>6. CASE Ready /\ Run /\ UNCHANGED <<serverVars, diskVars>> /\ Same
  BY <1>1, <1>6, RunType, SameNetType, ProgramTypeKept, TypeParts
  DEF Same, ProgramTypeOK, diskVars, DiskTypeOK
<1>7. CASE \E c \in program.certificates : TaskRuns(c)
  BY <1>7, TaskType DEF TaskRuns, Same
<1>8. CASE Ready /\ Same /\ \E c \in program.admins : AdminStep(c)
  <2>1. PICK c \in program.admins : AdminStep(c)
    BY <1>8
  <2>2. c \in Callers
    BY <1>1, ProgramType, CallersAssumption
  <2>3. NetTypeOK'
    BY <1>1, <2>1, <2>2, CallNetType DEF AdminStep
  <2> QED
    BY <1>1, <1>8, <2>1, <2>3, ProgramTypeKept, TypeParts
    DEF AdminStep, Same, ProgramTypeOK, taskVars, diskVars, TaskTypeOK, DiskTypeOK
<1>9. CASE Passes
  BY <1>9, TickType DEF Passes, Same
<1>10. CASE UNCHANGED vars
  BY <1>1, <1>10, SameNetType, ProgramTypeKept, TypeParts
  DEF vars, ProgramTypeOK, taskVars, diskVars, TaskTypeOK, DiskTypeOK
<1> QED
  BY <1>2, <1>3, <1>4, <1>5, <1>6, <1>7, <1>8, <1>9, <1>10, Steps

(* Whatever the main program, certbot, the administrators, the timers and   *)
(* node do, and however often the process is killed, every variable keeps   *)
(* its type (plain.ts, secure.ts, scheduler.ts, letsencrypt.ts).            *)
THEOREM TypeCorrect == Spec => []TypeOK
  BY InitType, TypeStep, PTL DEF Spec

--------------------------------------------------------------------------------
(* The queue of the scheduler. *)

Sorted == \A i, j \in DOMAIN queue : i < j => queue[i].due <= queue[j].due
Once == \A i, j \in DOMAIN queue : queue[i].certificate = queue[j].certificate => i = j
Queued(c) == \E i \in DOMAIN queue : queue[i].certificate = c
Idle(c) == up /\ c \in program.certificates \ toLoad /\ task[c] = "none"

(* QueueInv, part by part, now and after a step. *)
LEMMA QueueParts ==
  /\ QueueInv <=>
       /\ Sorted /\ Once
       /\ \A c \in Certificates :
            /\ Queued(c) <=> Idle(c)
            /\ task[c] # "none" => up /\ c \in program.certificates \ toLoad
       /\ queue # <<>> => timers > 0
  /\ QueueInv' <=>
       /\ Sorted' /\ Once'
       /\ \A c \in Certificates :
            /\ Queued(c)' <=> Idle(c)'
            /\ task'[c] # "none" => up' /\ c \in program'.certificates \ toLoad'
       /\ queue' # <<>> => timers' > 0
  BY DEF QueueInv, Sorted, Once, Queued, Idle

(* A queue that stays the same stays sorted. *)
LEMMA QueueSame == UNCHANGED queue =>
  /\ Sorted' <=> Sorted
  /\ Once' <=> Once
  /\ \A c \in Certificates : Queued(c)' <=> Queued(c)
  BY DEF Sorted, Once, Queued

(* A task that is scheduled is one more in the queue. *)
LEMMA QueueInserted ==
  ASSUME TaskTypeOK, Once, NEW c \in Certificates, ~Queued(c),
         NEW kind \in Kinds, NEW due \in Nat, Schedule(c, kind, due)
  PROVE  /\ Sorted' /\ Once' /\ timers' > 0
         /\ \A d \in Certificates : Queued(d)' <=> d = c \/ Queued(d)
<1> DEFINE n == Len(queue)
<1>1. PICK i \in 1..(n + 1) :
           /\ queue' \in Seq(ScheduledTask) /\ Len(queue') = n + 1
           /\ \A j \in 1..(n + 1) :
                queue'[j] = IF j < i THEN queue[j]
                            ELSE IF j = i THEN [certificate |-> c, kind |-> kind, due |-> due]
                            ELSE queue[j - 1]
           /\ \A j, k \in DOMAIN queue' : j < k => queue'[j].due <= queue'[k].due
           /\ timers' \in 1..MaxTimers
  BY ScheduleInserts
<1>2. n \in Nat /\ DOMAIN queue = 1..n
  BY DEF TaskTypeOK
<1>3. DOMAIN queue' = 1..(n + 1)
  BY <1>1
<1> HIDE DEF n
<1>4. \A j \in 1..(n + 1) :
        /\ j < i => j \in 1..n /\ queue'[j].certificate = queue[j].certificate
        /\ j = i => queue'[j].certificate = c
        /\ j > i => j - 1 \in 1..n /\ queue'[j].certificate = queue[j - 1].certificate
  <2> SUFFICES ASSUME NEW j \in 1..(n + 1)
      PROVE  /\ j < i => j \in 1..n /\ queue'[j].certificate = queue[j].certificate
             /\ j = i => queue'[j].certificate = c
             /\ j > i => j - 1 \in 1..n /\ queue'[j].certificate = queue[j - 1].certificate
    OBVIOUS
  <2>1. j \in Nat /\ i \in Nat /\ 1 <= i /\ i <= n + 1 /\ 1 <= j /\ j <= n + 1
    BY <1>2
  <2>2. queue'[j] = IF j < i THEN queue[j]
                    ELSE IF j = i THEN [certificate |-> c, kind |-> kind, due |-> due]
                    ELSE queue[j - 1]
    BY <1>1
  <2> QED
    BY <1>2, <2>1, <2>2
<1>5. Once'
  <2> SUFFICES ASSUME NEW j \in 1..(n + 1), NEW k \in 1..(n + 1),
                      queue'[j].certificate = queue'[k].certificate
               PROVE  j = k
    BY <1>3 DEF Once
  <2>1. \A m \in 1..n : queue[m].certificate # c
    BY <1>2 DEF Queued
  <2>2. \A m, p \in 1..n : queue[m].certificate = queue[p].certificate => m = p
    BY <1>2 DEF Once
  <2>3. j \in Nat /\ k \in Nat /\ i \in Nat
    BY <1>2
  <2>4. CASE j < i
    BY <1>4, <2>1, <2>2, <2>3, <2>4
  <2>5. CASE j = i
    BY <1>4, <2>1, <2>3, <2>5
  <2>6. CASE j > i
    BY <1>4, <2>1, <2>2, <2>3, <2>6
  <2> QED
    BY <2>3, <2>4, <2>5, <2>6
<1>6. ASSUME NEW d \in Certificates PROVE Queued(d)' <=> d = c \/ Queued(d)
  <2>1. ASSUME Queued(d)' PROVE d = c \/ Queued(d)
    <3>1. PICK j \in 1..(n + 1) : queue'[j].certificate = d
      BY <1>3, <2>1 DEF Queued
    <3>2. j < i \/ j = i \/ j > i
      BY <1>2
    <3> QED
      BY <1>2, <1>4, <3>1, <3>2 DEF Queued
  <2>2. ASSUME d = c PROVE Queued(d)'
    BY <1>3, <1>4, <2>2 DEF Queued
  <2>3. ASSUME Queued(d) PROVE Queued(d)'
    <3>1. PICK m \in 1..n : queue[m].certificate = d
      BY <1>2, <2>3 DEF Queued
    <3>2. CASE m < i
      <4>1. m \in 1..(n + 1)
        BY <1>2
      <4> QED
        BY <1>3, <1>4, <3>1, <3>2, <4>1 DEF Queued
    <3>3. CASE ~(m < i)
      <4>1. m + 1 \in 1..(n + 1) /\ m + 1 > i /\ (m + 1) - 1 = m
        BY <1>2, <3>3
      <4>2. queue'[m + 1].certificate = queue[m].certificate
        BY <1>4, <4>1
      <4> QED
        BY <1>3, <3>1, <4>1, <4>2 DEF Queued
    <3> QED
      BY <3>2, <3>3
  <2> QED
    BY <2>1, <2>2, <2>3
<1>7. timers' > 0
  BY <1>1, Constants
<1> QED
  BY <1>1, <1>5, <1>6, <1>7 DEF Sorted

(* A timer takes the due tasks out of the queue and starts each of them. *)
LEMMA QueueRun ==
  ASSUME TaskTypeOK, Sorted, Once, Run
  PROVE  /\ Sorted' /\ Once'
         /\ \A c \in Certificates :
              \/ ~Queued(c) /\ ~Queued(c)' /\ task'[c] = task[c]
              \/ Queued(c) /\ Queued(c)' /\ task'[c] = task[c]
              \/ Queued(c) /\ ~Queued(c)' /\ task'[c] \in {"load", "request"}
         /\ queue' # <<>> => timers' > 0
<1> DEFINE n == Len(queue)
           k == Cardinality(DueTasks)
<1>1. n \in Nat /\ DOMAIN queue = 1..n /\ queue \in Seq(ScheduledTask)
  BY DEF TaskTypeOK
<1>2. k \in 0..n /\ DueTasks = 1..k
  BY <1>1, DueTasksFirst
<1>3. queue' = SubSeq(queue, k + 1, n)
  BY DEF Run
<1>4. \A i \in 1..n : queue[i].kind \in {"renew", "request"}
  <2>1. \A i \in 1..n : queue[i] \in ScheduledTask
    BY <1>1, ElementOfSeq
  <2> QED
    BY <2>1 DEF ScheduledTask, Kinds
<1>5. /\ queue' \in Seq(ScheduledTask) /\ Len(queue') = n - k
      /\ \A i \in 1..(n - k) : queue'[i] = queue[k + i]
  BY <1>1, <1>2, <1>3, DropProperties
<1> HIDE DEF n, k
<1>6. DOMAIN queue' = 1..(n - k)
  BY <1>1, <1>2, <1>5
<1>7. \A i \in 1..(n - k) : k + i \in 1..n
  BY <1>1, <1>2
<1>8. Sorted'
  <2> SUFFICES ASSUME NEW i \in 1..(n - k), NEW j \in 1..(n - k), i < j
               PROVE  queue'[i].due <= queue'[j].due
    BY <1>6 DEF Sorted
  <2>1. k + i < k + j /\ k + i \in DOMAIN queue /\ k + j \in DOMAIN queue
    BY <1>1, <1>2, <1>7
  <2>2. queue[k + i].due <= queue[k + j].due
    BY <2>1 DEF Sorted
  <2> QED
    BY <1>5, <2>2
<1>9. Once'
  <2> SUFFICES ASSUME NEW i \in 1..(n - k), NEW j \in 1..(n - k),
                      queue'[i].certificate = queue'[j].certificate
               PROVE  i = j
    BY <1>6 DEF Once
  <2>1. k + i = k + j
    BY <1>1, <1>5, <1>7 DEF Once
  <2> QED
    BY <1>1, <1>2, <2>1
<1>10. ASSUME NEW c \in Certificates
       PROVE  \/ ~Queued(c) /\ ~Queued(c)' /\ task'[c] = task[c]
              \/ Queued(c) /\ Queued(c)' /\ task'[c] = task[c]
              \/ Queued(c) /\ ~Queued(c)' /\ task'[c] \in {"load", "request"}
  <2>1. /\ \A i \in 1..k : i \in 1..n
        /\ (\E i \in 1..k : queue[i].certificate = c) <=> Starts(c, "renew") \/ Starts(c, "request")
    <3>1. \A i \in 1..k : i \in 1..n
      BY <1>1, <1>2
    <3>2. \A i \in 1..k : queue[i].kind = "renew" \/ queue[i].kind = "request"
      BY <1>4, <3>1
    <3>3. \A kind : Starts(c, kind) <=>
             \E i \in 1..k : queue[i].certificate = c /\ queue[i].kind = kind
      BY <1>2 DEF Starts
    <3>4. (\E i \in 1..k : queue[i].certificate = c) <=> Starts(c, "renew") \/ Starts(c, "request")
      <4> HIDE DEF Starts
      <4> QED
        BY <3>2, <3>3, Zenon
    <3> QED
      BY <3>1, <3>4
  <2>2. Queued(c)' <=> \E i \in 1..(n - k) : queue[k + i].certificate = c
    BY <1>5, <1>6 DEF Queued
  <2>3. IF Starts(c, "renew") \/ Starts(c, "request") THEN task'[c] \in {"load", "request"}
        ELSE task'[c] = task[c]
    <3>1. task'[c] = CASE Starts(c, "renew")   -> "load"
                       [] Starts(c, "request") -> "request"
                       [] OTHER                -> task[c]
      BY DEF Run
    <3> HIDE DEF Starts
    <3> QED
      BY <3>1
  <2>4. CASE \E i \in 1..k : queue[i].certificate = c
    <3>1. PICK i \in 1..k : queue[i].certificate = c
      BY <2>4
    <3>2. \A j \in 1..(n - k) : queue[k + j].certificate # c
      <4> SUFFICES ASSUME NEW j \in 1..(n - k), queue[k + j].certificate = c
                   PROVE  FALSE
        OBVIOUS
      <4>1. i = k + j
        BY <1>1, <1>7, <2>1, <3>1 DEF Once
      <4> QED
        BY <1>1, <1>2, <4>1
    <3>3. Queued(c)
      BY <1>1, <2>1, <3>1 DEF Queued
    <3> QED
      BY <2>1, <2>2, <2>3, <2>4, <3>2, <3>3
  <2>5. CASE ~\E i \in 1..k : queue[i].certificate = c
    <3>1. task'[c] = task[c]
      BY <2>1, <2>3, <2>5
    <3>2. Queued(c)' <=> Queued(c)
      <4>1. ASSUME Queued(c) PROVE Queued(c)'
        <5>1. PICK i \in 1..n : queue[i].certificate = c
          BY <1>1, <4>1 DEF Queued
        <5>2. ~(i \in 1..k)
          BY <2>5, <5>1
        <5>3. i - k \in 1..(n - k) /\ k + (i - k) = i
          BY <1>1, <1>2, <5>2
        <5> QED
          BY <2>2, <5>1, <5>3
      <4>2. ASSUME Queued(c)' PROVE Queued(c)
        BY <1>1, <1>7, <2>2, <4>2 DEF Queued
      <4> QED
        BY <4>1, <4>2
    <3> QED
      BY <3>1, <3>2
  <2> QED
    BY <2>4, <2>5
<1>11. queue' # <<>> => timers' > 0
  BY DEF Run
<1> QED
  BY <1>8, <1>9, <1>10, <1>11

(* QueueInv holds at first. *)
LEMMA QueueInit == Init => QueueInv
  BY DEF Init, QueueInv

(* A process that has ended has no queue. *)
LEMMA QueueEnds == ASSUME Ends PROVE QueueInv'
  BY DEF Ends, ProcessEnds, QueueInv

(* A task that stays at work leaves the queue as it is. *)
LEMMA QueueKept ==
  ASSUME QueueInv, UNCHANGED <<up, program, toLoad, queue, timers>>,
         \A c \in Certificates :
           \/ task'[c] = task[c]
           \/ c \in program.certificates /\ Idle(c) = FALSE /\ task[c] # "none" /\ task'[c] # "none"
  PROVE  QueueInv'
<1>1. \A c \in Certificates : Idle(c)' <=> Idle(c)
  BY QueueParts DEF Idle
<1>2. \A c \in Certificates : task'[c] # "none" => task[c] # "none"
  OBVIOUS
<1> QED
  BY <1>1, <1>2, QueueParts, QueueSame

(* The main program queues the certificates it loads. *)
LEMMA QueueMain ==
  ASSUME TypeOK, QueueInv, up, MainStep, Same
  PROVE  QueueInv'
<1>1. TaskTypeOK /\ DiskTypeOK
  BY TypeParts
<1>2. ASSUME NEW c \in Certificates, LoadConfig(c) PROVE QueueInv'
  <2>1. \E kind \in Kinds, due \in Nat : Schedule(c, kind, due)
    <3>1. config[c] \in Nat
      BY <1>1, Constants DEF DiskTypeOK
    <3> QED
      BY <1>2, <3>1, Constants DEF LoadConfig, Kinds
  <2>2. c \in toLoad /\ toLoad' = toLoad \ {c} /\ UNCHANGED <<up, program, task>>
    BY <1>2 DEF LoadConfig, Same
  <2>3. ~Queued(c) /\ Once /\ task[c] = "none" /\ c \in program.certificates
    BY <1>1, <2>2, QueueParts DEF Idle, TaskTypeOK
  <2>4. /\ Sorted' /\ Once' /\ timers' > 0
        /\ \A d \in Certificates : Queued(d)' <=> d = c \/ Queued(d)
    BY <1>1, <2>1, <2>3, QueueInserted
  <2>5. \A d \in Certificates : Idle(d)' <=> d = c \/ Idle(d)
    BY <2>2, <2>3 DEF Idle
  <2>6. \A d \in Certificates :
          /\ Queued(d)' <=> Idle(d)'
          /\ task'[d] # "none" => up' /\ d \in program'.certificates \ toLoad'
    BY <2>2, <2>3, <2>4, <2>5, QueueParts
  <2> QED
    BY <2>4, <2>6, QueueParts
<1>3. CASE StartServer \/ Started
  BY <1>3, QueueKept DEF StartServer, Started, Same
<1> QED
  BY <1>2, <1>3 DEF MainStep

(* A timer takes what is due from the front, and these are at work then. *)
LEMMA QueueTimer ==
  ASSUME TypeOK, QueueInv, up, Run, Same
  PROVE  QueueInv'
<1>1. /\ Sorted' /\ Once'
      /\ \A c \in Certificates :
           \/ ~Queued(c) /\ ~Queued(c)' /\ task'[c] = task[c]
           \/ Queued(c) /\ Queued(c)' /\ task'[c] = task[c]
           \/ Queued(c) /\ ~Queued(c)' /\ task'[c] \in {"load", "request"}
      /\ queue' # <<>> => timers' > 0
  BY TypeParts, QueueParts, QueueRun
<1>2. UNCHANGED <<up, program, toLoad>>
  BY DEF Run, Same
<1>3. ASSUME NEW c \in Certificates
      PROVE  /\ Queued(c)' <=> Idle(c)'
             /\ task'[c] # "none" => up' /\ c \in program'.certificates \ toLoad'
  BY <1>1, <1>2, QueueParts DEF Idle
<1> QED
  BY <1>1, <1>3, QueueParts

(* A task that is done queues the next one of its certificate. *)
LEMMA QueueTask ==
  ASSUME TypeOK, QueueInv, NEW c \in program.certificates, TaskRuns(c)
  PROVE  QueueInv'
<1>1. TaskTypeOK /\ ProgramTypeOK
  BY TypeParts
<1>2. c \in Certificates /\ UNCHANGED <<up, program>> /\ up
  BY <1>1, ProgramType DEF TaskRuns, Same, Ready
<1>3. CASE TaskSaved(c)
  <2>1. task[c] = "save" /\ task'[c] = "none" /\ UNCHANGED toLoad
        /\ \A d \in Certificates \ {c} : task'[d] = task[d]
    BY <1>1, <1>2, <1>3, AtType DEF TaskSaved, TaskPcs
  <2>2. ~Queued(c) /\ Once /\ c \in program.certificates \ toLoad
    BY <1>2, <2>1, QueueParts DEF Idle
  <2>3. expires[c] \in Nat /\ Schedule(c, "request", expires[c]) /\ "request" \in Kinds
    BY <1>1, <1>2, <1>3, Constants DEF TaskSaved, TaskTypeOK, Kinds
  <2>4. /\ Sorted' /\ Once' /\ timers' > 0
        /\ \A d \in Certificates : Queued(d)' <=> d = c \/ Queued(d)
    BY <1>1, <1>2, <2>2, <2>3, QueueInserted
  <2>5. \A d \in Certificates : Idle(d)' <=> d = c \/ Idle(d)
    BY <1>2, <2>1, <2>2 DEF Idle
  <2>6. \A d \in Certificates :
          /\ Queued(d)' <=> Idle(d)'
          /\ task'[d] # "none" => up' /\ d \in program'.certificates \ toLoad'
    BY <1>2, <2>1, <2>2, <2>4, <2>5, QueueParts
  <2> QED
    BY <2>4, <2>6, QueueParts
<1>4. CASE ~TaskSaved(c)
  <2>1. TaskLoadsConfig(c) \/ CertbotWrites(c) \/ TaskRestarts(c) \/ TaskRestarted(c)
    BY <1>4 DEF TaskRuns, TaskStep
  <2>2. UNCHANGED <<toLoad, queue, timers>>
    BY <2>1 DEF TaskLoadsConfig, CertbotWrites, TaskRestarts, TaskRestarted
  <2>3. \E here, there \in TaskPcs \ {"none"} : At(c, here, there)
    BY <2>1 DEF TaskLoadsConfig, CertbotWrites, TaskRestarts, TaskRestarted, TaskPcs, Kinds
  <2>4. /\ task[c] # "none" /\ task'[c] # "none"
        /\ \A d \in Certificates \ {c} : task'[d] = task[d]
    BY <1>1, <1>2, <2>3, AtType
  <2>5. Idle(c) = FALSE
    BY <2>4 DEF Idle
  <2> QED
    BY <1>2, <2>2, <2>4, <2>5, QueueKept
<1> QED
  BY <1>3, <1>4

(* Time leaves the queue in its order. *)
LEMMA QueueTick ==
  ASSUME TypeOK, QueueInv, Passes
  PROVE  QueueInv'
<1>1. queue \in Seq(ScheduledTask)
  BY DEF TypeOK
<1>2. DOMAIN queue' = DOMAIN queue /\ DOMAIN queue = 1..Len(queue)
  BY <1>1 DEF Passes, Tick
<1>3. \A i \in DOMAIN queue : queue[i] \in ScheduledTask
  BY <1>1, <1>2, ElementOfSeq
<1>4. \A i \in DOMAIN queue :
        /\ queue[i].due \in Nat
        /\ queue'[i].due = Left(queue[i].due)
        /\ queue'[i].certificate = queue[i].certificate
  BY <1>3 DEF Passes, Tick, ScheduledTask
<1>5. \A n, m \in Nat : n <= m => Left(n) <= Left(m)
  BY DEF Left
<1>6. Sorted' /\ Once' /\ \A c \in Certificates : Queued(c)' <=> Queued(c)
  <2>1. Sorted'
    <3>1. \A i, j \in DOMAIN queue : i < j => queue'[i].due <= queue'[j].due
      BY <1>4, <1>5, QueueParts DEF Sorted
    <3> QED
      BY <1>2, <3>1 DEF Sorted
  <2>2. Once'
    BY <1>2, <1>4, QueueParts DEF Once
  <2>3. \A c \in Certificates : Queued(c)' <=> Queued(c)
    BY <1>2, <1>4 DEF Queued
  <2> QED
    BY <2>1, <2>2, <2>3
<1>7. UNCHANGED <<up, program, toLoad, task, timers>>
  BY DEF Passes, Tick, Same
<1>8. \A c \in Certificates : Idle(c)' <=> Idle(c)
  BY <1>7 DEF Idle
<1>9. queue' # <<>> => queue # <<>>
  <2>1. queue = <<>> => DOMAIN queue = {}
    OBVIOUS
  <2>2. queue' = [i \in DOMAIN queue |-> [queue[i] EXCEPT !.due = Left(@)]]
    BY DEF Passes, Tick
  <2>3. queue = <<>> => queue' = <<>>
    BY <2>2
  <2> QED
    BY <2>3
<1> QED
  BY <1>6, <1>7, <1>8, <1>9, QueueParts

(* QueueInv is inductive. *)
LEMMA QueueStep ==
  ASSUME TypeOK, QueueInv, [Next]_vars
  PROVE  QueueInv'
<1>1. CASE Boot
  <2>1. ~up /\ up' = TRUE /\ toLoad' = program.certificates
        /\ UNCHANGED <<program, queue, timers, task>>
    BY <1>1 DEF Boot
  <2>2. \A c \in Certificates : ~Queued(c) /\ task[c] = "none" /\ ~Idle(c)'
    BY <2>1, QueueParts DEF Idle
  <2> QED
    BY <2>1, <2>2, QueueParts, QueueSame
<1>2. CASE Ends
  BY <1>2, QueueEnds
<1>3. CASE NetMoves
  BY <1>3, QueueKept DEF NetMoves, Same, taskVars
<1>4. CASE Ready /\ MainStep /\ Same
  BY <1>4, QueueMain DEF Ready
<1>5. CASE Ready /\ Run /\ UNCHANGED <<serverVars, diskVars>> /\ Same
  BY <1>5, QueueTimer DEF Ready
<1>6. CASE \E c \in program.certificates : TaskRuns(c)
  BY <1>6, QueueTask
<1>7. CASE Ready /\ Same /\ \E c \in program.admins : AdminStep(c)
  BY <1>7, QueueKept DEF AdminStep, Same, taskVars
<1>8. CASE Passes
  BY <1>8, QueueTick
<1>9. CASE UNCHANGED vars
  BY <1>9, QueueKept DEF vars, taskVars
<1> QED
  BY <1>1, <1>2, <1>3, <1>4, <1>5, <1>6, <1>7, <1>8, <1>9, Steps

(* A queue like that covers every certificate. *)
LEMMA QueueCovers ==
  ASSUME TypeOK, QueueInv
  PROVE  Covered
<1>1. queue \in Seq(ScheduledTask) /\ DOMAIN queue = 1..Len(queue) /\ Len(queue) \in Nat
  BY DEF TypeOK
<1>2. \A i \in DOMAIN queue : queue[i].due \in Nat
  <2>1. \A i \in DOMAIN queue : queue[i] \in ScheduledTask
    BY <1>1, ElementOfSeq
  <2> QED
    BY <2>1 DEF ScheduledTask
<1>3. ASSUME up, NEW c \in program.certificates \ toLoad
      PROVE  LET queued == {i \in DOMAIN queue : queue[i].certificate = c}
             IN  IF task[c] = "none" THEN Cardinality(queued) = 1 ELSE queued = {}
  <2> DEFINE queued == {i \in DOMAIN queue : queue[i].certificate = c}
  <2>1. c \in Certificates
    BY TypeParts, ProgramType
  <2>2. CASE task[c] = "none"
    <3>1. Queued(c)
      BY <1>3, <2>1, <2>2, QueueParts DEF Idle
    <3>2. PICK i \in DOMAIN queue : queue[i].certificate = c
      BY <3>1 DEF Queued
    <3>3. queued = {i}
      BY <3>2, QueueParts DEF Once
    <3>4. Cardinality(queued) = 1
      BY <3>3, FS_Singleton
    <3> QED
      BY <2>2, <3>4
  <2>3. CASE task[c] # "none"
    <3>1. ~Queued(c)
      BY <2>1, <2>3, QueueParts DEF Idle
    <3> QED
      BY <2>3, <3>1 DEF Queued
  <2> QED
    BY <2>2, <2>3
<1>4. ASSUME NEW i \in DOMAIN queue, queue[i].due = 0
      PROVE  i \in DueTasks
  <2>1. \A j \in 1..i : j \in DOMAIN queue /\ (j < i \/ j = i)
    BY <1>1
  <2>2. \A j \in 1..i : queue[j].due <= 0
    BY <1>2, <1>4, <2>1, QueueParts DEF Sorted
  <2>3. \A j \in 1..i : queue[j].due = 0
    BY <1>2, <2>1, <2>2
  <2> QED
    BY <2>3, <1>4 DEF DueTasks
<1>5. queue # <<>> => timers > 0
  BY QueueParts
<1> QED
  BY <1>3, <1>4, <1>5 DEF Covered

(* Whatever the times, the failures and the order of the timers, no         *)
(* certificate is without a task and none has two, a task that is due is    *)
(* not behind one that is not, and a queue with a task has a timer          *)
(* (scheduler.ts:18-59, letsencrypt.ts:216, 282, 339, 356).                 *)
THEOREM CoveredCorrect == Spec => []Covered
<1>1. Init => TypeOK /\ QueueInv
  BY InitType, QueueInit
<1>2. TypeOK /\ QueueInv /\ [Next]_vars => (TypeOK /\ QueueInv)'
  BY TypeStep, QueueStep
<1>3. TypeOK /\ QueueInv => Covered
  BY QueueCovers
<1> QED
  BY <1>1, <1>2, <1>3, PTL DEF Spec

--------------------------------------------------------------------------------
(* Who can be in a call. *)

(* A caller's own steps leave the calls of the others where they are. *)
LEMMA OthersStay ==
  ASSUME NetTypeOK, NEW c \in Callers, NEW files,
         Call(c) \/ Return(c) \/ CallStep(c, files)
  PROVE  \A d \in Callers \ {c} :
           /\ pc'[d] = pc[d] /\ awaits'[d] = awaits[d]
           /\ d \in restarting' <=> d \in restarting
           /\ d \in torn' <=> d \in torn
<1> SUFFICES ASSUME NEW d \in Callers \ {c}
    PROVE  /\ pc'[d] = pc[d] /\ awaits'[d] = awaits[d]
           /\ d \in restarting' <=> d \in restarting
           /\ d \in torn' <=> d \in torn
  OBVIOUS
<1> DEFINE Stays == pc'[d] = pc[d] /\ awaits'[d] = awaits[d]
<1>1. ASSUME NEW where, Goes(c, where) PROVE pc'[d] = pc[d]
  BY <1>1 DEF Goes, NetTypeOK
<1>2. ASSUME CreateServer(c) PROVE Stays
  BY <1>1, <1>2, CreateType DEF NetTypeOK
<1>3. ASSUME CloseServer(c, server) PROVE Stays /\ torn' = torn
  <2>1. pc'[d] = pc[d]
    BY <1>1, <1>3 DEF CloseServer
  <2> QED
    BY <1>3, <2>1 DEF CloseServer, NetTypeOK
<1>4. ASSUME Start(c) PROVE Stays /\ torn' = torn
  BY <1>1, <1>2, <1>4 DEF Start
<1>5. ASSUME NEW restart, Stop(c, restart) PROVE Stays /\ torn' = torn
  BY <1>1, <1>3, <1>4, <1>5 DEF Stop
<1>6. CASE Call(c)
  <2>1. restarting' = restarting \/ restarting' = restarting \cup {c}
    BY <1>6 DEF Call, CallStart, CallStop, CallRestart
  <2>2. Stays /\ torn' = torn
    BY <1>4, <1>5, <1>6 DEF Call, CallStart, CallStop, CallRestart
  <2> QED
    BY <2>1, <2>2
<1>7. CASE Return(c)
  <2>1. pc'[d] = pc[d]
    BY <1>1, <1>7 DEF Return
  <2> QED
    BY <1>7, <2>1 DEF Return, NetTypeOK
<1>8. CASE CallStep(c, files)
  <2>1. Stays
    BY <1>1, <1>2, <1>8 DEF CallStep, ReadKey, ReadCert
  <2>2. restarting' = restarting /\ (torn' = torn \/ torn' = torn \ {c})
    BY <1>8 DEF CallStep, ReadKey, ReadCert, CreateServer
  <2> QED
    BY <2>1, <2>2
<1> QED
  BY <1>6, <1>7, <1>8

(* What node does begins and ends no call. *)
LEMMA EventsEndNoCall ==
  ASSUME NetTypeOK, NetMoves
  PROVE  /\ \A c \in Callers : pc'[c] = "idle" <=> pc[c] = "idle"
         /\ restarting' = restarting
<1>1. ASSUME NEW n \in NetServers,
             Opened(n) \/ Dropped(n) \/ Closed(n) \/ Connect(n) \/ Disconnect(n)
      PROVE  \A c \in Callers : pc'[c] = "idle" <=> pc[c] = "idle"
  BY <1>1
  DEF Opened, Dropped, Closed, Connect, Disconnect, NetTypeOK, AfterClose, Waiting
<1>2. ASSUME NEW c \in Callers, CallStep(c, FilesExist)
      PROVE  \A d \in Callers : pc'[d] = "idle" <=> pc[d] = "idle"
  <2>1. pc[c] # "idle"
    BY <1>2 DEF CallStep, ReadKey, ReadCert
  <2>2. Goes(c, "cert") \/ Goes(c, "rejected") \/ Goes(c, "opening")
    BY <1>2 DEF CallStep, ReadKey, ReadCert, CreateServer
  <2>3. pc'[c] # "idle"
    BY <2>2, GoesType DEF CallPcs
  <2> QED
    BY <1>2, <2>1, <2>3, OthersStay
<1> QED
  BY <1>1, <1>2
  DEF NetMoves, Opened, Dropped, Closed, Connect, Disconnect, CallStep, ReadKey, ReadCert

Allowed(c) ==
  \/ c = Main /\ main = "start"
  \/ c \in Certificates /\ task[c] = "restart" /\ c \in restarting
  \/ c \in program.admins

(* CallInv, part by part, now and after a step. *)
LEMMA CallParts ==
  /\ CallInv <=>
       /\ \A c \in Callers : pc[c] # "idle" => Allowed(c)
       /\ \A c \in Certificates : task[c] \in {"written", "restart", "save"} => main = "done"
       /\ ~up => main = "done" /\ server = None
  /\ CallInv' <=>
       /\ \A c \in Callers : pc'[c] # "idle" => Allowed(c)'
       /\ \A c \in Certificates : task'[c] \in {"written", "restart", "save"} => main' = "done"
       /\ ~up' => main' = "done" /\ server' = None
  BY DEF CallInv, Allowed

(* The main program, the tasks and the administrators are different callers. *)
LEMMA CallersDiffer ==
  ASSUME ProgramTypeOK
  PROVE  /\ Main \in Callers /\ Main \notin Certificates /\ Main \notin program.admins
         /\ \A c \in Certificates : c \in Callers /\ c # Main /\ c \notin program.admins
         /\ program.admins \subseteq Callers
         /\ \A c \in Callers : c \in Certificates \/ c \in Admins \/ c = Main
  BY CallersAssumption, ProgramType

(* The main program calls start and nothing else. *)
LEMMA CallMain ==
  ASSUME TypeOK, CallInv, up, MainStep, Same
  PROVE  CallInv'
<1>1. NetTypeOK /\ TaskTypeOK /\ ProgramTypeOK
  BY TypeParts
<1>2. UNCHANGED <<up, program, task>>
  BY DEF MainStep, LoadConfig, StartServer, Started, Same
<1>3. ASSUME NEW c \in Certificates, LoadConfig(c) PROVE CallInv'
  BY <1>2, <1>3, CallParts DEF LoadConfig, serverVars, Allowed
<1>4. CASE StartServer
  <2>1. main = "load" /\ main' = "start"
    BY <1>4 DEF StartServer
  <2>2. \A d \in Callers \ {Main} : pc'[d] = pc[d]
    BY <1>1, <1>4, CallersDiffer, OthersStay DEF StartServer, Call
  <2>3. \A c \in Certificates : task[c] \notin {"written", "restart", "save"}
    BY <2>1, CallParts
  <2>4. \A d \in Callers \ {Main} : Allowed(d) => Allowed(d)'
    BY <1>2, <2>3 DEF Allowed
  <2>5. Allowed(Main)'
    BY <2>1 DEF Allowed
  <2> QED
    BY <1>2, <2>2, <2>3, <2>4, <2>5, CallParts
<1>5. CASE Started
  <2>1. main = "start" /\ main' = "done"
    BY <1>5 DEF Started
  <2>2. \A d \in Callers \ {Main} : pc'[d] = pc[d] /\ (d \in restarting' <=> d \in restarting)
    BY <1>1, <1>5, CallersDiffer, OthersStay DEF Started
  <2>3. pc'[Main] = "idle"
    BY <1>1, <1>5, GoesType, CallersDiffer DEF Started, Return, CallPcs
  <2>4. \A d \in Callers \ {Main} : Allowed(d) => Allowed(d)'
    BY <1>2, <2>2 DEF Allowed
  <2> QED
    BY <1>2, <2>1, <2>2, <2>3, <2>4, CallParts
<1> QED
  BY <1>3, <1>4, <1>5 DEF MainStep

(* A task calls restart at its own await and nothing else. *)
LEMMA CallTask ==
  ASSUME TypeOK, CallInv, NEW c \in program.certificates, TaskRuns(c)
  PROVE  CallInv'
<1>1. NetTypeOK /\ TaskTypeOK /\ ProgramTypeOK
  BY TypeParts
<1>2. /\ c \in Certificates /\ c \in Callers /\ UNCHANGED <<up, program, main>> /\ up
      /\ c # Main /\ c \notin program.admins
  <2>1. UNCHANGED main
    BY DEF TaskRuns, TaskStep, TaskLoadsConfig, CertbotWrites, TaskRestarts,
           TaskRestarted, TaskSaved
  <2> QED
    BY <1>1, <2>1, ProgramType, CallersDiffer DEF TaskRuns, Same, Ready
<1>3. \A d \in Certificates \ {c} : task'[d] = task[d]
  BY <1>1, <1>2
  DEF TaskRuns, TaskStep, TaskLoadsConfig, CertbotWrites, TaskRestarts, TaskRestarted,
      TaskSaved, At, TaskTypeOK
<1>4. CASE TaskRestarts(c) \/ TaskRestarted(c)
  <2>1. \A d \in Callers \ {c} : pc'[d] = pc[d] /\ (d \in restarting' <=> d \in restarting)
    BY <1>1, <1>2, <1>4, OthersStay DEF TaskRestarts, TaskRestarted, Call
  <2>2. pc'[c] # "idle" => Allowed(c)'
    <3>1. CASE TaskRestarts(c)
      <4>1. task'[c] = "restart" /\ c \in restarting'
        BY <1>1, <1>2, <3>1, AtType DEF TaskRestarts, CallRestart, TaskPcs
      <4> QED
        BY <1>2, <4>1 DEF Allowed
    <3>2. CASE TaskRestarted(c)
      BY <1>1, <1>2, <3>2, GoesType DEF TaskRestarted, Return, CallPcs
    <3> QED
      BY <1>4, <3>1, <3>2
  <2>3. \A d \in Callers \ {c} : Allowed(d) => Allowed(d)'
    BY <1>2, <1>3, <2>1 DEF Allowed
  <2>4. main = "done"
    <3>1. task[c] \in {"written", "restart"}
      BY <1>4 DEF TaskRestarts, TaskRestarted, At
    <3> QED
      BY <1>2, <3>1, CallParts
  <2> QED
    BY <1>2, <2>1, <2>2, <2>3, <2>4, CallParts
<1>5. CASE TaskLoadsConfig(c) \/ CertbotWrites(c) \/ TaskSaved(c)
  <2>1. UNCHANGED <<pc, restarting>>
    BY <1>5 DEF TaskLoadsConfig, CertbotWrites, TaskSaved, FilesChange, serverVars
  <2>2. task[c] # "restart"
    BY <1>5 DEF TaskLoadsConfig, CertbotWrites, TaskSaved, At, Kinds
  <2>3. pc[c] = "idle"
    BY <1>2, <2>2, CallParts DEF Allowed
  <2>4. \A d \in Callers \ {c} : Allowed(d) => Allowed(d)'
    BY <1>2, <1>3, <2>1 DEF Allowed
  <2>5. task'[c] \in {"written", "restart", "save"} => main = "done"
    BY <1>1, <1>2, <1>5 DEF TaskLoadsConfig, CertbotWrites, TaskSaved, At, TaskTypeOK
  <2> QED
    BY <1>2, <1>3, <2>1, <2>3, <2>4, <2>5, CallParts
<1> QED
  BY <1>4, <1>5 DEF TaskRuns, TaskStep

(* CallInv is inductive. *)
LEMMA CallStepInv ==
  ASSUME TypeOK, QueueInv, CallInv, [Next]_vars
  PROVE  CallInv'
<1>1. NetTypeOK /\ TaskTypeOK /\ ProgramTypeOK
  BY TypeParts
<1>2. CASE Boot
  <2>1. ~up /\ up' = TRUE /\ UNCHANGED <<serverVars, program, task>>
    BY <1>2 DEF Boot
  <2>2. \A c \in Certificates : task[c] = "none"
    BY <2>1, QueueParts
  <2>3. \A c \in Callers : Allowed(c) => Allowed(c)'
    BY <2>1, <2>2, CallParts DEF Allowed
  <2> QED
    BY <2>1, <2>2, <2>3, CallParts DEF serverVars
<1>3. CASE Ends
  BY <1>3 DEF Ends, ProcessEnds, ServerGone, CallInv
<1>4. CASE NetMoves
  <2>1. UNCHANGED <<up, program, main, task>> /\ up
    BY <1>4 DEF NetMoves, Same, taskVars, Ready
  <2> QED
    BY <1>1, <1>4, <2>1, EventsEndNoCall, CallParts DEF Allowed
<1>5. CASE Ready /\ MainStep /\ Same
  BY <1>5, CallMain DEF Ready
<1>6. CASE Ready /\ Run /\ UNCHANGED <<serverVars, diskVars>> /\ Same
  <2>1. UNCHANGED <<up, program, main, pc, restarting, server>> /\ up
    BY <1>6 DEF Run, serverVars, Same, Ready
  <2>2. \A c \in Certificates :
          task'[c] = task[c] \/ (task[c] = "none" /\ task'[c] \in {"load", "request"})
    BY <1>1, <1>6, QueueRun, QueueParts DEF Idle
  <2>3. \A c \in Callers : Allowed(c) => Allowed(c)'
    BY <2>1, <2>2 DEF Allowed
  <2> QED
    BY <2>1, <2>2, <2>3, CallParts
<1>7. CASE \E c \in program.certificates : TaskRuns(c)
  BY <1>7, CallTask
<1>8. CASE Ready /\ Same /\ \E c \in program.admins : AdminStep(c)
  <2>1. PICK c \in program.admins : AdminStep(c)
    BY <1>8
  <2>2. c \in Callers
    BY <1>1, CallersDiffer
  <2>3. UNCHANGED <<up, program, main, task>> /\ up
    BY <1>8, <2>1 DEF AdminStep, Same, taskVars, Ready
  <2>4. \A d \in Callers \ {c} : pc'[d] = pc[d] /\ (d \in restarting' <=> d \in restarting)
    BY <1>1, <2>1, <2>2, OthersStay DEF AdminStep
  <2>5. Allowed(c)' /\ \A d \in Callers \ {c} : Allowed(d) => Allowed(d)'
    BY <2>3, <2>4 DEF Allowed
  <2> QED
    BY <2>3, <2>4, <2>5, CallParts
<1>9. CASE Passes
  BY <1>9, CallParts DEF Passes, Tick, Same, serverVars, Allowed
<1>10. CASE UNCHANGED vars
  BY <1>10, CallParts DEF vars, serverVars, taskVars, Allowed
<1> QED
  BY <1>2, <1>3, <1>4, <1>5, <1>6, <1>7, <1>8, <1>9, <1>10, Steps

--------------------------------------------------------------------------------
(* No server is lost. *)

Own == \A n \in NetServers : net[n] \in {"opening", "closing", "aborted"} => server = n

NobodyReads == \A c \in Callers : ~Reading(c)

OwnInv ==
  /\ HeldInv
  /\ ~secure => NobodyReads
  /\ (secure /\ program.admins = {}) => TurnInv

(* A step is the end of the process, an event of node, a step of a caller,  *)
(* or leaves the server, the net servers and the calls as they are.         *)
CallerSteps(c) ==
  \/ CallStep(c, FilesExist)
  \/ c = Main /\ main = "load" /\ CallStart(c)
  \/ c = Main /\ main = "start" /\ pc[c] = "resolved" /\ Return(c)
  \/ c \in Certificates /\ TaskRestarts(c)
  \/ c \in Certificates /\ TaskRestarted(c)
  \/ c \in program.admins /\ AdminStep(c)

CallVars == <<server, net, pc, awaits, restarting>>

(* What a step can be for the server. *)
LEMMA ServerSteps ==
  ASSUME TypeOK, [Next]_vars
  PROVE  /\ UNCHANGED <<secure, program>>
         /\ \/ ServerGone
            \/ UNCHANGED CallVars
            \/ Ready /\ \E n \in NetServers : Opened(n) \/ Dropped(n) \/ Closed(n)
            \/ Ready /\ \E c \in Callers : CallerSteps(c)
<1>0. ProgramTypeOK
  BY TypeParts
<1>1. CASE Boot
  BY <1>1 DEF Boot, CallVars, serverVars
<1>2. CASE Ends
  BY <1>2 DEF Ends, ProcessEnds
<1>3. CASE NetMoves
  BY <1>3 DEF NetMoves, Same, Connect, Disconnect, CallVars, CallerSteps
<1>4. CASE Ready /\ MainStep /\ Same
  BY <1>0, <1>4, CallersDiffer
  DEF MainStep, LoadConfig, StartServer, Started, Same, CallVars, serverVars, CallerSteps
<1>5. CASE Ready /\ Run /\ UNCHANGED <<serverVars, diskVars>> /\ Same
  BY <1>5 DEF serverVars, CallVars, Same
<1>6. CASE \E c \in program.certificates : TaskRuns(c)
  <2>1. PICK c \in program.certificates : TaskRuns(c)
    BY <1>6
  <2>2. c \in Certificates /\ c \in Callers
    BY <1>0, ProgramType, CallersDiffer
  <2>3. CASE TaskRestarts(c) \/ TaskRestarted(c)
    BY <2>1, <2>2, <2>3 DEF TaskRuns, Same, CallerSteps
  <2>4. CASE TaskLoadsConfig(c) \/ CertbotWrites(c) \/ TaskSaved(c)
    BY <2>1, <2>4
    DEF TaskRuns, Same, TaskLoadsConfig, CertbotWrites, TaskSaved, FilesChange, serverVars, CallVars
  <2> QED
    BY <2>1, <2>3, <2>4 DEF TaskRuns, TaskStep
<1>7. CASE Ready /\ Same /\ \E c \in program.admins : AdminStep(c)
  BY <1>0, <1>7, CallersDiffer DEF Same, CallerSteps
<1>8. CASE Passes
  BY <1>8 DEF Passes, Tick, Same, serverVars, CallVars
<1>9. CASE UNCHANGED vars
  BY <1>9 DEF vars, serverVars, CallVars
<1> QED
  BY <1>1, <1>2, <1>3, <1>4, <1>5, <1>6, <1>7, <1>8, <1>9, Steps

(* A net server that is created replaces none. *)
LEMMA OwnCreate ==
  ASSUME NetTypeOK, Own, server = None, NEW c \in Callers, CreateServer(c)
  PROVE  Own'
<1>1. PICK n \in NetServers :
           server' = n /\ net' = [net EXCEPT ![n] = "opening"]
  BY CreateType
<1> QED
  BY <1>1, NoneAssumption DEF Own, NetTypeOK

(* The net server that is closed is the one in _server. *)
LEMMA OwnClose ==
  ASSUME NetTypeOK, Own, NEW c \in Callers, server # None, CloseServer(c, server)
  PROVE  Own'
  BY DEF Own, NetTypeOK, CloseServer

(* A start creates one only where there is none. *)
LEMMA OwnStart ==
  ASSUME NetTypeOK, Own, NEW c \in Callers, Start(c)
  PROVE  Own'
<1>1. CASE server = None /\ CreateServer(c)
  BY <1>1, OwnCreate
<1>2. CASE UNCHANGED <<server, net>>
  BY <1>2 DEF Own
<1> QED
  BY <1>1, <1>2 DEF Start

(* A stop closes the one there is. *)
LEMMA OwnStop ==
  ASSUME NetTypeOK, Own, NEW c \in Callers, NEW restart, Stop(c, restart)
  PROVE  Own'
<1>1. CASE server # None /\ CloseServer(c, server)
  BY <1>1, OwnClose
<1>2. CASE Start(c)
  BY <1>2, OwnStart
<1>3. CASE UNCHANGED <<server, net>>
  BY <1>3 DEF Own
<1> QED
  BY <1>1, <1>2, <1>3 DEF Stop

(* What is closed or refused was in _server, and no other is. *)
LEMMA OwnEvent ==
  ASSUME NetTypeOK, Own, NEW n \in NetServers, Opened(n) \/ Dropped(n) \/ Closed(n)
  PROVE  Own'
<1>1. CASE Opened(n) \/ Dropped(n)
  BY <1>1 DEF Opened, Dropped, Own, NetTypeOK
<1>2. CASE Closed(n)
  <2>1. server = n
    BY <1>2 DEF Closed, Own
  <2>2. \A m \in NetServers \ {n} : net'[m] = net[m]
    BY <1>2 DEF Closed, NetTypeOK
  <2>3. \A m \in NetServers \ {n} : net[m] \notin {"opening", "closing", "aborted"}
    BY <2>1 DEF Own
  <2>4. \/ server' = n
        \/ net'[n] \in {"free", "stray"}
    BY <1>2 DEF Closed, NetTypeOK
  <2> QED
    BY <2>2, <2>3, <2>4 DEF Own
<1> QED
  BY <1>1, <1>2

(* The steps of a caller, but for those that wait for a file. *)
LEMMA OwnCall ==
  ASSUME NetTypeOK, Own, NEW c \in Callers, CallerSteps(c), Reading(c) => server = None
  PROVE  Own'
<1>1. CASE CallStep(c, FilesExist)
  <2>1. server = None
    BY <1>1 DEF CallStep, ReadKey, ReadCert, Reading
  <2>2. CASE CreateServer(c)
    BY <2>1, <2>2, OwnCreate
  <2>3. CASE UNCHANGED <<server, net>>
    BY <2>3 DEF Own
  <2> QED
    BY <1>1, <2>2, <2>3 DEF CallStep, ReadKey, ReadCert
<1>2. CASE Call(c)
  BY <1>2, OwnStart, OwnStop DEF Call, CallStart, CallStop, CallRestart
<1>3. CASE Return(c)
  BY <1>3 DEF Return, Own
<1> QED
  BY <1>1, <1>2, <1>3 DEF CallerSteps, TaskRestarts, TaskRestarted, AdminStep, Call

(* A plain server reads no files. *)
LEMMA PlainNeverReads ==
  ASSUME TypeOK, ~secure, NobodyReads, [Next]_vars
  PROVE  NobodyReads'
<1>1. NetTypeOK
  BY TypeParts
<1>2. CASE ServerGone
  BY <1>2 DEF ServerGone, NobodyReads, Reading
<1>3. CASE UNCHANGED CallVars
  BY <1>3 DEF CallVars, NobodyReads, Reading
<1>4. ASSUME NEW n \in NetServers, Opened(n) \/ Dropped(n) \/ Closed(n)
      PROVE  NobodyReads'
  BY <1>1, <1>4 DEF Opened, Dropped, Closed, AfterClose, NetTypeOK, NobodyReads, Reading
<1>5. ASSUME NEW c \in Callers, CallerSteps(c) PROVE NobodyReads'
  <2>1. ASSUME NEW where, Goes(c, where), where \notin {"key", "cert"}
        PROVE  NobodyReads'
    BY <1>1, <2>1 DEF Goes, NetTypeOK, NobodyReads, Reading
  <2>2. ~CallStep(c, FilesExist)
    BY DEF CallStep, ReadKey, ReadCert, NobodyReads, Reading
  <2>3. ASSUME CreateServer(c) PROVE NobodyReads'
    BY <2>1, <2>3 DEF CreateServer
  <2>4. ASSUME CloseServer(c, server) PROVE NobodyReads'
    BY <2>1, <2>4 DEF CloseServer
  <2>5. ASSUME Start(c) PROVE NobodyReads'
    <3>1. CreateServer(c) \/ Goes(c, "resolved")
      BY <2>5 DEF Start
    <3> QED
      BY <2>1, <2>3, <3>1
  <2>6. ASSUME NEW restart, Stop(c, restart) PROVE NobodyReads'
    <3>1. CloseServer(c, server) \/ Start(c) \/ Goes(c, "resolved")
      BY <2>6 DEF Stop
    <3> QED
      BY <2>1, <2>4, <2>5, <3>1
  <2>7. ASSUME Return(c) PROVE NobodyReads'
    BY <2>1, <2>7 DEF Return
  <2> QED
    BY <1>5, <2>2, <2>5, <2>6, <2>7
    DEF CallerSteps, TaskRestarts, TaskRestarted, AdminStep, Call, CallStart, CallStop, CallRestart
<1> QED
  BY <1>2, <1>3, <1>4, <1>5, ServerSteps

(* While the main program loads the configs nobody calls. *)
LEMMA QuietAtFirst ==
  ASSUME ProgramTypeOK, CallInv, program.admins = {}
  PROVE  /\ main = "load" => \A c \in Callers : pc[c] = "idle"
         /\ main = "start" => \A c \in Callers : c # Main => pc[c] = "idle"
         /\ \A c \in Callers : pc[c] # "idle" =>
              \/ c = Main /\ main = "start"
              \/ c \in Certificates /\ task[c] = "restart" /\ c \in restarting /\ main = "done"
  BY CallParts, CallersDiffer DEF Allowed

(* A restart closes the server that is there. *)
LEMMA RestartCloses ==
  ASSUME NetTypeOK, NEW c \in Callers, CallRestart(c), server # None
  PROVE  /\ pc[c] = "idle" /\ restarting' = restarting \cup {c}
         /\ UNCHANGED <<server, fresh, torn>>
         /\ server \in NetServers /\ awaits'[c] = server
         /\ pc'[c] = IF net[server] = "listening" THEN "closing" ELSE "refused"
         /\ net'[server] = IF net[server] = "listening" THEN "closing"
                           ELSE IF net[server] = "opening" THEN "aborted" ELSE net[server]
         /\ \A n \in NetServers \ {server} : net'[n] = net[n]
<1>1. server \in NetServers
  BY DEF NetTypeOK
<1>2. CloseServer(c, server) /\ pc[c] = "idle" /\ restarting' = restarting \cup {c}
  BY DEF CallRestart, Stop
<1>3. net'[server] = CASE net[server] = "listening" -> "closing"
                       [] net[server] = "opening"   -> "aborted"
                       [] OTHER                     -> net[server]
  BY <1>1, <1>2 DEF CloseServer, NetTypeOK
<1>4. net'[server] = IF net[server] = "listening" THEN "closing"
                     ELSE IF net[server] = "opening" THEN "aborted" ELSE net[server]
  <2>1. CASE net[server] = "listening"
    BY <1>3, <2>1
  <2>2. CASE net[server] = "opening"
    BY <1>3, <2>2
  <2>3. CASE net[server] # "listening" /\ net[server] # "opening"
    BY <1>3, <2>3
  <2> QED
    BY <2>1, <2>2, <2>3
<1>5. \A n \in NetServers \ {server} : net'[n] = net[n]
  BY <1>2 DEF CloseServer, NetTypeOK
<1> QED
  BY <1>1, <1>2, <1>4, <1>5 DEF CloseServer, Goes, NetTypeOK

(* A restart of a secure server that is not there is rejected. *)
LEMMA RestartRejected ==
  ASSUME NetTypeOK, secure, NEW c \in Callers, CallRestart(c), server = None
  PROVE  /\ pc[c] = "idle" /\ pc'[c] = "rejected"
         /\ UNCHANGED <<server, net, awaits, fresh, torn>>
  BY DEF CallRestart, Stop, Goes, NetTypeOK

(* TurnInv, part by part, now and after a step. *)
LEMMA TurnParts ==
  /\ TurnInv <=>
       /\ \A c \in Callers : Reading(c) => server = None
       /\ \A c, d \in Callers : Reading(c) /\ Reading(d) => c = d
       /\ \A c \in Callers : pc[c] = "closing" =>
            awaits[c] \in NetServers /\ net[awaits[c]] = "closing"
       /\ \A c, d \in Callers : pc[c] = "closing" /\ pc[d] = "closing" => c = d
  /\ TurnInv' <=>
       /\ \A c \in Callers : Reading(c)' => server' = None
       /\ \A c, d \in Callers : Reading(c)' /\ Reading(d)' => c = d
       /\ \A c \in Callers : pc'[c] = "closing" =>
            awaits'[c] \in NetServers /\ net'[awaits'[c]] = "closing"
       /\ \A c, d \in Callers : pc'[c] = "closing" /\ pc'[d] = "closing" => c = d
  BY DEF TurnInv

(* A net server's events begin no turn but the next of the restart. *)
LEMMA TurnEvent ==
  ASSUME NetTypeOK, Own, secure, TurnInv,
         NEW n \in NetServers, Opened(n) \/ Dropped(n) \/ Closed(n)
  PROVE  TurnInv'
<1>1. CASE Opened(n) \/ Dropped(n)
  <2>1. /\ net[n] \in {"opening", "stray"} /\ UNCHANGED <<server, awaits>>
        /\ \A m \in NetServers \ {n} : net'[m] = net[m]
        /\ \A c \in Callers : pc'[c] = pc[c] \/ (pc[c] = "opening" /\ pc'[c] \in {"resolved", "hung"})
    BY <1>1 DEF Opened, Dropped, NetTypeOK, Waiting
  <2>2. \A c \in Callers : Reading(c)' = Reading(c) /\ (pc'[c] = "closing" <=> pc[c] = "closing")
    BY <2>1 DEF Reading
  <2> QED
    BY <2>1, <2>2, TurnParts
<1>2. CASE Closed(n)
  <2>1. net[n] \in {"closing", "aborted"} /\ server = n /\ n # None
    BY <1>2, NoneAssumption DEF Closed, Own
  <2>2. server' = None
    BY <1>2 DEF Closed, StartsAgain
  <2>3. \A c \in Callers : ~Reading(c)
    BY <2>1, TurnParts
  <2>4. \A c \in Callers : pc[c] = "closing" => awaits[c] = n
    BY <2>1, TurnParts DEF Own
  <2>5. \A c \in Callers : Reading(c)' => pc[c] = "closing"
    BY <1>2, <2>3 DEF Closed, Reading, Waiting
  <2>6. \A c \in Callers : pc'[c] # "closing"
    BY <1>2, <2>4 DEF Closed, AfterClose, Waiting
  <2> QED
    BY <2>2, <2>5, <2>6, TurnParts
<1> QED
  BY <1>1, <1>2

(* A call begins a turn only when nobody else has it. *)
LEMMA TurnCall ==
  ASSUME TypeOK, CallInv, Own, secure, program.admins = {}, TurnInv,
         NEW c \in Callers, CallerSteps(c)
  PROVE  TurnInv'
<1>1. NetTypeOK /\ ProgramTypeOK
  BY TypeParts
<1>2. \A d \in Callers \ {c} : pc'[d] = pc[d] /\ awaits'[d] = awaits[d]
  BY <1>1, OthersStay DEF CallerSteps, Call, TaskRestarts, TaskRestarted, AdminStep
<1>3. \A d \in Callers \ {c} : Reading(d)' = Reading(d)
  BY <1>2 DEF Reading
<1>4. ASSUME UNCHANGED <<server, net>>, pc'[c] # "closing", Reading(c)' => Reading(c)
      PROVE  TurnInv'
  BY <1>2, <1>3, <1>4, TurnParts
<1>5. CASE CallStep(c, FilesExist)
  <2>1. Reading(c) /\ server = None
    BY <1>5, TurnParts DEF CallStep, ReadKey, ReadCert, Reading
  <2>2. CASE CreateServer(c)
    <3>1. PICK n \in NetServers :
             net[n] = "free" /\ net' = [net EXCEPT ![n] = "opening"] /\ Goes(c, "opening")
      BY <1>1, <2>2, CreateType
    <3>2. pc'[c] = "opening"
      BY <1>1, <3>1, GoesType DEF CallPcs
    <3>3. \A d \in Callers : pc'[d] # "closing"
      BY <1>2, <2>1, <3>2, NoneAssumption, TurnParts DEF Own
    <3>4. \A d \in Callers : ~Reading(d)'
      BY <1>3, <2>1, <3>2, TurnParts DEF Reading
    <3> QED
      BY <3>3, <3>4, TurnParts
  <2>3. CASE ~CreateServer(c)
    <3>1. (Goes(c, "cert") \/ Goes(c, "rejected")) /\ UNCHANGED <<server, net>>
      BY <1>5, <2>3 DEF CallStep, ReadKey, ReadCert
    <3>2. pc'[c] \in {"cert", "rejected"}
      BY <1>1, <3>1, GoesType DEF CallPcs
    <3> QED
      BY <1>4, <2>1, <3>1, <3>2
  <2> QED
    BY <2>2, <2>3
<1>6. CASE main = "load" /\ CallStart(c)
  <2>1. \A d \in Callers : pc[d] = "idle"
    BY <1>1, <1>6, QuietAtFirst
  <2>2. /\ pc'[c] = IF server = None THEN "key" ELSE "rejected"
        /\ UNCHANGED <<server, net>>
    BY <1>6 DEF CallStart, Start, Goes, NetTypeOK, TypeOK, ServerTypeOK
  <2> QED
    BY <1>2, <2>1, <2>2, TurnParts DEF Reading
<1>7. CASE Return(c)
  <2>1. pc'[c] = "idle" /\ UNCHANGED <<server, net>>
    BY <1>1, <1>7, GoesType DEF Return, CallPcs
  <2> QED
    BY <1>4, <2>1 DEF Reading
<1>8. CASE CallRestart(c)
  <2>1. CASE server = None
    <3>1. UNCHANGED <<server, net>> /\ pc'[c] = "rejected"
      BY <1>1, <1>8, <2>1, RestartRejected
    <3> QED
      BY <1>4, <3>1 DEF Reading
  <2>2. CASE server # None
    <3>1. /\ server' = server /\ server \in NetServers /\ awaits'[c] = server
          /\ pc'[c] = IF net[server] = "listening" THEN "closing" ELSE "refused"
          /\ net'[server] = IF net[server] = "listening" THEN "closing"
                            ELSE IF net[server] = "opening" THEN "aborted" ELSE net[server]
          /\ \A n \in NetServers \ {server} : net'[n] = net[n]
      BY <1>1, <1>8, <2>2, RestartCloses
    <3>2. \A d \in Callers : ~Reading(d)'
      BY <1>3, <2>2, <3>1, TurnParts DEF Reading
    <3>3. \A d \in Callers : pc[d] = "closing" => awaits[d] = server /\ net[server] = "closing"
      BY TurnParts DEF Own
    <3>4. \A d \in Callers : pc'[d] = "closing" =>
            awaits'[d] \in NetServers /\ net'[awaits'[d]] = "closing"
      BY <1>2, <3>1, <3>3
    <3>5. \A d, e \in Callers : pc'[d] = "closing" /\ pc'[e] = "closing" => d = e
      BY <1>2, <3>1, <3>3, TurnParts
    <3> QED
      BY <3>2, <3>4, <3>5, TurnParts
  <2> QED
    BY <2>1, <2>2
<1> QED
  BY <1>5, <1>6, <1>7, <1>8 DEF CallerSteps, TaskRestarts, TaskRestarted

(* HeldInv is inductive with what it takes on either kind of server. *)
LEMMA OwnStep ==
  ASSUME TypeOK, CallInv, OwnInv, [Next]_vars
  PROVE  OwnInv'
<1>1. NetTypeOK /\ UNCHANGED <<secure, program>>
  BY TypeParts, ServerSteps
<1>2. ~secure => NobodyReads'
  BY PlainNeverReads DEF OwnInv
<1>3. ASSUME ~secure \/ program.admins = {} PROVE Own'
  <2>1. Own
    BY <1>3 DEF OwnInv, HeldInv, Own
  <2>2. CASE ServerGone
    BY <2>2 DEF ServerGone, Own
  <2>3. CASE UNCHANGED CallVars
    BY <2>1, <2>3 DEF CallVars, Own
  <2>4. ASSUME NEW c \in Callers PROVE Reading(c) => server = None
    BY <1>3 DEF OwnInv, NobodyReads, TurnInv
  <2> QED
    BY <1>1, <2>1, <2>2, <2>3, <2>4, OwnEvent, OwnCall, ServerSteps
<1>4. ASSUME secure, program.admins = {} PROVE TurnInv'
  <2>1. Own /\ TurnInv
    BY <1>4 DEF OwnInv, HeldInv, Own
  <2>2. CASE ServerGone
    BY <2>2 DEF ServerGone, TurnInv, Reading
  <2>3. CASE UNCHANGED CallVars
    BY <2>1, <2>3 DEF CallVars, TurnInv, Reading
  <2> QED
    BY <1>1, <1>4, <2>1, <2>2, <2>3, TurnEvent, TurnCall, ServerSteps
<1> QED
  BY <1>1, <1>2, <1>3, <1>4 DEF OwnInv, HeldInv, Own

--------------------------------------------------------------------------------
(* A program without administrators: what waits for what, and who is at work *)
(* when a call is rejected.                                                  *)

Active(n) == net[n] \in {"opening", "listening", "closing", "aborted"}
Waits(c, n) == pc[c] \in {"opening", "closing", "refused"} /\ awaits[c] = n

Held == \A n \in NetServers : Active(n) <=> server = n
Awaited ==
  \A n \in NetServers :
    /\ net[n] = "opening" => \E c \in Callers : pc[c] = "opening" /\ awaits[c] = n
    /\ net[n] = "closing" =>
         \E c \in Callers : pc[c] = "closing" /\ awaits[c] = n /\ c \in restarting
    /\ net[n] = "aborted" => \E c \in Callers : pc[c] = "refused" /\ awaits[c] = n
Rejected == \E c \in Callers : pc[c] = "rejected"
Strays == \A n \in NetServers : net[n] = "stray" => Unhandled
Current ==
  \A n \in NetServers :
    (net[n] \in {"opening", "listening"} /\ n \notin fresh) => task[Served] = "written"
Begun ==
  /\ main = "load" => server = None
  /\ (up /\ secure /\ main # "load" /\ program.certificates # {} /\ server = None) =>
       \E c \in Callers : Reading(c) \/ pc[c] = "rejected"
Refusals ==
  \A c \in Callers : pc[c] = "refused" =>
    /\ awaits[c] \in NetServers /\ net[awaits[c]] \in {"closing", "aborted"}
    /\ \E d \in Callers \ {c} : Waits(d, awaits[c])
Tears == \A c \in torn : pc[c] = "cert" /\ (task[Served] = "written" \/ Unhandled)
Pairs == Unhandled => \E x, y \in Busy : x # y

(* NetInv and RejectInv, part by part, now and after a step. *)
LEMMA LoneParts ==
  /\ NetInv <=> Held /\ Awaited /\ Strays /\ Current /\ Begun
  /\ NetInv' <=> Held' /\ Awaited' /\ Strays' /\ Current' /\ Begun'
  /\ RejectInv <=> Refusals /\ Tears /\ Pairs
  /\ RejectInv' <=> Refusals' /\ Tears' /\ Pairs'
<1>1. \A n \in NetServers, where \in CallPcs :
        /\ (\E c \in Waiting(n, where) : TRUE) <=> \E c \in Callers : pc[c] = where /\ awaits[c] = n
        /\ (\E c \in Waiting(n, where) : c \in restarting) <=>
             \E c \in Callers : pc[c] = where /\ awaits[c] = n /\ c \in restarting
        /\ (\E c \in Waiting(n, where)' : TRUE) <=> \E c \in Callers : pc'[c] = where /\ awaits'[c] = n
        /\ (\E c \in Waiting(n, where)' : c \in restarting') <=>
             \E c \in Callers : pc'[c] = where /\ awaits'[c] = n /\ c \in restarting'
  BY DEF Waiting
<1>2. {"opening", "closing", "refused"} \subseteq CallPcs
  BY DEF CallPcs
<1>3. NetInv <=> Held /\ Awaited /\ Strays /\ Current /\ Begun
  BY <1>1, <1>2 DEF NetInv, Held, Active, Awaited, Strays, Current, Begun
<1>4. NetInv' <=> Held' /\ Awaited' /\ Strays' /\ Current' /\ Begun'
  BY <1>1, <1>2 DEF NetInv, Held, Active, Awaited, Strays, Current, Begun
<1> QED
  BY <1>3, <1>4 DEF RejectInv, Refusals, Waits, Tears, Pairs

(* Everything that is known of a program without administrators. *)
Alone == TypeOK /\ QueueInv /\ CallInv /\ OwnInv /\ program.admins = {}

(* Without an administrator whoever is in a call is at work. *)
LEMMA AloneFacts ==
  ASSUME Alone
  PROVE  /\ Unhandled <=> Rejected
         /\ \A c \in Callers : pc[c] # "idle" => c \in Busy
         /\ \A c \in Callers : Reading(c) => server = None /\ secure
  <1>1. ProgramTypeOK
    BY TypeParts DEF Alone
  <1>2. \A c \in Callers : pc[c] # "idle" => c \in Certificates \cup {Main} /\ c \in Busy
    BY <1>1, QuietAtFirst DEF Alone, Busy
  <1>3. Certificates \cup {Main} \subseteq Callers
    BY CallersAssumption
  <1>4. Unhandled <=> Rejected
    BY <1>2, <1>3 DEF Unhandled, Rejected
  <1>5. \A c \in Callers : Reading(c) => server = None /\ secure
    BY DEF Alone, OwnInv, NobodyReads, TurnInv
  <1> QED
    BY <1>2, <1>4, <1>5

(* And so it is after a step. *)
LEMMA AloneFactsNext ==
  ASSUME Alone'
  PROVE  /\ Unhandled' <=> Rejected'
         /\ \A c \in Callers : pc'[c] # "idle" => c \in Busy'
         /\ \A c \in Callers : Reading(c)' => server' = None /\ secure'
  <1>1. ProgramTypeOK'
    BY TypeParts DEF Alone
  <1>2. \A c \in Callers : pc'[c] # "idle" =>
              \/ c = Main /\ main' = "start"
              \/ c \in Certificates /\ task'[c] = "restart" /\ main' = "done"
    BY <1>1, CallParts DEF Alone, Allowed
  <1>3. \A c \in Callers : pc'[c] # "idle" => c \in Certificates \cup {Main} /\ c \in Busy'
    BY <1>2 DEF Busy
  <1>4. Certificates \cup {Main} \subseteq Callers
    BY CallersAssumption
  <1>5. Unhandled' <=> Rejected'
    BY <1>3, <1>4 DEF Unhandled, Rejected
  <1>6. \A c \in Callers : Reading(c)' => server' = None /\ secure'
    BY DEF Alone, OwnInv, NobodyReads, TurnInv
  <1> QED
    BY <1>3, <1>5, <1>6

LoneInv == NetInv /\ RejectInv

(* The process ends. *)
LEMMA LoneEnds ==
  ASSUME TypeOK, Ends
  PROVE  LoneInv'
<1>1. ServerGone /\ up' = FALSE /\ main' = "done"
  BY DEF Ends, ProcessEnds
<1>2. \A n \in NetServers : net'[n] = "free"
  BY <1>1 DEF ServerGone
<1>3. \A c \in Callers : pc'[c] = "idle"
  BY <1>1 DEF ServerGone
<1>4. Held' /\ Awaited' /\ Strays' /\ Current'
  BY <1>1, <1>2, NoneAssumption DEF Held, Active, Awaited, Strays, Current, ServerGone
<1>5. Begun' /\ Refusals' /\ Tears'
  BY <1>1, <1>3 DEF Begun, Refusals, Tears, ServerGone
<1>6. Pairs'
  BY <1>3, CallersAssumption DEF Pairs, Unhandled
<1> QED
  BY <1>4, <1>5, <1>6, LoneParts DEF LoneInv

(* Nothing happens to the server, and certbot is not forgotten. *)
LEMMA LoneQuiet ==
  ASSUME Alone, LoneInv, UNCHANGED CallVars,
         UNCHANGED <<fresh, torn, up, secure, program, main>>,
         task[Served] = "written" => task'[Served] = "written",
         ~Unhandled \/ UNCHANGED task
  PROVE  LoneInv'
<1>1. \A n : Active(n)' <=> Active(n)
  BY DEF Active, CallVars
<1>2. Unhandled' <=> Unhandled
  BY DEF Unhandled, CallVars
<1>3. Held' /\ Awaited' /\ Strays' /\ Current'
  BY <1>1, <1>2, LoneParts DEF LoneInv, Held, Awaited, Strays, Current, CallVars
<1>4. Begun' /\ Refusals' /\ Tears'
  BY <1>2, LoneParts DEF LoneInv, Begun, Reading, Refusals, Waits, Tears, CallVars
<1>5. Pairs'
  BY <1>2, LoneParts DEF LoneInv, Pairs, Busy
<1> QED
  BY <1>3, <1>4, <1>5, LoneParts DEF LoneInv

(* A process that starts has no net server. *)
LEMMA LoneBoot ==
  ASSUME Alone, LoneInv, Boot
  PROVE  LoneInv'
<1>1. /\ ~up /\ UNCHANGED <<serverVars, program, task, secure>>
      /\ main' = IF program.certificates = {} THEN "done" ELSE "load"
  BY DEF Boot
<1>2. server = None /\ main = "done" /\ \A c \in Certificates : task[c] = "none"
  BY <1>1, QueueParts, CallParts DEF Alone
<1>3. \A c \in Callers : pc[c] = "idle"
  BY <1>2, TypeParts, QuietAtFirst DEF Alone
<1>4. ~Unhandled /\ ~Unhandled'
  BY <1>1, <1>3, CallersAssumption DEF Unhandled, serverVars
<1>5. Held' /\ Awaited' /\ Strays' /\ Current'
  BY <1>1, <1>4, LoneParts DEF LoneInv, Held, Active, Awaited, Strays, Current, serverVars
<1>6. Begun' /\ Refusals' /\ Tears' /\ Pairs'
  BY <1>1, <1>2, <1>3, <1>4, LoneParts
  DEF LoneInv, Begun, Refusals, Tears, Pairs, serverVars
<1> QED
  BY <1>5, <1>6, LoneParts DEF LoneInv

(* Certbot replaces the files that the server has read. *)
LEMMA LoneFiles ==
  ASSUME Alone, LoneInv, ~Unhandled, FilesChange, task'[Served] = "written",
         UNCHANGED <<up, secure, program, main>>
  PROVE  LoneInv'
<1>1. UNCHANGED <<server, net, pc, awaits, restarting>>
  BY DEF FilesChange
<1>2. ~Unhandled'
  BY <1>1 DEF Unhandled
<1>3. Held' /\ Awaited' /\ Strays' /\ Current'
  BY <1>1, LoneParts DEF LoneInv, Held, Active, Awaited, Strays, Current
<1>4. Begun' /\ Refusals' /\ Tears' /\ Pairs'
  BY <1>1, <1>2, LoneParts
  DEF LoneInv, Begun, Reading, Refusals, Waits, Tears, Pairs, FilesChange
<1> QED
  BY <1>3, <1>4, LoneParts DEF LoneInv

(* A net server that opens, or is dropped, is waited for. *)
LEMMA LoneOpened ==
  ASSUME Alone, LoneInv, Ready, NEW n \in NetServers, Opened(n) \/ Dropped(n),
         UNCHANGED <<up, secure, program, main, task>>
  PROVE  LoneInv'
<1>0. NetTypeOK
  BY TypeParts DEF Alone
<1>1. /\ Held /\ Awaited /\ Strays /\ Current /\ Begun /\ Refusals /\ Tears
      /\ ~Unhandled
  BY LoneParts DEF LoneInv, Ready
<1>2. Opened(n) /\ net[n] = "opening" /\ server = n /\ n # None
  BY <1>1, NoneAssumption DEF Opened, Dropped, Strays, Held, Active
<1>3. /\ net'[n] = "listening" /\ \A m \in NetServers \ {n} : net'[m] = net[m]
      /\ UNCHANGED <<server, fresh, torn, awaits, restarting>>
  BY <1>0, <1>2 DEF Opened, NetTypeOK
<1>4. \A c \in Callers : pc'[c] = pc[c] \/ (pc[c] = "opening" /\ pc'[c] = "resolved")
  BY <1>2 DEF Opened, Waiting
<1>5. \A m \in NetServers \ {n} : ~Active(m)
  BY <1>1, <1>2 DEF Held
<1>6. \A c \in Callers : pc'[c] # "rejected"
  BY <1>1, <1>4, AloneFacts DEF Rejected
<1>7. ~Unhandled'
  BY <1>6, CallersAssumption DEF Unhandled
<1>8. Held'
  BY <1>1, <1>2, <1>3 DEF Held, Active
<1>9. Awaited' /\ Strays'
  BY <1>1, <1>3, <1>5 DEF Awaited, Strays, Active
<1>10. Current'
  BY <1>1, <1>2, <1>3 DEF Current
<1>11. Begun'
  BY <1>1, <1>2, <1>3 DEF Begun
<1>12. \A c \in Callers : pc[c] # "refused"
  BY <1>1, <1>2 DEF Refusals, Held, Active
<1>13. Refusals'
  BY <1>4, <1>12 DEF Refusals
<1>14. Tears' /\ Pairs'
  BY <1>0, <1>1, <1>3, <1>4, <1>7 DEF Tears, Pairs, NetTypeOK
<1> QED
  BY <1>8, <1>9, <1>10, <1>11, <1>13, <1>14, LoneParts DEF LoneInv

(* A net server that closes is followed by the start of a restart. *)
LEMMA LoneClosed ==
  ASSUME Alone, Alone', LoneInv, Ready, NEW n \in NetServers, Closed(n),
         UNCHANGED <<up, secure, program, main, task>>
  PROVE  LoneInv'
<1>0. NetTypeOK
  BY TypeParts DEF Alone
<1>1. /\ Held /\ Awaited /\ Strays /\ Current /\ Begun /\ Refusals /\ Tears
      /\ ~Unhandled
  BY LoneParts DEF LoneInv, Ready
<1>2. net[n] \in {"closing", "aborted"} /\ server = n /\ n # None
  BY <1>1, NoneAssumption DEF Closed, Held, Active
<1>3. /\ \A m \in NetServers \ {n} : net'[m] = net[m] /\ ~Active(m)
      /\ UNCHANGED <<torn, awaits, restarting>>
  BY <1>0, <1>1, <1>2 DEF Closed, NetTypeOK, Held
<1>4. \A c \in Callers :
        pc'[c] = IF pc[c] = "closing" /\ awaits[c] = n THEN AfterClose(c)
                 ELSE IF pc[c] = "refused" /\ awaits[c] = n THEN "rejected" ELSE pc[c]
  BY DEF Closed, Waiting
<1>5. \/ /\ StartsAgain(n) /\ server' = n /\ net'[n] = "opening" /\ fresh' = fresh \cup {n}
      \/ /\ ~StartsAgain(n) /\ server' = None
         /\ net'[n] = IF net[n] = "closing" THEN "free" ELSE "stray"
  BY <1>0, <1>2 DEF Closed, NetTypeOK
<1>6. StartsAgain(n) => \E c \in Callers : pc'[c] = "opening" /\ awaits'[c] = n
  <2>1. ASSUME StartsAgain(n)
        PROVE  \E c \in Callers : pc[c] = "closing" /\ awaits[c] = n /\ c \in restarting /\ ~secure
    BY <2>1 DEF StartsAgain, Waiting
  <2> QED
    BY <1>3, <1>4, <2>1 DEF AfterClose
<1>7. net[n] = "aborted" => \E c \in Callers : pc'[c] = "rejected"
  BY <1>1, <1>4 DEF Awaited
<1>8. Held'
  <2>1. Active(n)' <=> StartsAgain(n)
    BY <1>5 DEF Active
  <2>2. \A m \in NetServers \ {n} : ~Active(m)'
    BY <1>3 DEF Active
  <2> QED
    BY <1>2, <1>5, <2>1, <2>2, NoneAssumption DEF Held
<1>9. Awaited' /\ Strays'
  <2>1. \A m \in NetServers \ {n} : net'[m] # "stray"
    BY <1>1, <1>3 DEF Strays
  <2>2. net'[n] = "stray" => Unhandled'
    BY <1>2, <1>5, <1>7, AloneFactsNext DEF Rejected
  <2>3. Strays'
    BY <2>1, <2>2 DEF Strays
  <2>4. net'[n] \notin {"closing", "aborted"} /\ (net'[n] = "opening" => StartsAgain(n))
    BY <1>5
  <2>5. \A m \in NetServers \ {n} : net'[m] \notin {"opening", "closing", "aborted"}
    BY <1>3 DEF Active
  <2> QED
    BY <1>6, <2>3, <2>4, <2>5 DEF Awaited
<1>10. Current'
  <2>1. \A m \in NetServers \ {n} : net'[m] \notin {"opening", "listening"}
    BY <1>3 DEF Active
  <2> QED
    BY <1>5, <2>1 DEF Current
<1>11. Begun'
  <2>1. ASSUME secure, server' = None
        PROVE  \E c \in Callers : Reading(c)' \/ pc'[c] = "rejected"
    <3>1. CASE net[n] = "closing"
      <4>1. PICK c \in Callers : pc[c] = "closing" /\ awaits[c] = n /\ c \in restarting
        BY <1>1, <3>1 DEF Awaited
      <4>2. pc'[c] = "key"
        BY <1>4, <2>1, <4>1 DEF AfterClose
      <4> QED
        BY <4>2 DEF Reading
    <3> QED
      BY <1>2, <1>7, <3>1
  <2>2. main # "load"
    BY <1>1, <1>2 DEF Begun
  <2> QED
    BY <2>1, <2>2 DEF Begun
<1>12. Refusals'
  <2>1. \A c \in Callers : pc[c] = "refused" => awaits[c] = n
    BY <1>1, <1>2 DEF Refusals, Held, Active
  <2>2. \A c \in Callers : pc'[c] # "refused"
    BY <1>4, <2>1 DEF AfterClose
  <2> QED
    BY <2>2 DEF Refusals
<1>13. Tears'
  BY <1>0, <1>1, <1>3, <1>4 DEF Tears, NetTypeOK
<1>14. Pairs'
  <2> SUFFICES ASSUME Unhandled' PROVE \E x, y \in Busy' : x # y
    BY DEF Pairs
  <2>1. PICK c \in Callers : pc'[c] = "rejected"
    BY AloneFactsNext DEF Rejected
  <2>2. pc[c] # "rejected"
    BY <1>1, AloneFacts DEF Rejected
  <2>3. pc[c] = "refused" /\ awaits[c] = n
    BY <1>4, <2>1, <2>2 DEF AfterClose
  <2>4. PICK d \in Callers \ {c} : Waits(d, n)
    BY <1>1, <2>3 DEF Refusals
  <2>5. pc[d] # "idle"
    BY <2>4 DEF Waits
  <2>6. c \in Busy /\ d \in Busy /\ c # d
    BY <2>3, <2>4, <2>5, AloneFacts
  <2>7. Busy' = Busy
    BY DEF Busy
  <2> QED
    BY <2>6, <2>7
<1> QED
  BY <1>8, <1>9, <1>10, <1>11, <1>12, <1>13, <1>14, LoneParts DEF LoneInv

(* start() creates a net server. *)
LEMMA LoneCreate ==
  ASSUME Alone, Alone', LoneInv, Ready, NEW c \in Callers, server = None, CreateServer(c),
         UNCHANGED <<up, secure, program>>, main' # "load",
         torn' \subseteq torn \ {c},
         torn' = {} \/ (task[Served] = "written" => task'[Served] = "written"),
         \A d \in Callers \ {c} : pc'[d] = pc[d] /\ awaits'[d] = awaits[d]
  PROVE  LoneInv'
<1>0. NetTypeOK
  BY TypeParts DEF Alone
<1>1. /\ Held /\ Awaited /\ Strays /\ Current /\ Begun /\ Refusals /\ Tears
      /\ ~Unhandled
  BY LoneParts DEF LoneInv, Ready
<1>2. PICK n \in NetServers :
           /\ net[n] = "free"
           /\ server' = n /\ fresh' = fresh \cup {n}
           /\ net' = [net EXCEPT ![n] = "opening"]
           /\ awaits' = [awaits EXCEPT ![c] = n]
           /\ Goes(c, "opening")
  BY <1>0, CreateType
<1>3. pc'[c] = "opening" /\ awaits'[c] = n /\ n # None
  BY <1>0, <1>2, GoesType, NoneAssumption DEF CallPcs, NetTypeOK
<1>4. net'[n] = "opening" /\ \A m \in NetServers \ {n} : net'[m] = net[m]
  BY <1>0, <1>2 DEF NetTypeOK
<1>5. \A m \in NetServers : ~Active(m)
  BY <1>1, NoneAssumption DEF Held
<1>6. ~Unhandled'
  BY <1>1, <1>3, AloneFacts, AloneFactsNext DEF Rejected
<1>7. Held'
  BY <1>2, <1>4, <1>5 DEF Held, Active
<1>8. Awaited' /\ Strays' /\ Current'
  BY <1>1, <1>2, <1>3, <1>4, <1>5 DEF Awaited, Strays, Current, Active
<1>9. Begun'
  BY <1>2, <1>3 DEF Begun
<1>10. \A d \in Callers : pc'[d] # "refused"
  BY <1>1, <1>3, <1>5 DEF Refusals, Active
<1>11. Refusals' /\ Tears' /\ Pairs'
  <2>1. \A d \in torn' : d \in torn /\ d \in Callers /\ d # c
    BY <1>0 DEF NetTypeOK
  <2>2. Tears'
    BY <1>1, <2>1 DEF Tears
  <2> QED
    BY <1>6, <1>10, <2>2 DEF Refusals, Pairs
<1> QED
  BY <1>7, <1>8, <1>9, <1>11, LoneParts DEF LoneInv

(* Of a call only the place changes: the net servers stay as they are. *)
LEMMA LoneMoves ==
  ASSUME Alone, Alone', LoneInv, Ready, NEW c \in Callers,
         UNCHANGED <<server, net, fresh, up, secure, program>>, main' # "load",
         pc[c] \notin {"opening", "closing", "refused"}, pc'[c] # "refused",
         \A d \in Callers \ {c} : pc'[d] = pc[d] /\ awaits'[d] = awaits[d]
                                  /\ (d \in restarting' <=> d \in restarting),
         \/ server # None
         \/ \E d \in Callers : Reading(d)' \/ pc'[d] = "rejected",
         Current', Tears', Pairs'
  PROVE  LoneInv'
<1>1. /\ Held /\ Awaited /\ Strays /\ Current /\ Begun /\ Refusals
      /\ ~Unhandled
  BY LoneParts DEF LoneInv, Ready
<1>2. Held' /\ Awaited' /\ Strays'
  BY <1>1 DEF Held, Active, Awaited, Strays
<1>3. Begun'
  BY DEF Begun
<1>4. Refusals'
  BY <1>1 DEF Refusals, Waits
<1> QED
  BY <1>2, <1>3, <1>4, LoneParts DEF LoneInv

(* A caller that has read its files creates the net server, or is rejected. *)
LEMMA LoneReads ==
  ASSUME Alone, Alone', LoneInv, Ready, NEW c \in Callers, CallStep(c, FilesExist),
         UNCHANGED <<up, secure, program, main, task>>
  PROVE  LoneInv'
<1>0. NetTypeOK /\ ProgramTypeOK
  BY TypeParts DEF Alone
<1>1. /\ Held /\ Awaited /\ Strays /\ Current /\ Begun /\ Refusals /\ Tears
      /\ ~Unhandled
  BY LoneParts DEF LoneInv, Ready
<1>2. Reading(c) /\ server = None /\ secure
  BY AloneFacts DEF CallStep, ReadKey, ReadCert, Reading
<1>3. main # "load"
  BY <1>0, <1>2, QuietAtFirst DEF Alone, Reading
<1>4. \A d \in Callers \ {c} :
        /\ pc'[d] = pc[d] /\ awaits'[d] = awaits[d]
        /\ d \in restarting' <=> d \in restarting
        /\ d \in torn' <=> d \in torn
  BY <1>0, OthersStay
<1>5. torn' \subseteq torn
  BY DEF CallStep, ReadKey, ReadCert, CreateServer
<1>6. CASE CreateServer(c)
  <2>1. c \notin torn'
    <3>1. CASE ReadKey(c, FilesExist)
      <4>1. pc[c] = "key" /\ torn' = torn
        BY <1>6, <3>1 DEF ReadKey, Goes, CreateServer
      <4> QED
        BY <1>1, <4>1 DEF Tears
    <3>2. CASE ReadCert(c)
      BY <3>2 DEF ReadCert
    <3> QED
      BY <3>1, <3>2 DEF CallStep
  <2> QED
    BY <1>2, <1>3, <1>4, <1>5, <1>6, <2>1, LoneCreate
<1>7. CASE ~CreateServer(c) /\ ReadKey(c, FilesExist)
  <2>1. Goes(c, "cert") /\ UNCHANGED <<server, net, fresh, torn, awaits, restarting>>
    BY <1>7 DEF ReadKey
  <2>2. pc'[c] = "cert" /\ pc[c] = "key"
    BY <1>0, <1>7, <2>1, GoesType DEF CallPcs, ReadKey
  <2>3. Current' /\ Tears'
    BY <1>0, <1>1, <1>4, <2>1, <2>2 DEF Current, Tears, NetTypeOK
  <2>4. ~Unhandled'
    BY <1>1, <1>4, <2>2, AloneFacts, AloneFactsNext DEF Rejected
  <2>5. Pairs'
    BY <2>4 DEF Pairs
  <2>6. Reading(c)'
    BY <2>2 DEF Reading
  <2> QED
    BY <1>3, <1>4, <2>1, <2>2, <2>3, <2>5, <2>6, LoneMoves
<1>8. CASE ~CreateServer(c) /\ ReadCert(c)
  <2>1. Goes(c, "rejected") /\ UNCHANGED <<server, net, fresh, awaits, restarting>>
        /\ c \in torn /\ torn' = torn \ {c}
    BY <1>8 DEF ReadCert
  <2>2. pc'[c] = "rejected" /\ pc[c] = "cert"
    BY <1>0, <1>8, <2>1, GoesType DEF CallPcs, ReadCert
  <2>3. Current' /\ Tears'
    BY <1>0, <1>1, <1>4, <2>1 DEF Current, Tears, NetTypeOK
  <2>4. Pairs'
    <3>1. task[Served] = "written"
      BY <1>1, <2>1 DEF Tears
    <3>2. main = "done" /\ Served \in Busy
      BY <3>1, ServedAssumption, CallParts DEF Alone, Busy
    <3>3. c \in Certificates /\ task[c] = "restart"
      BY <1>0, <2>2, <3>2, QuietAtFirst DEF Alone
    <3>4. c \in Busy /\ c # Served /\ Busy' = Busy
      BY <3>1, <3>3 DEF Busy
    <3> QED
      BY <3>2, <3>4 DEF Pairs
  <2> QED
    BY <1>3, <1>4, <2>1, <2>2, <2>3, <2>4, LoneMoves
<1> QED
  BY <1>6, <1>7, <1>8 DEF CallStep

(* The main program starts the only net server there is. *)
LEMMA LoneStart ==
  ASSUME Alone, Alone', LoneInv, Ready, StartServer, UNCHANGED <<up, secure, program>>
  PROVE  LoneInv'
<1>0. NetTypeOK /\ ProgramTypeOK /\ Main \in Callers
  BY TypeParts, CallersAssumption DEF Alone
<1>1. /\ Held /\ Awaited /\ Strays /\ Current /\ Begun /\ Refusals /\ Tears
      /\ ~Unhandled
  BY LoneParts DEF LoneInv, Ready
<1>2. /\ main = "load" /\ main' = "start" /\ UNCHANGED task
      /\ pc[Main] = "idle" /\ Start(Main) /\ UNCHANGED restarting
  BY DEF StartServer, CallStart
<1>3. server = None /\ \A c \in Callers : pc[c] = "idle"
  BY <1>0, <1>1, <1>2, QuietAtFirst DEF Begun, Alone
<1>4. torn = {}
  BY <1>0, <1>1, <1>3 DEF Tears, NetTypeOK
<1>5. \A d \in Callers \ {Main} : pc'[d] = pc[d] /\ awaits'[d] = awaits[d]
  BY <1>0, OthersStay DEF StartServer, Call
<1>6. CASE ~secure
  <2>1. CreateServer(Main) /\ UNCHANGED torn
    BY <1>2, <1>3, <1>6 DEF Start
  <2> QED
    BY <1>0, <1>2, <1>3, <1>4, <1>5, <2>1, LoneCreate
<1>7. CASE secure
  <2>1. pc'[Main] = "key" /\ UNCHANGED <<server, net, fresh, torn, awaits>>
    BY <1>0, <1>2, <1>3, <1>7, GoesType DEF Start, CallPcs
  <2>2. Current' /\ Tears'
    BY <1>1, <1>2, <1>4, <2>1 DEF Current, Tears
  <2>3. ~Unhandled'
    BY <1>3, <1>5, <2>1, AloneFactsNext DEF Rejected
  <2>4. Pairs' /\ Reading(Main)'
    BY <2>1, <2>3 DEF Pairs, Reading
  <2> QED
    BY <1>0, <1>2, <1>5, <2>1, <2>2, <2>4, LoneMoves
<1> QED
  BY <1>6, <1>7

(* The caller gets what it waited for. *)
LEMMA LoneReturns ==
  ASSUME Alone, Alone', LoneInv, Ready, NEW c \in Callers, pc[c] = "resolved", Return(c),
         UNCHANGED <<up, secure, program>>, main # "load", main' # "load",
         task[Served] = "written" => task'[Served] = "written"
  PROVE  LoneInv'
<1>0. NetTypeOK
  BY TypeParts DEF Alone
<1>1. /\ Held /\ Awaited /\ Strays /\ Current /\ Begun /\ Refusals /\ Tears
      /\ ~Unhandled
  BY LoneParts DEF LoneInv, Ready
<1>2. pc'[c] = "idle" /\ UNCHANGED <<server, net, connections, fresh, torn>>
  BY <1>0, GoesType DEF Return, CallPcs
<1>3. \A d \in Callers \ {c} :
        /\ pc'[d] = pc[d] /\ awaits'[d] = awaits[d]
        /\ d \in restarting' <=> d \in restarting
  BY <1>0, OthersStay
<1>4. ~Unhandled'
  BY <1>1, <1>2, <1>3, AloneFacts, AloneFactsNext DEF Rejected
<1>5. Held' /\ Awaited' /\ Strays' /\ Current'
  BY <1>1, <1>2, <1>3 DEF Held, Active, Awaited, Strays, Current
<1>6. Begun'
  <2>1. \A d \in Callers \ {c} : Reading(d)' = Reading(d)
    BY <1>3 DEF Reading
  <2>2. ~Reading(c)
    BY DEF Reading
  <2> QED
    BY <1>1, <1>2, <1>3, <2>1, <2>2 DEF Begun
<1>7. Refusals'
  BY <1>1, <1>2, <1>3 DEF Refusals, Waits
<1>8. Tears' /\ Pairs'
  BY <1>0, <1>1, <1>2, <1>3, <1>4 DEF Tears, Pairs, NetTypeOK
<1> QED
  BY <1>5, <1>6, <1>7, <1>8, LoneParts DEF LoneInv

(* A task restarts the server. *)
LEMMA LoneRestarts ==
  ASSUME Alone, Alone', LoneInv, Ready, NEW c \in program.certificates, TaskRestarts(c),
         UNCHANGED <<up, secure, program>>
  PROVE  LoneInv'
<1>0. /\ NetTypeOK /\ ProgramTypeOK /\ TaskTypeOK
      /\ c \in Certificates /\ c \in Callers /\ program.certificates # {}
  BY TypeParts, ProgramType, CallersDiffer DEF Alone
<1>1. /\ Held /\ Awaited /\ Strays /\ Current /\ Begun /\ Refusals /\ Tears
      /\ ~Unhandled
  BY LoneParts DEF LoneInv, Ready
<1>2. /\ task[c] = "written" /\ task'[c] = "restart" /\ UNCHANGED main
      /\ \A d \in Certificates \ {c} : task'[d] = task[d]
  BY <1>0, AtType DEF TaskRestarts, TaskPcs
<1>3. main = "done" /\ up
  BY <1>0, <1>2, CallParts DEF Alone, Ready
<1>4. pc[c] = "idle" /\ CallRestart(c) /\ restarting' = restarting \cup {c}
  BY DEF TaskRestarts, CallRestart
<1>5. \A d \in Callers \ {c} :
        /\ pc'[d] = pc[d] /\ awaits'[d] = awaits[d]
        /\ d \in restarting' <=> d \in restarting
        /\ d \in torn' <=> d \in torn
  BY <1>0, <1>4, OthersStay DEF Call
<1>6. \A d \in Busy : d \in Busy'
  BY <1>2 DEF Busy
<1>7. c \in Busy'
  BY <1>0, <1>2 DEF Busy
<1>8. \A d \in Callers : pc[d] # "idle" => d \in Busy /\ d # c
  BY <1>4, AloneFacts
<1>9. CASE server = None /\ ~secure
  <2>1. CreateServer(c) /\ UNCHANGED torn
    BY <1>4, <1>9 DEF CallRestart, Stop, Start
  <2>2. torn = {}
    <3>1. \A d \in torn : d \in Callers /\ Reading(d)
      BY <1>0, <1>1 DEF Tears, Reading, NetTypeOK
    <3> QED
      BY <1>9, <3>1, AloneFacts
  <2> QED
    BY <1>0, <1>2, <1>3, <1>5, <1>9, <2>1, <2>2, LoneCreate
<1>10. CASE server = None /\ secure
  <2>1. pc'[c] = "rejected" /\ UNCHANGED <<server, net, awaits, fresh, torn>>
    BY <1>0, <1>4, <1>10, RestartRejected
  <2>2. PICK d \in Callers : Reading(d) \/ pc[d] = "rejected"
    BY <1>0, <1>1, <1>3, <1>10 DEF Begun
  <2>3. d \in Busy /\ d # c
    BY <1>8, <2>2 DEF Reading
  <2>4. Pairs'
    BY <1>6, <1>7, <2>3 DEF Pairs
  <2>5. Unhandled'
    BY <1>0, <2>1 DEF Unhandled
  <2>6. Tears'
    BY <1>0, <1>1, <1>4, <1>5, <2>1, <2>5 DEF Tears, NetTypeOK
  <2>7. Current'
    BY <1>1, <1>10, <2>1, NoneAssumption DEF Current, Held, Active
  <2> QED
    BY <1>0, <1>3, <1>2, <1>4, <1>5, <2>1, <2>4, <2>6, <2>7, LoneMoves
<1>11. CASE server # None
  <2> DEFINE n == server
  <2>1. /\ UNCHANGED <<server, fresh, torn>>
        /\ n \in NetServers /\ awaits'[c] = n
        /\ pc'[c] = IF net[n] = "listening" THEN "closing" ELSE "refused"
        /\ net'[n] = IF net[n] = "listening" THEN "closing"
                     ELSE IF net[n] = "opening" THEN "aborted" ELSE net[n]
        /\ \A m \in NetServers \ {n} : net'[m] = net[m]
    BY <1>0, <1>4, <1>11, RestartCloses
  <2>2. Active(n) /\ \A m \in NetServers \ {n} : ~Active(m)
    BY <1>1, <2>1 DEF Held
  <2>3. net'[n] \in {"closing", "aborted"}
    BY <2>1, <2>2 DEF Active
  <2> HIDE DEF n
  <2>4. \A m \in NetServers \ {n} : ~Active(m)' /\ net'[m] # "stray"
    BY <1>1, <2>1, <2>2 DEF Active, Strays
  <2>5. Held'
    BY <2>1, <2>3, <2>4 DEF Held, Active, n
  <2>6. Current' /\ Strays'
    BY <2>3, <2>4 DEF Current, Strays, Active
  <2>7. /\ net'[n] = "closing" =>
             \E d \in Callers : pc'[d] = "closing" /\ awaits'[d] = n /\ d \in restarting'
        /\ net'[n] = "aborted" => \E d \in Callers : pc'[d] = "refused" /\ awaits'[d] = n
    <3>1. CASE net[n] = "listening"
      BY <1>0, <1>4, <2>1, <3>1
    <3>2. CASE net[n] = "opening"
      BY <1>0, <2>1, <3>2
    <3>3. CASE net[n] = "closing"
      <4>1. PICK d \in Callers : pc[d] = "closing" /\ awaits[d] = n /\ d \in restarting
        BY <1>1, <2>1, <3>3 DEF Awaited
      <4>2. d # c
        BY <1>4, <4>1
      <4> QED
        BY <1>5, <2>1, <3>3, <4>1, <4>2
    <3>4. CASE net[n] = "aborted"
      BY <1>0, <2>1, <3>4
    <3> QED
      BY <2>2, <3>1, <3>2, <3>3, <3>4 DEF Active
  <2>8. Awaited'
    BY <2>3, <2>4, <2>7 DEF Awaited, Active
  <2>9. Begun'
    BY <1>2, <1>3, <1>11, <2>1 DEF Begun
  <2>10. Refusals'
    <3>1. pc'[c] = "refused" => \E d \in Callers \ {c} : Waits(d, n)
      <4>1. pc'[c] = "refused" => net[n] \in {"opening", "closing", "aborted"}
        BY <2>1, <2>2 DEF Active
      <4>2. net[n] \in {"opening", "closing", "aborted"} =>
              \E d \in Callers : pc[d] \in {"opening", "closing", "refused"} /\ awaits[d] = n
        BY <1>1, <2>1 DEF Awaited
      <4> QED
        BY <1>4, <4>1, <4>2 DEF Waits
    <3>2. \A d \in Callers \ {c} : pc[d] = "refused" =>
            awaits[d] = n /\ \E e \in Callers \ {d} : Waits(e, n)
      BY <1>1, <2>1, <2>2 DEF Refusals, Active, n
    <3>3. \A d \in Callers : Waits(d, n) => d # c /\ Waits(d, n)'
      <4>1. n' = n
        BY <2>1 DEF n
      <4> QED
        BY <1>4, <1>5, <4>1 DEF Waits
    <3> QED
      <4>1. n' = n
        BY <2>1 DEF n
      <4>2. \A d \in Callers : pc'[d] = "refused" => awaits'[d] = n
        BY <1>5, <2>1, <3>2
      <4>3. \A d \in Callers : pc'[d] = "refused" => \E e \in Callers \ {d} : Waits(e, n)'
        BY <1>5, <3>1, <3>2, <3>3
      <4> QED
        BY <2>1, <2>3, <4>1, <4>2, <4>3 DEF Refusals, Waits
  <2>11. Tears'
    <3>1. \A d \in torn : d \in Callers /\ Reading(d)
      BY <1>0, <1>1 DEF Tears, Reading, NetTypeOK
    <3>2. torn = {}
      BY <1>11, <3>1, AloneFacts
    <3> QED
      BY <2>1, <3>2 DEF Tears
  <2>12. Pairs'
    <3>1. ~Unhandled'
      BY <1>1, <1>5, <2>1, AloneFacts, AloneFactsNext DEF Rejected
    <3> QED
      BY <3>1 DEF Pairs
  <2> QED
    BY <2>5, <2>6, <2>8, <2>9, <2>10, <2>11, <2>12, LoneParts DEF LoneInv
<1> QED
  BY <1>9, <1>10, <1>11

(* What a step of a task does to the task whose files the server reads. *)
LEMMA WrittenStays ==
  ASSUME TypeOK, QueueInv, Ready, Run
  PROVE  task[Served] = "written" => task'[Served] = "written"
<1>1. Served \in Certificates /\ TaskTypeOK
  BY ServedAssumption, TypeParts
<1>2. task'[Served] = task[Served] \/ Queued(Served)
  BY <1>1, QueueRun, QueueParts
<1> QED
  BY <1>1, <1>2, QueueParts DEF Idle

(* A task restarts a net server that nobody else has, or is rejected. *)
LEMMA LoneTask ==
  ASSUME Alone, Alone', LoneInv, NEW c \in program.certificates, TaskRuns(c)
  PROVE  LoneInv'
<1>0. /\ NetTypeOK /\ ProgramTypeOK /\ TaskTypeOK
      /\ c \in Certificates /\ c \in Callers /\ Served \in Certificates
      /\ Ready /\ ~Unhandled /\ UNCHANGED <<up, secure, program>>
  BY TypeParts, ProgramType, CallersDiffer, ServedAssumption DEF Alone, TaskRuns, Ready, Same
<1>1. CASE TaskRestarts(c)
  BY <1>0, <1>1, LoneRestarts
<1>2. CASE TaskRestarted(c)
  <2>1. task[c] = "restart" /\ UNCHANGED main /\ \A d \in Certificates \ {c} : task'[d] = task[d]
    BY <1>0, <1>2, AtType DEF TaskRestarted, TaskPcs
  <2>2. main = "done"
    BY <1>0, <2>1, CallParts DEF Alone
  <2> QED
    BY <1>0, <1>2, <2>1, <2>2, LoneReturns DEF TaskRestarted
<1>3. CASE CertbotWrites(c)
  <2>1. task'[c] = "written" /\ UNCHANGED main /\ \A d \in Certificates \ {c} : task'[d] = task[d]
    BY <1>0, <1>3 DEF CertbotWrites, At, TaskTypeOK
  <2>2. CASE FilesChange /\ c = Served
    BY <1>0, <2>1, <2>2, LoneFiles
  <2>3. CASE UNCHANGED serverVars
    BY <1>0, <2>1, <2>3, LoneQuiet DEF serverVars, CallVars
  <2> QED
    BY <1>3, <2>2, <2>3 DEF CertbotWrites
<1>4. CASE TaskLoadsConfig(c) \/ TaskSaved(c)
  <2>1. /\ task[c] \in {"load", "save"} /\ UNCHANGED main
        /\ \A d \in Certificates \ {c} : task'[d] = task[d]
        /\ UNCHANGED serverVars
    BY <1>0, <1>4 DEF TaskLoadsConfig, TaskSaved, At, TaskTypeOK
  <2>2. task[Served] = "written" => task'[Served] = "written"
    BY <1>0, <2>1
  <2> QED
    BY <1>0, <2>1, <2>2, LoneQuiet DEF serverVars, CallVars
<1> QED
  BY <1>1, <1>2, <1>3, <1>4 DEF TaskRuns, TaskStep

(* NetInv and RejectInv are inductive without an administrator. *)
LEMMA LoneStep ==
  ASSUME Alone, Alone', LoneInv, [Next]_vars
  PROVE  LoneInv'
<1>1. CASE Boot
  BY <1>1, LoneBoot
<1>2. CASE Ends
  BY <1>2, LoneEnds DEF Alone
<1>3. CASE NetMoves
  <2>1. Ready /\ UNCHANGED <<up, secure, program, main, task>>
    BY <1>3 DEF NetMoves, Same, taskVars
  <2>2. ASSUME NEW n \in NetServers, Connect(n) \/ Disconnect(n) PROVE LoneInv'
    BY <2>1, <2>2, LoneQuiet DEF Connect, Disconnect, CallVars
  <2> QED
    BY <1>3, <2>1, <2>2, LoneOpened, LoneClosed, LoneReads DEF NetMoves
<1>4. CASE Ready /\ MainStep /\ Same
  <2>1. UNCHANGED <<up, secure, program>> /\ ~Unhandled /\ Ready
    BY <1>4 DEF Same, Ready
  <2>2. ASSUME NEW c \in Certificates, LoadConfig(c) PROVE LoneInv'
    BY <2>1, <2>2, LoneQuiet DEF LoadConfig, serverVars, CallVars
  <2>3. CASE StartServer
    BY <2>1, <2>3, LoneStart
  <2>4. CASE Started
    <3>1. main = "start" /\ main' = "done" /\ pc[Main] = "resolved" /\ Return(Main) /\ task' = task
      BY <2>4 DEF Started
    <3> QED
      BY <2>1, <3>1, LoneReturns, CallersAssumption
  <2> QED
    BY <1>4, <2>2, <2>3, <2>4 DEF MainStep
<1>5. CASE Ready /\ Run /\ UNCHANGED <<serverVars, diskVars>> /\ Same
  <2>1. UNCHANGED <<up, secure, program, main>> /\ UNCHANGED CallVars /\ UNCHANGED <<fresh, torn>>
        /\ ~Unhandled
    BY <1>5 DEF Same, Run, serverVars, CallVars, Ready
  <2> QED
    BY <1>5, <2>1, WrittenStays, LoneQuiet DEF Alone
<1>6. CASE \E c \in program.certificates : TaskRuns(c)
  BY <1>6, LoneTask
<1>7. CASE Ready /\ Same /\ \E c \in program.admins : AdminStep(c)
  BY <1>7 DEF Alone
<1>8. CASE Passes
  BY <1>8, LoneQuiet DEF Passes, Tick, Same, serverVars, CallVars
<1>9. CASE UNCHANGED vars
  BY <1>9, LoneQuiet DEF vars, serverVars, taskVars, CallVars
<1> QED
  BY <1>1, <1>2, <1>3, <1>4, <1>5, <1>6, <1>7, <1>8, <1>9, Steps

(* IInv, part by part, now and after a step. *)
LEMMA IInvParts ==
  /\ IInv <=> TypeOK /\ QueueInv /\ CallInv /\ OwnInv /\ (program.admins = {} => LoneInv)
  /\ IInv' <=> TypeOK' /\ QueueInv' /\ CallInv' /\ OwnInv' /\ (program'.admins = {} => LoneInv')
  BY DEF IInv, OwnInv, NobodyReads, LoneInv

(* IInv holds at first. *)
LEMMA IInvInit == Init => IInv
<1> SUFFICES ASSUME Init PROVE IInv
  OBVIOUS
<1>1. CallInv
  BY DEF Init, ServerInit, CallInv
<1>2. OwnInv
  BY DEF Init, ServerInit, OwnInv, HeldInv, NobodyReads, TurnInv, Reading
<1>3. ~Unhandled
  BY CallersAssumption DEF Init, ServerInit, Unhandled
<1>4. Held /\ Awaited /\ Strays /\ Current /\ Begun
  BY NoneAssumption DEF Init, ServerInit, Held, Active, Awaited, Strays, Current, Begun
<1>5. Refusals /\ Tears /\ Pairs
  BY <1>3 DEF Init, ServerInit, Refusals, Tears, Pairs
<1> QED
  BY <1>1, <1>2, <1>4, <1>5, InitType, QueueInit, LoneParts, IInvParts DEF LoneInv

(* IInv is inductive. *)
LEMMA IInvStep == IInv /\ [Next]_vars => IInv'
<1> SUFFICES ASSUME IInv, [Next]_vars PROVE IInv'
  OBVIOUS
<1>1. TypeOK' /\ QueueInv' /\ CallInv' /\ OwnInv'
  BY IInvParts, TypeStep, QueueStep, CallStepInv, OwnStep
<1>2. UNCHANGED program
  BY IInvParts, ServerSteps
<1>3. ASSUME program.admins = {} PROVE LoneInv'
  BY <1>1, <1>2, <1>3, IInvParts, LoneStep DEF Alone
<1> QED
  BY <1>1, <1>2, <1>3, IInvParts

(* What an event of node can lose: a stray that listens, or the successor   *)
(* of one that was lost before.                                             *)
LEMMA EventLoses ==
  ASSUME NetTypeOK, NEW m \in NetServers, Opened(m) \/ Dropped(m) \/ Closed(m),
         NEW n \in NetServers, ~Lost(n), Lost(n)'
  PROVE  \/ net[n] = "stray"
         \/ /\ server = n /\ Lost(m) /\ net[m] \in {"closing", "aborted"}
            /\ net'[m] \notin {"closing", "aborted"}
<1>1. CASE Opened(m) \/ Dropped(m)
  BY <1>1 DEF Opened, Dropped, Lost, NetTypeOK
<1>2. CASE Closed(m)
  <2>1. /\ net[m] \in {"closing", "aborted"}
        /\ net'[m] = IF StartsAgain(m) THEN "opening"
                     ELSE IF net[m] = "closing" THEN "free" ELSE "stray"
        /\ server' = IF StartsAgain(m) THEN m ELSE None
        /\ \A k \in NetServers \ {m} : net'[k] = net[k]
    BY <1>2 DEF Closed, NetTypeOK
  <2>2. n # m
    BY <2>1 DEF Lost
  <2>3. server = n /\ server # m
    BY <2>1, <2>2 DEF Lost
  <2>4. net'[m] \notin {"closing", "aborted"}
    BY <2>1
  <2> QED
    BY <2>1, <2>3, <2>4 DEF Lost
<1> QED
  BY <1>1, <1>2

(* A net server that is created takes the place of the one in _server. *)
LEMMA CreateLoses ==
  ASSUME NetTypeOK, NEW c \in Callers, CreateServer(c),
         NEW n \in NetServers, ~Lost(n), Lost(n)'
  PROVE  server = n
<1>1. PICK k \in NetServers : server' = k /\ net' = [net EXCEPT ![k] = "opening"]
  BY CreateType
<1> QED
  BY <1>1 DEF Lost, NetTypeOK

(* No call loses one but a start that goes on after it read the files. *)
LEMMA CallLoses ==
  ASSUME NetTypeOK, NEW c \in Callers, CallerSteps(c),
         NEW n \in NetServers, ~Lost(n), Lost(n)'
  PROVE  server = n /\ StartGoesOn
<1>1. ~(UNCHANGED <<server, net>>)
  BY DEF Lost
<1>2. ASSUME server = None, CreateServer(c) PROVE FALSE
  BY <1>2, CreateLoses, NoneAssumption
<1>3. ASSUME CloseServer(c, server), server # None PROVE FALSE
  BY <1>3 DEF CloseServer, Lost, NetTypeOK
<1>4. ~Start(c)
  BY <1>1, <1>2 DEF Start
<1>5. \A restart \in BOOLEAN : ~Stop(c, restart)
  BY <1>1, <1>3, <1>4 DEF Stop
<1>6. ~Call(c) /\ ~Return(c)
  BY <1>1, <1>4, <1>5 DEF Call, CallStart, CallStop, CallRestart, Return
<1>7. CallStep(c, FilesExist)
  BY <1>6 DEF CallerSteps, TaskRestarts, TaskRestarted, AdminStep, Call
<1>8. Reading(c) /\ CreateServer(c)
  BY <1>1, <1>7 DEF CallStep, ReadKey, ReadCert, Reading
<1>9. server = n
  BY <1>8, CreateLoses
<1>10. pc'[c] = "opening"
  BY <1>8, GoesType DEF CreateServer, CallPcs
<1> QED
  BY <1>8, <1>9, <1>10 DEF StartGoesOn

(* A step loses a net server in the three ways of OwnServer only. *)
LEMMA LosesStep ==
  ASSUME IInv, [Next]_vars, NEW n \in NetServers, ~Lost(n), Lost(n)'
  PROVE  /\ program.admins # {}
         /\ \/ net[n] = "stray"
            \/ secure /\ server = n /\ (StartGoesOn \/ LostOneCloses)
<1>1. /\ TypeOK /\ OwnInv /\ NetTypeOK
      /\ UNCHANGED <<secure, program>>
  BY IInvParts, TypeParts, ServerSteps
<1>2. program.admins # {}
  <2>1. ASSUME program.admins = {} PROVE Held'
    BY <1>1, <2>1, IInvStep, IInvParts, LoneParts DEF LoneInv
  <2>2. ~Held'
    BY DEF Held, Active, Lost
  <2> QED
    BY <2>1, <2>2
<1>3. \/ \E m \in NetServers : Opened(m) \/ Dropped(m) \/ Closed(m)
      \/ \E c \in Callers : CallerSteps(c)
  <2>1. ~ServerGone
    BY DEF ServerGone, Lost
  <2>2. ~(UNCHANGED CallVars)
    BY DEF CallVars, Lost
  <2> QED
    BY <1>1, <2>1, <2>2, ServerSteps
<1>4. CASE \E m \in NetServers : Opened(m) \/ Dropped(m) \/ Closed(m)
  <2>1. PICK m \in NetServers : Opened(m) \/ Dropped(m) \/ Closed(m)
    BY <1>4
  <2>2. \/ net[n] = "stray"
        \/ /\ server = n /\ Lost(m) /\ net[m] \in {"closing", "aborted"}
           /\ net'[m] \notin {"closing", "aborted"}
    BY <1>1, <2>1, EventLoses
  <2>3. ASSUME ~secure PROVE ~(Lost(m) /\ net[m] \in {"closing", "aborted"})
    BY <1>1, <2>3 DEF OwnInv, HeldInv, Lost
  <2> QED
    BY <1>2, <2>2, <2>3 DEF LostOneCloses
<1>5. CASE \E c \in Callers : CallerSteps(c)
  <2>1. server = n /\ StartGoesOn
    BY <1>1, <1>5, CallLoses
  <2>2. secure
    BY <1>1, <2>1 DEF OwnInv, NobodyReads, StartGoesOn
  <2> QED
    BY <1>2, <2>1, <2>2
<1> QED
  BY <1>3, <1>4, <1>5

(* The process of a program without administrators ends because of a fault, *)
(* or while two are at work.                                                *)
LEMMA EndsStep ==
  ASSUME IInv, [Next]_vars, up, ~up', program.admins = {}
  PROVE  faults' > faults \/ Cardinality(Busy) > 1
<1>1. Alone /\ LoneInv
  BY IInvParts DEF Alone
<1>2. Ends
  <2>1. ~Boot /\ ~NetMoves /\ ~(UNCHANGED vars) /\ ~Passes
        /\ ~(Ready /\ MainStep /\ Same)
        /\ ~(Ready /\ Run /\ UNCHANGED <<serverVars, diskVars>> /\ Same)
        /\ ~(\E c \in program.certificates : TaskRuns(c))
        /\ ~(Ready /\ Same /\ \E c \in program.admins : AdminStep(c))
    BY DEF Boot, NetMoves, Passes, Same, TaskRuns, vars
  <2> QED
    BY <2>1, Steps
<1>3. CASE Fault
  <2>1. faults \in Nat
    BY <1>1, ProgramType, TypeParts DEF Alone, DiskTypeOK
  <2> QED
    BY <1>3, <2>1 DEF Fault
<1>4. CASE Ready /\ \E n \in NetServers : AddressInUse(n)
  <2>1. PICK n, m \in NetServers : net[n] = "listening" /\ net[m] \in {"opening", "stray"}
    BY <1>4 DEF AddressInUse, PortTaken
  <2>2. net[m] # "stray"
    BY <1>1, <1>4, LoneParts DEF LoneInv, Strays, Ready
  <2>3. server = n /\ server = m
    BY <1>1, <2>1, <2>2, LoneParts DEF LoneInv, Held, Active
  <2> QED
    BY <2>1, <2>3
<1>5. CASE Unhandled
  <2>1. PICK x, y \in Busy : x # y
    BY <1>1, <1>5, LoneParts DEF LoneInv, Pairs
  <2>2. IsFiniteSet(Busy)
    <3>1. IsFiniteSet(Certificates \cup {Main})
      BY CertificatesAssumption, FS_AddElement
    <3>2. Busy \in SUBSET (Certificates \cup {Main})
      BY DEF Busy
    <3> QED
      BY <3>1, <3>2, FS_Subset
  <2>3. IsFiniteSet({x}) /\ Cardinality({x}) = 1
    BY FS_Singleton
  <2>4. {x} \cup {y} \in SUBSET Busy /\ y \notin {x}
    BY <2>1
  <2>5. Cardinality({x} \cup {y}) = 2
    BY <2>3, <2>4, FS_AddElement
  <2> QED
    BY <2>2, <2>4, <2>5, FS_Subset, FS_CardinalityType
<1> QED
  BY <1>2, <1>3, <1>4, <1>5 DEF Ends

(* The invariant that the proofs below rest on: the queue, who may call the *)
(* server, whose turn it is, and the net servers (plain.ts:39-79,           *)
(* secure.ts:35-107, scheduler.ts:18-59, letsencrypt.ts:179-216, 246-282).  *)
THEOREM InvCorrect == Spec => []IInv
<1> QED
  BY IInvInit, IInvStep, PTL DEF Spec

(* However many callers start, stop and restart a server at once, it loses  *)
(* a net server only when one that was stopped before it listened listens   *)
(* all the same, when a secure start() is overtaken while it reads the      *)
(* files, and when one lost that way closes; and the program and its tasks  *)
(* by themselves never lose one (plain.ts:44-74, secure.ts:39-107).         *)
THEOREM OwnServerCorrect == Spec => OwnServer
<1>1. IInv /\ [Next]_vars
      => [\A n \in NetServers : (~Lost(n) /\ Lost(n)') =>
            /\ program.admins # {}
            /\ \/ net[n] = "stray"
               \/ secure /\ server = n /\ (StartGoesOn \/ LostOneCloses)]_vars
  BY LosesStep
<1> QED
  BY <1>1, IInvInit, IInvStep, PTL DEF Spec, OwnServer

(* In a program without administrators a secure server that listens has the *)
(* certificate that is on the disk, whatever certbot and the tasks did      *)
(* before (letsencrypt.ts:204-213, 272-280, secure.ts:39-69).               *)
THEOREM ServesCurrentCorrect == Spec => []ServesCurrent
<1>1. IInv => ServesCurrent
  BY IInvParts, LoneParts DEF LoneInv, Current, ServesCurrent
<1> QED
  BY <1>1, InvCorrect, PTL

(* In a program without administrators only a failure of certbot, a kill,   *)
(* or two tasks at work at once end the process: never a restart that fails *)
(* by itself (letsencrypt.ts:194, 205, 273, secure.ts:74-107).              *)
THEOREM EndsForAReasonCorrect == Spec => EndsForAReason
<1>1. IInv /\ [Next]_vars
      => [(up /\ ~up' /\ program.admins = {}) =>
            (faults' > faults \/ Cardinality(Busy) > 1)]_vars
  BY EndsStep
<1> QED
  BY <1>1, IInvInit, IInvStep, PTL DEF Spec, EndsForAReason
================================================================================
