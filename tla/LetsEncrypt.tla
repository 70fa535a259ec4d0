------------------------------ MODULE LetsEncrypt ------------------------------
(***************************************************************************)
(* A program around one server object: src/middleware/letsencrypt.ts with  *)
(* src/misc/scheduler.ts on a secure server, set up as example/main.ts     *)
(* does, or administrators that start, stop and restart a server.          *)
(*                                                                         *)
(* Time is kept as what is left of it: due, config, expires and life go    *)
(* down with every Tick and stay at 0 when the moment has passed.  The     *)
(* process may be killed at any point and is started again; the config     *)
(* files and certbot's certificates survive.                               *)
(***************************************************************************)
EXTENDS HTTPServer, SequencesExt

CONSTANTS
  Certificates,  \* options.certificates, of every program
  Served,        \* the certificate whose files the secure server reads
  Admins,        \* callers of the application's own
  Main,          \* the caller that is the main program
  Programs,      \* [secure, certificates, admins, faults]: what a program
                 \* uses, and a bound on its failures of certbot and kills
  Interval,      \* renewInterval
  RequestDelay,  \* the 1000 ms before the first request
  Life,          \* how long a certificate lives
  Keep,          \* certbot keeps a certificate that lives longer than this
  MaxTimers      \* bound on the live timers; one more is not counted

ASSUME CallersAssumption ==
  /\ Callers = Certificates \cup Admins \cup {Main}
  /\ Main \notin Certificates \cup Admins /\ Certificates \cap Admins = {}
ASSUME CertificatesAssumption == IsFiniteSet(Certificates)
ASSUME ServedAssumption == Served \in Certificates
ASSUME ProgramsAssumption ==
  Programs \subseteq [secure : BOOLEAN, certificates : SUBSET Certificates,
                      admins : SUBSET Admins, faults : Nat]
ASSUME TimesAssumption ==
  /\ {Interval, RequestDelay, Life, MaxTimers} \subseteq Nat \ {0}
  /\ Keep \in Nat

VARIABLES
  program,  \* the program
  main,     \* how far it is: "load", "start", "done"
  toLoad,   \* the certificates whose config it has not loaded yet
  queue,    \* _queue of the scheduler
  timers,   \* how many timers are live: unref() does not cancel one
  task,     \* where the task of each certificate is
  expires,  \* the expireDate a task is saving
  config,   \* the expireDate in each config file; NoConfig if none can be read
  life,     \* how long each certificate of certbot still lives; or NoCertificate
  faults

taskVars == <<main, toLoad, queue, timers, task, expires>>
diskVars == <<config, life, faults>>
vars == <<up, secure, serverVars, program, taskVars, diskVars>>

NoConfig == Interval + 1
NoCertificate == Life + 1

(* "renew" and "request" wait for certbot, "written" for it to exit. *)
TaskPcs == {"none", "load", "renew", "request", "written", "restart", "save"}

Kinds == {"renew", "request"}
ScheduledTask == [certificate : Certificates, kind : Kinds, due : Nat]

Init ==
  /\ program \in Programs
  /\ up = FALSE /\ secure = program.secure
  /\ ServerInit
  /\ main = "done" /\ toLoad = {}
  /\ queue = <<>> /\ timers = 0
  /\ task = [c \in Certificates |-> "none"]
  /\ expires = [c \in Certificates |-> 0]
  /\ config = [c \in Certificates |-> NoConfig]
  /\ life = [c \in Certificates |-> NoCertificate]
  /\ faults = 0

--------------------------------------------------------------------------------
(* The scheduler. *)

(* One more timer: the one before is not cancelled. *)
SetTimeout(live) == IF live < MaxTimers THEN live + 1 ELSE live

(* Mutant: the queue is not sorted. *)
ScheduleLast(certificate, kind, due) ==
  /\ queue' = Append(queue, [certificate |-> certificate, kind |-> kind, due |-> due])
  /\ timers' = SetTimeout(timers)

(* The comparison says -1 of equal times too: their order is any. *)
Schedule(certificate, kind, due) ==
  /\ \E i \in 1..(Len(queue) + 1) :
       /\ queue' = InsertAt(queue, i, [certificate |-> certificate, kind |-> kind, due |-> due])
       /\ \A j, k \in DOMAIN queue' : j < k => queue'[j].due <= queue'[k].due
  /\ timers' = SetTimeout(timers)

(* How many tasks _run runs: it stops at the first that is not due. *)
DueTasks == {i \in DOMAIN queue : \A j \in 1..i : queue[j].due = 0}

Starts(certificate, kind) ==
  \E i \in DueTasks : queue[i].certificate = certificate /\ queue[i].kind = kind

(* Mutant: the timeout is not set again. *)
RunOnce ==
  /\ timers > 0
  /\ queue' = SubSeq(queue, Cardinality(DueTasks) + 1, Len(queue))
  /\ task' = [c \in Certificates |-> CASE Starts(c, "renew")   -> "load"
                                       [] Starts(c, "request") -> "request"
                                       [] OTHER                -> task[c]]
  /\ timers' = timers - 1
  /\ UNCHANGED <<main, toLoad, expires>>

(* A timer fires: the callbacks of the due tasks run up to their first      *)
(* await, and the timeout is set if a task is left.                         *)
Run ==
  /\ timers > 0
  /\ queue' = SubSeq(queue, Cardinality(DueTasks) + 1, Len(queue))
  /\ task' = [c \in Certificates |-> CASE Starts(c, "renew")   -> "load"
                                       [] Starts(c, "request") -> "request"
                                       [] OTHER                -> task[c]]
  /\ timers' = IF queue' = <<>> THEN timers - 1 ELSE timers
  /\ UNCHANGED <<main, toLoad, expires>>

--------------------------------------------------------------------------------
(* The main program. *)

Boot ==
  /\ ~up
  /\ up' = TRUE
  /\ toLoad' = program.certificates
  /\ main' = IF program.certificates = {} THEN "done" ELSE "load"
  /\ UNCHANGED <<secure, serverVars, program, queue, timers, task, expires, diskVars>>

(* useLetsEncrypt: a config that can be read gives the time of the renewal. *)
LoadConfig(c) ==
  /\ main = "load" /\ c \in toLoad
  /\ IF config[c] = NoConfig
     THEN Schedule(c, "request", RequestDelay)
     ELSE Schedule(c, "renew", config[c])
  /\ toLoad' = toLoad \ {c}
  /\ UNCHANGED <<main, task, expires, serverVars>>

StartServer ==
  /\ main = "load" /\ toLoad = {}
  /\ main' = "start"
  /\ CallStart(Main)
  /\ UNCHANGED <<toLoad, queue, timers, task, expires>>

Started ==
  /\ main = "start"
  /\ pc[Main] = "resolved"
  /\ Return(Main)
  /\ main' = "done"
  /\ UNCHANGED <<toLoad, queue, timers, task, expires>>

--------------------------------------------------------------------------------
(* requestCertificate and renewCertificate. *)

At(c, here, there) ==
  /\ task[c] = here
  /\ task' = [task EXCEPT ![c] = there]

TaskLoadsConfig(c) ==
  /\ At(c, "load", "renew")
  /\ UNCHANGED <<main, toLoad, queue, timers, expires, serverVars, diskVars>>

(* What certbot does: "renew" --force-renew, "certonly" --keep-until-expiring. *)
Renews(c) == task[c] = "renew" \/ life[c] \notin (Keep + 1)..Life

(* Certbot has done its work.  It takes longer than the servers to start.   *)
CertbotWrites(c) ==
  /\ task[c] \in Kinds
  /\ main = "done"
  /\ At(c, task[c], "written")
  /\ life' = [life EXCEPT ![c] = IF Renews(c) THEN Life ELSE @]
  /\ IF c = Served /\ Renews(c) THEN FilesChange ELSE UNCHANGED serverVars
  /\ UNCHANGED <<main, toLoad, queue, timers, expires, config, faults>>

(* Mutant: the server keeps the certificate it has. *)
TaskNeverRestarts(c) ==
  /\ At(c, "written", "save")
  /\ expires' = [expires EXCEPT ![c] = Interval]
  /\ UNCHANGED <<main, toLoad, queue, timers, serverVars, diskVars>>

(* It exits, and the secure server is restarted. *)
TaskRestarts(c) ==
  /\ At(c, "written", "restart")
  /\ CallRestart(c)
  /\ UNCHANGED <<main, toLoad, queue, timers, expires, diskVars>>

(* Mutant: the delay of a request is added. *)
TaskRestartedLate(c) ==
  /\ pc[c] = "resolved"
  /\ At(c, "restart", "save")
  /\ Return(c)
  /\ expires' = [expires EXCEPT ![c] = Interval + RequestDelay]
  /\ UNCHANGED <<main, toLoad, queue, timers, diskVars>>

TaskRestarted(c) ==
  /\ pc[c] = "resolved"
  /\ At(c, "restart", "save")
  /\ Return(c)
  /\ expires' = [expires EXCEPT ![c] = Interval]
  /\ UNCHANGED <<main, toLoad, queue, timers, diskVars>>

(* The config is saved, and a request scheduled, after a renewal too. *)
TaskSaved(c) ==
  /\ At(c, "save", "none")
  /\ config' = [config EXCEPT ![c] = expires[c]]
  /\ Schedule(c, "request", expires[c])
  /\ expires' = [expires EXCEPT ![c] = 0]
  /\ UNCHANGED <<main, toLoad, life, faults, serverVars>>

--------------------------------------------------------------------------------
(* Failures. *)

(* A rejection that nobody handles: of the main program or of a callback.   *)
Unhandled == \E c \in Certificates \cup {Main} : pc[c] = "rejected"

(* The process ends.  A file that is being written is as it was, as it      *)
(* should be, or torn.                                                      *)
ProcessEnds ==
  /\ up' = FALSE
  /\ ServerGone
  /\ main' = "done" /\ toLoad' = {}
  /\ queue' = <<>> /\ timers' = 0
  /\ task' = [c \in Certificates |-> "none"]
  /\ expires' = [c \in Certificates |-> 0]
  /\ config' \in {f \in [Certificates -> 0..NoConfig] :
                    \A c \in Certificates :
                      f[c] \in IF task[c] = "save" THEN {config[c], NoConfig, expires[c]}
                               ELSE {config[c]}}
  /\ UNCHANGED life

Fault ==
  /\ faults < program.faults
  /\ faults' = faults + 1

CertbotFails(c) ==
  /\ task[c] \in Kinds
  /\ Fault
  /\ ProcessEnds

Killed == Fault /\ ProcessEnds

Fails == Unhandled /\ ProcessEnds /\ UNCHANGED faults

--------------------------------------------------------------------------------
Left(time) == IF time > 0 THEN time - 1 ELSE 0

Tick ==
  /\ queue' = [i \in DOMAIN queue |-> [queue[i] EXCEPT !.due = Left(@)]]
  /\ expires' = [c \in Certificates |-> Left(expires[c])]
  /\ config' = [c \in Certificates |->
                  IF config[c] = NoConfig THEN NoConfig ELSE Left(config[c])]
  /\ life' = [c \in Certificates |->
                IF life[c] = NoCertificate THEN NoCertificate ELSE Left(life[c])]
  /\ UNCHANGED <<main, toLoad, timers, task, faults, serverVars>>

TaskStep(c) ==
  \/ TaskLoadsConfig(c) \/ CertbotWrites(c) \/ TaskRestarts(c)
  \/ TaskRestarted(c) \/ TaskSaved(c)

AdminStep(c) == (Call(c) \/ Return(c)) /\ UNCHANGED <<taskVars, diskVars>>

MainStep ==
  /\ \/ \E c \in Certificates : LoadConfig(c)
     \/ StartServer
     \/ Started
  /\ UNCHANGED diskVars

FilesExist == life[Served] # NoCertificate

EngineStep ==
  \/ MainStep
  \/ Run /\ UNCHANGED <<serverVars, diskVars>>

ConnectionStep ==
  /\ \E n \in NetServers : Connect(n) \/ Disconnect(n)
  /\ UNCHANGED <<taskVars, diskVars>>

(* A rejection that nobody handles ends the process before anything else.   *)
Ready == up /\ ~Unhandled
Same == UNCHANGED <<up, secure, program>>

Engine ==
  \/ Ready /\ EngineStep /\ Same
  \/ Boot

CallRuns(c) ==
  Ready /\ CallStep(c, FilesExist) /\ Same /\ UNCHANGED <<taskVars, diskVars>>

NetRuns(n) ==
  Ready /\ \/ NetStep(n) /\ Same /\ UNCHANGED <<taskVars, diskVars>>
           \/ AddressInUse(n) /\ ProcessEnds /\ UNCHANGED <<secure, program, faults>>

FailureEnds == up /\ Fails /\ UNCHANGED <<secure, program>>

TaskRuns(c) == Ready /\ TaskStep(c) /\ Same

Passes == Tick /\ Same

Next ==
  \/ Engine \/ FailureEnds
  \/ \E n \in NetServers : NetRuns(n)
  \/ \E c \in Callers : CallRuns(c)
  \/ \E c \in program.certificates : TaskRuns(c)
  \/ Ready /\ Same /\ (ConnectionStep \/ \E c \in program.admins : AdminStep(c))
  \/ up /\ (Killed \/ \E c \in program.certificates : CertbotFails(c))
        /\ UNCHANGED <<secure, program>>
  \/ Passes

Spec == Init /\ [][Next]_vars

(* Time passes, the event loop runs what is ready, certbot exits, and a     *)
(* process that ended is started again.  Nothing makes a connection end.    *)
FairSpec ==
  /\ Spec
  /\ WF_vars(Engine) /\ WF_vars(FailureEnds) /\ WF_vars(Passes)
  /\ \A n \in NetServers : WF_vars(NetRuns(n))
  /\ \A c \in Callers : WF_vars(CallRuns(c))
  /\ \A c \in Certificates : WF_vars(c \in program.certificates /\ TaskRuns(c))

--------------------------------------------------------------------------------
TypeOK ==
  /\ ServerTypeOK
  /\ program \in Programs /\ secure = program.secure
  /\ main \in {"load", "start", "done"} /\ toLoad \subseteq program.certificates
  /\ queue \in Seq(ScheduledTask)
  /\ timers \in 0..MaxTimers
  /\ task \in [Certificates -> TaskPcs]
  /\ expires \in [Certificates -> 0..Interval]
  /\ config \in [Certificates -> 0..NoConfig]
  /\ life \in [Certificates -> 0..NoCertificate]
  /\ faults \in 0..program.faults

(* A server that listens has the certificate that is on the disk, but for   *)
(* the moment until certbot exits (letsencrypt.ts:204-213, 272-280).        *)
ServesCurrent ==
  (program.admins = {}) =>
    \A n \in NetServers :
      (net[n] = "listening" /\ n \notin fresh) => task[Served] = "written"

(* Every certificate the program has loaded has one task, in the queue or   *)
(* at work, never none and never two; what is in the queue has a timer, and *)
(* no later task is in the way of one that is due (scheduler.ts:18-59,      *)
(* letsencrypt.ts:216, 282, 339, 356).                                      *)
Covered ==
  up =>
    /\ \A c \in program.certificates \ toLoad :
         LET queued == {i \in DOMAIN queue : queue[i].certificate = c}
         IN  IF task[c] = "none" THEN Cardinality(queued) = 1 ELSE queued = {}
    /\ queue # <<>> => timers > 0
    /\ \A i \in DOMAIN queue : queue[i].due = 0 => i \in DueTasks

(* A net server at work that is not the one in _server: no stop() reaches it. *)
Lost(n) == net[n] \in {"opening", "listening", "closing", "aborted"} /\ server # n

Reading(c) == pc[c] \in {"key", "cert"}

(* A start() of a secure server that has read the files creates one. *)
StartGoesOn == \E c \in Callers : Reading(c) /\ pc'[c] = "opening"

(* A net server that was lost while it closed emits 'close'. *)
LostOneCloses ==
  \E n \in NetServers :
    Lost(n) /\ net[n] \in {"closing", "aborted"} /\ net'[n] \notin {"closing", "aborted"}

(* A net server is lost in three ways only, and never in a program without  *)
(* administrators.  One that was stopped before it listened may listen all  *)
(* the same, after its 'close' cleared _server.  Of a secure server, a      *)
(* start() that checked _server before it read the files puts its own in    *)
(* the place of one that is there, and the callback of close() of one that  *)
(* is lost clears its successor (plain.ts:44-74, secure.ts:39-107).         *)
OwnServer ==
  [][\A n \in NetServers : (~Lost(n) /\ Lost(n)') =>
       /\ program.admins # {}
       /\ \/ net[n] = "stray"
          \/ secure /\ server = n /\ (StartGoesOn \/ LostOneCloses)]_vars

Busy == {c \in Certificates : task[c] # "none"} \cup (IF main = "done" THEN {} ELSE {Main})

(* What the scheduler's queue looks like between two steps: sorted, and the  *)
(* tasks in it are those that are loaded and not at work.                   *)
QueueInv ==
  /\ \A i, j \in DOMAIN queue : i < j => queue[i].due <= queue[j].due
  /\ \A i, j \in DOMAIN queue : queue[i].certificate = queue[j].certificate => i = j
  /\ \A c \in Certificates :
       (\E i \in DOMAIN queue : queue[i].certificate = c) <=>
         (up /\ c \in program.certificates \ toLoad /\ task[c] = "none")
  /\ \A c \in Certificates :
       task[c] # "none" => (up /\ c \in program.certificates \ toLoad)
  /\ queue # <<>> => timers > 0

(* Who can be in a call, and when. *)
CallInv ==
  /\ \A c \in Callers : pc[c] # "idle" =>
       \/ c = Main /\ main = "start"
       \/ c \in Certificates /\ task[c] = "restart" /\ c \in restarting
       \/ c \in program.admins
  /\ \A c \in Certificates : task[c] \in {"written", "restart", "save"} => main = "done"
  /\ ~up => main = "done" /\ server = None

(* Of a plain server, and without administrators, a net server that opens or *)
(* closes is the one in _server.                                            *)
HeldInv ==
  (~secure \/ program.admins = {}) =>
    \A n \in NetServers : net[n] \in {"opening", "closing", "aborted"} => server = n

(* No two callers are between the end of one server and the start of the    *)
(* next.                                                                    *)
TurnInv ==
  /\ \A c \in Callers : Reading(c) => server = None
  /\ \A c, d \in Callers : Reading(c) /\ Reading(d) => c = d
  /\ \A c \in Callers : pc[c] = "closing" =>
       awaits[c] \in NetServers /\ net[awaits[c]] = "closing"
  /\ \A c, d \in Callers : pc[c] = "closing" /\ pc[d] = "closing" => c = d

(* Every net server is the one in _server, and somebody waits for what will *)
(* happen to it next.                                                       *)
NetInv ==
  /\ \A n \in NetServers :
       /\ net[n] \in {"opening", "listening", "closing", "aborted"} <=> server = n
       /\ net[n] = "opening" => \E c \in Waiting(n, "opening") : TRUE
       /\ net[n] = "closing" => \E c \in Waiting(n, "closing") : c \in restarting
       /\ net[n] = "aborted" => \E c \in Waiting(n, "refused") : TRUE
       /\ net[n] = "stray" => Unhandled
       /\ (net[n] \in {"opening", "listening"} /\ n \notin fresh) => task[Served] = "written"
  /\ main = "load" => server = None
  /\ (up /\ secure /\ main # "load" /\ program.certificates # {} /\ server = None) =>
       \E c \in Callers : Reading(c) \/ pc[c] = "rejected"

(* A call is rejected only while somebody else is at work too. *)
RejectInv ==
  /\ \A c \in Callers : pc[c] = "refused" =>
       /\ awaits[c] \in NetServers /\ net[awaits[c]] \in {"closing", "aborted"}
       /\ \E d \in Callers \ {c} :
            pc[d] \in {"opening", "closing", "refused"} /\ awaits[d] = awaits[c]
  /\ \A c \in torn : pc[c] = "cert" /\ (task[Served] = "written" \/ Unhandled)
  /\ Unhandled => \E x, y \in Busy : x # y

IInv ==
  /\ TypeOK /\ QueueInv /\ CallInv /\ HeldInv
  /\ ~secure => \A c \in Callers : ~Reading(c)
  /\ program.admins = {} => (secure => TurnInv) /\ NetInv /\ RejectInv

(* Without an administrator the process ends only when certbot fails, when  *)
(* it is killed, or when two tasks are at work at once: one certificate is  *)
(* renewed without end (letsencrypt.ts:194, 205, 273).                      *)
EndsForAReason ==
  [][(up /\ ~up' /\ program.admins = {}) =>
       (faults' > faults \/ Cardinality(Busy) > 1)]_vars

(* Somebody waits for a net server whose connections have not ended: there  *)
(* is no timeout, and stop() destroys no connection.                        *)
Hanging(n) == net[n] = "closing" /\ connections[n] > 0

WaitsFor(c, n) == pc[c] \in {"closing", "refused"} /\ awaits[c] = n

(* Every start, stop and restart settles while the process lives, however   *)
(* many are called at once, but for two: a start whose server was stopped   *)
(* before it listened may hang, and a stop or restart waits as long as a    *)
(* connection of the server it closes stays open (plain.ts:44-79,           *)
(* secure.ts:39-107).                                                       *)
CallsSettle ==
  \A c \in Callers :
    \/ []<>(pc[c] \in {"idle", "resolved", "rejected", "hung"} \/ ~up)
    \/ <>[](\E n \in NetServers : WaitsFor(c, n) /\ Hanging(n))

(* Two certificates end the process of each other. *)
KilledByAnother == Cardinality(program.certificates) > 1 /\ ~up

(* A certificate is renewed again and again, whatever happened before,      *)
(* unless two of them end the process again and again, or a restart waits   *)
(* for a connection that never ends (letsencrypt.ts:179-216, 246-282).      *)
Maintained ==
  \A c \in Certificates :
    \/ []<>(c \notin program.certificates \/ life[c] = Life \/ KilledByAnother)
    \/ <>[](\E n \in NetServers : Hanging(n))
================================================================================
