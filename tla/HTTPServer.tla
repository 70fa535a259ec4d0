------------------------------- MODULE HTTPServer -------------------------------
(***************************************************************************)
(* One server object, src/server/plain.ts or src/server/secure.ts: start,  *)
(* stop and restart, called by several callers at once, and the net        *)
(* servers they create.  A net server that is closed gives up its port at  *)
(* once and emits 'close' when its last connection has ended; all the      *)
(* callbacks given to close() run in that one event.                       *)
(*                                                                         *)
(* Of the key and the certificate it matters only whether a server was     *)
(* created with the files that are on the disk now.                        *)
(***************************************************************************)
EXTENDS Naturals, FiniteSets

CONSTANTS
  Callers,        \* who calls the methods, one call at a time each
  NetServers,     \* identities of net servers, used again once they are free
  None,
  MaxConnections  \* bound on the connections of a net server

ASSUME NoneAssumption == None \notin NetServers
ASSUME MaxConnectionsAssumption == MaxConnections \in Nat

VARIABLES
  up,          \* the node process runs
  secure,      \* the class: HTTPServerSecure or HTTPServerPlain
  server,      \* _server
  net,         \* the state of each net server
  connections, \* its open connections
  fresh,       \* the net servers created with the files that are on the disk
  torn,        \* the callers that read a key which was replaced since
  pc,          \* where the call of each caller is
  awaits,      \* the net server whose event it awaits
  restarting   \* the callers whose stop is the first half of restart()

serverVars == <<server, net, connections, fresh, torn, pc, awaits, restarting>>

(* "aborted": closed before it listened, "stray": after the 'close' of that. *)
NetStates == {"free", "opening", "listening", "closing", "aborted", "stray"}

(* "closing" and "refused" wait for 'close', the latter to be rejected.      *)
CallPcs == {"idle", "key", "cert", "opening", "closing", "refused",
            "resolved", "rejected", "hung"}

ServerInit ==
  /\ server = None
  /\ net = [n \in NetServers |-> "free"]
  /\ connections = [n \in NetServers |-> 0]
  /\ fresh = {} /\ torn = {}
  /\ pc = [c \in Callers |-> "idle"]
  /\ awaits = [c \in Callers |-> None]
  /\ restarting = {}

(* What is left of it when the process ends. *)
ServerGone ==
  /\ server' = None
  /\ net' = [n \in NetServers |-> "free"]
  /\ connections' = [n \in NetServers |-> 0]
  /\ fresh' = {} /\ torn' = {}
  /\ pc' = [c \in Callers |-> "idle"]
  /\ awaits' = [c \in Callers |-> None]
  /\ restarting' = {}

Goes(c, where) == pc' = [pc EXCEPT ![c] = where]

--------------------------------------------------------------------------------
(* The body of start(). *)

(* createServer, the assignment of _server, and listen. *)
CreateServer(c) ==
  LET free == {n \in NetServers : net[n] = "free"}
      n == CHOOSE m \in free : TRUE
  IN  /\ free # {}
      /\ server' = n
      /\ net' = [net EXCEPT ![n] = "opening"]
      /\ fresh' = fresh \cup {n}
      /\ awaits' = [awaits EXCEPT ![c] = n]
      /\ Goes(c, "opening")
      /\ UNCHANGED connections

(* Mutant: start() does not look whether there is a server. *)
StartUnchecked(c) ==
  IF secure THEN Goes(c, "key") /\ UNCHANGED <<server, net, connections, fresh, torn, awaits>>
  ELSE CreateServer(c) /\ UNCHANGED torn

(* A second start() resolves at once if plain and rejects if secure. *)
Start(c) ==
  IF server = None /\ ~secure THEN CreateServer(c) /\ UNCHANGED torn
  ELSE /\ Goes(c, IF server = None THEN "key" ELSE IF secure THEN "rejected" ELSE "resolved")
       /\ UNCHANGED <<server, net, connections, fresh, torn, awaits>>

(* The key is read; files that are not there yet are logged and go without. *)
ReadKey(c, files) ==
  /\ pc[c] = "key"
  /\ IF files
     THEN /\ Goes(c, "cert")
          /\ UNCHANGED <<server, net, connections, fresh, torn, awaits>>
     ELSE CreateServer(c) /\ UNCHANGED torn
  /\ UNCHANGED restarting

(* The certificate is read.  createServer throws if it is not the key's.     *)
ReadCert(c) ==
  /\ pc[c] = "cert"
  /\ torn' = torn \ {c}
  /\ IF c \in torn
     THEN /\ Goes(c, "rejected")
          /\ UNCHANGED <<server, net, connections, fresh, awaits>>
     ELSE CreateServer(c)
  /\ UNCHANGED restarting

--------------------------------------------------------------------------------
(* The body of stop(). *)

(* A net server that has a port is closed by the first close(); the         *)
(* callback of any other close() will be given an error.                    *)
CloseServer(c, n) ==
  /\ awaits' = [awaits EXCEPT ![c] = n]
  /\ Goes(c, IF net[n] = "listening" THEN "closing" ELSE "refused")
  /\ net' = [net EXCEPT ![n] = CASE @ = "listening" -> "closing"
                                 [] @ = "opening"   -> "aborted"
                                 [] OTHER           -> @]
  /\ UNCHANGED <<server, connections, fresh, torn>>

(* Mutant: a stop() of a secure server that is not there resolves. *)
StopLenient(c, restart) ==
  IF server # None THEN CloseServer(c, server)
  ELSE IF restart THEN Start(c)
  ELSE /\ Goes(c, "resolved")
       /\ UNCHANGED <<server, net, connections, fresh, torn, awaits>>

(* stop() of no server resolves if plain, and restart() goes on with        *)
(* start() before anything else happens; it rejects if secure.              *)
Stop(c, restart) ==
  IF server # None THEN CloseServer(c, server)
  ELSE IF restart /\ ~secure THEN Start(c)
  ELSE /\ Goes(c, IF secure THEN "rejected" ELSE "resolved")
       /\ UNCHANGED <<server, net, connections, fresh, torn, awaits>>

--------------------------------------------------------------------------------
(* The calls. *)

CallStart(c)   == pc[c] = "idle" /\ Start(c) /\ UNCHANGED restarting
CallStop(c)    == pc[c] = "idle" /\ Stop(c, FALSE) /\ UNCHANGED restarting
CallRestart(c) == /\ pc[c] = "idle"
                  /\ Stop(c, TRUE)
                  /\ restarting' = restarting \cup {c}

(* The caller gets the result. *)
Return(c) ==
  /\ pc[c] \in {"resolved", "rejected"}
  /\ Goes(c, "idle")
  /\ awaits' = [awaits EXCEPT ![c] = None]
  /\ restarting' = restarting \ {c}
  /\ UNCHANGED <<server, net, connections, fresh, torn>>

--------------------------------------------------------------------------------
(* The events of node. *)

Waiting(n, where) == {c \in Callers : pc[c] = where /\ awaits[c] = n}

(* A net server can listen: one whose port is taken throws in an event that *)
(* nobody listens for.                                                      *)
PortTaken == \E n \in NetServers : net[n] = "listening"

Opened(n) ==
  /\ net[n] \in {"opening", "stray"}
  /\ ~PortTaken
  /\ net' = [net EXCEPT ![n] = "listening"]
  /\ pc' = [c \in Callers |-> IF c \in Waiting(n, "opening") THEN "resolved" ELSE pc[c]]
  /\ UNCHANGED <<server, connections, fresh, torn, awaits, restarting>>

AddressInUse(n) == PortTaken /\ net[n] \in {"opening", "stray"}

(* A node that looks again after resolving the host drops a server which    *)
(* was closed meanwhile; an older one lets it listen (Opened).              *)
Dropped(n) ==
  /\ net[n] = "stray"
  /\ net' = [net EXCEPT ![n] = "free"]
  /\ fresh' = fresh \ {n}
  /\ pc' = [c \in Callers |-> IF c \in Waiting(n, "opening") THEN "hung" ELSE pc[c]]
  /\ UNCHANGED <<server, connections, torn, awaits, restarting>>

(* The caller whose close() it was goes on with start() if it restarts.     *)
StartsAgain(n) == ~secure /\ Waiting(n, "closing") \cap restarting # {}

AfterClose(c) ==
  IF c \notin restarting THEN "resolved" ELSE IF secure THEN "key" ELSE "opening"

(* Mutant: an error given to the callback of close() is forgotten. *)
ClosedQuietly(n) ==
  /\ net[n] \in {"closing", "aborted"}
  /\ connections[n] = 0
  /\ server' = IF StartsAgain(n) THEN n ELSE None
  /\ net' = [net EXCEPT ![n] = IF StartsAgain(n) THEN "opening"
                               ELSE IF @ = "closing" THEN "free" ELSE "stray"]
  /\ fresh' = IF StartsAgain(n) THEN fresh \cup {n}
              ELSE IF net[n] = "closing" THEN fresh \ {n} ELSE fresh
  /\ pc' = [c \in Callers |-> IF c \in Waiting(n, "closing") THEN AfterClose(c) ELSE pc[c]]
  /\ UNCHANGED <<connections, torn, awaits, restarting>>

(* 'close': every callback clears _server, whatever it is by then; then the *)
(* promises settle, and a plain restart() creates the next net server.      *)
Closed(n) ==
  /\ net[n] \in {"closing", "aborted"}
  /\ connections[n] = 0
  /\ server' = IF StartsAgain(n) THEN n ELSE None
  /\ net' = [net EXCEPT ![n] = IF StartsAgain(n) THEN "opening"
                               ELSE IF @ = "closing" THEN "free" ELSE "stray"]
  /\ fresh' = IF StartsAgain(n) THEN fresh \cup {n}
              ELSE IF net[n] = "closing" THEN fresh \ {n} ELSE fresh
  /\ pc' = [c \in Callers |-> CASE c \in Waiting(n, "closing") -> AfterClose(c)
                                [] c \in Waiting(n, "refused") -> "rejected"
                                [] OTHER                       -> pc[c]]
  /\ UNCHANGED <<connections, torn, awaits, restarting>>

Connect(n) ==
  /\ net[n] = "listening"
  /\ connections[n] < MaxConnections
  /\ connections' = [connections EXCEPT ![n] = @ + 1]
  /\ UNCHANGED <<server, net, fresh, torn, pc, awaits, restarting>>

Disconnect(n) ==
  /\ connections[n] > 0
  /\ connections' = [connections EXCEPT ![n] = @ - 1]
  /\ UNCHANGED <<server, net, fresh, torn, pc, awaits, restarting>>

(* The files on the disk are replaced. *)
FilesChange ==
  /\ fresh' = {}
  /\ torn' = {c \in Callers : pc[c] = "cert"}
  /\ UNCHANGED <<server, net, connections, pc, awaits, restarting>>

--------------------------------------------------------------------------------
(* What node and the awaits of a call do by themselves. *)
NetStep(n) == Opened(n) \/ Dropped(n) \/ Closed(n)

CallStep(c, files) == ReadKey(c, files) \/ ReadCert(c)

Call(c) == CallStart(c) \/ CallStop(c) \/ CallRestart(c)

ServerTypeOK ==
  /\ up \in BOOLEAN /\ secure \in BOOLEAN
  /\ server \in NetServers \cup {None}
  /\ net \in [NetServers -> NetStates]
  /\ connections \in [NetServers -> 0..MaxConnections]
  /\ fresh \subseteq NetServers /\ torn \subseteq Callers
  /\ pc \in [Callers -> CallPcs]
  /\ awaits \in [Callers -> NetServers \cup {None}]
  /\ restarting \subseteq Callers
================================================================================
