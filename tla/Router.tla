--------------------------------- MODULE Router ---------------------------------
(***************************************************************************)
(* HTTPSimpleRouter with HTTPPathMatcher, src/router/simple-router.ts and  *)
(* path-matcher.ts, and useVhost, src/middleware/vhost.ts: how a request   *)
(* finds its callbacks in tables that may grow while it does.              *)
(*                                                                         *)
(* A path is a sequence of tokens: slashes and the segments between them,  *)
(* each segment one token.  Of a segment it matters whether a parameter    *)
(* matches it (Words).  A literal segment of a pattern matches itself: the *)
(* code puts it into the expression as it is.                              *)
(*                                                                         *)
(* callbacks() is a generator that calls itself for a nested router: its   *)
(* state is a stack of frames.  It runs without interruption from one      *)
(* callback to the next.                                                   *)
(***************************************************************************)
EXTENDS Naturals, Sequences, FiniteSets

LOCAL INSTANCE SequencesExt

CONSTANTS
  Routers, Root,    \* the routers, and the one of the server
  Callbacks,        \* handlers that answer by themselves
  Vhosts,           \* callbacks made by useVhost
  HostOf, RouterOf, \* what each was made with
  Words,            \* segments of letters, digits, '_' and '-' only
  Params, Reserved, \* the ':' segments of patterns, those whose name is reserved
  AnyMethod, NoRemainder, \* null
  Registrations,    \* the calls of register: [router, method, path, handlers]
  Requests,         \* [method, path, host]
  MaxRegistrations, \* bound on the calls of register
  MaxRequests       \* bound on the requests

Slash == "/"
Star == "*"
Backslash == "\\"

ASSUME HandlersAssumption ==
  /\ Root \in Routers
  /\ HostOf \in [Vhosts -> STRING] /\ RouterOf \in [Vhosts -> Routers]
  /\ Routers \cap (Callbacks \cup Vhosts) = {} /\ Callbacks \cap Vhosts = {}
ASSUME TokensAssumption ==
  /\ {Slash, Star, Backslash} \cap (Words \cup Params) = {}
  /\ Words \cap Params = {} /\ Reserved \subseteq Params
ASSUME BoundsAssumption == MaxRegistrations \in Nat /\ MaxRequests \in Nat

VARIABLES
  elements,      \* _elements of each router: [method, expression, handler]
  registrations, \* how often register was called
  requests,      \* how many requests were handled
  request,       \* the request
  phase,         \* "scan", "await" a callback, "exhausted", "stopped"
  frames,        \* of each generator the router, the path and the next element
  callback,      \* the callback that runs
  called,        \* the callbacks that were called: [router, at, parameters, rest]
  expected       \* those a flat table would have had it call

table == <<elements, registrations>>
dispatch == <<requests, request, phase, frames, callback, called, expected>>
vars == <<table, dispatch>>

--------------------------------------------------------------------------------
(* Paths and patterns. *)

(* Router.cleanPath: no two slashes in a row, and none at the end of more.  *)
Collapse(path) ==
  FoldLeft(LAMBDA clean, token :
             IF token = Slash /\ clean # <<>> /\ Last(clean) = Slash THEN clean
             ELSE Append(clean, token), <<>>, path)

CleanPath(path) ==
  LET clean == Collapse(path)
  IN  IF clean # <<>> /\ Last(clean) = Slash /\ clean # <<Slash>> THEN Front(clean) ELSE clean

(* Mutant: the slash at the end stays. *)
MatcherPathKept(path) ==
  LET start == path # <<>> /\ Head(path) = Slash
  IN  IF path = <<Slash>> THEN path ELSE IF start THEN Tail(path) ELSE path

(* HTTPPathMatcher.cleanPath: the first backslashes are replaced, and a     *)
(* slash at either end is cut off; of "/", substring(1, 0) is "/".          *)
MatcherPath(path) ==
  LET first == SelectInSeq(path, LAMBDA token : token = Backslash)
      p     == IF first = 0 THEN path ELSE ReplaceAt(path, first, Slash)
      start == IF p # <<>> /\ Head(p) = Slash THEN 2 ELSE 1
      end   == IF p # <<>> /\ Last(p) = Slash THEN Len(p) - 1 ELSE Len(p)
  IN  IF p = <<Slash>> THEN p ELSE SubSeq(p, start, end)

(* fromPath refuses a parameter used twice or reserved, and '*' but at the  *)
(* end.  The expression is the pattern, token by token.                     *)
Accepted(expression) ==
  \A i \in DOMAIN expression :
    /\ expression[i] = Star => i = Len(expression)
    /\ expression[i] \notin Reserved
    /\ expression[i] \in Params => \A j \in 1..(i - 1) : expression[j] # expression[i]

TokenMatches(pattern, token) ==
  IF pattern \in Params THEN token \in Words ELSE pattern = token

(* Mutant: a pattern matches all that begins with it. *)
MatchesPrefix(expression, path) ==
  LET fixed == SelectSeq(expression, LAMBDA token : token # Star)
  IN  /\ Len(path) >= Len(fixed)
      /\ \A i \in DOMAIN fixed : TokenMatches(fixed[i], path[i])

(* The regular expression, anchored at both ends; '*' takes what is left.   *)
Matches(expression, path) ==
  LET fixed == SelectSeq(expression, LAMBDA token : token # Star)
  IN  /\ Len(path) >= Len(fixed)
      /\ fixed = expression => Len(path) = Len(fixed)
      /\ \A i \in DOMAIN fixed : TokenMatches(fixed[i], path[i])

Parameters(expression, path) ==
  {<<expression[i], path[i]>> : i \in {j \in DOMAIN expression : expression[j] \in Params}}

HasStar(expression) == expression # <<>> /\ Last(expression) = Star

Remainder(expression, path) ==
  IF HasStar(expression) THEN SubSeq(path, Len(expression), Len(path)) ELSE <<>>

Segments(path) == SelectSeq(path, LAMBDA token : token # Slash)

--------------------------------------------------------------------------------
(* What a flat table would do: the reference the router is held against.    *)

(* The segments of a pattern, and what may follow them: nothing, something  *)
(* ("some"; also nothing where there are no segments), or an empty rest.    *)
Absolute(expression) ==
  [segments |-> SelectSeq(Segments(expression), LAMBDA token : token # Star),
   rest |-> IF HasStar(expression) THEN "some" ELSE "none"]

(* A pattern in a router that is mounted at a pattern.  Below a prefix the  *)
(* "/" of a nested router is never reached; without '*' only its "*" is.    *)
Mount(at, pattern) ==
  IF at.rest = "some"
  THEN IF pattern = [segments |-> <<>>, rest |-> "none"] /\ at.segments # <<>> THEN {}
       ELSE {[pattern EXCEPT !.segments = at.segments \o @]}
  ELSE IF pattern = [segments |-> <<>>, rest |-> "some"]
       THEN {[segments |-> at.segments, rest |-> "empty"]} ELSE {}

Method(registered, method) ==
  registered \in {AnyMethod, method} \/ (registered = "GET" /\ method = "HEAD")

Flat(router, method) ==
  LET Entry(element, i) ==
        [at |-> <<i>>, patterns |-> {Absolute(element.expression)},
         parameters |-> SelectSeq(Segments(element.expression), LAMBDA token : token # Star)]
      Under(element, i, entry) ==
        [entry EXCEPT !.at = <<i>> \o @,
                      !.patterns = UNION {Mount(Absolute(element.expression), p) : p \in @}]
      flat[r \in Routers] ==
        FlattenSeq([i \in DOMAIN elements[r] |->
          LET element == elements[r][i]
          IN  IF ~Method(element.method, method) THEN <<>>
              ELSE IF element.handler \in Routers
              THEN [j \in DOMAIN flat[element.handler] |->
                      Under(element, i, flat[element.handler][j])]
              ELSE <<Entry(element, i)>>])
  IN  flat[router]

PatternMatches(pattern, segments) ==
  /\ Len(segments) >= Len(pattern.segments)
  /\ \A i \in DOMAIN pattern.segments : TokenMatches(pattern.segments[i], segments[i])
  /\ IF pattern.rest = "some" THEN pattern.segments # <<>> => Len(segments) > Len(pattern.segments)
     ELSE Len(segments) = Len(pattern.segments)

(* The calls a request with these segments is to make of a router's table.  *)
Calls(router, method, segments) ==
  LET matching == SelectSeq(Flat(router, method), LAMBDA entry :
                    \E p \in entry.patterns : PatternMatches(p, segments))
      Call(entry) ==
        LET p == CHOOSE q \in entry.patterns : TRUE
            n == Len(p.segments)
            own == entry.parameters
            before == n - Len(own)
        IN  [router |-> router, at |-> entry.at,
             parameters |-> {<<own[i], segments[before + i]>> :
                               i \in {j \in DOMAIN own : own[j] \in Params}},
             rest |-> IF p.rest = "none" THEN NoRemainder ELSE SubSeq(segments, n + 1, Len(segments))]
  IN  [i \in DOMAIN matching |-> Call(matching[i])]

--------------------------------------------------------------------------------
Init ==
  /\ elements = [r \in Routers |-> <<>>] /\ registrations = 0
  /\ requests = 0
  /\ request \in Requests
  /\ phase = "exhausted"
  /\ frames = <<>> /\ callback = AnyMethod
  /\ called = <<>> /\ expected = <<>>

(* register, which pushes an element for every handler or throws. *)
Register ==
  /\ phase # "scan"
  /\ registrations < MaxRegistrations
  /\ registrations' = registrations + 1
  /\ \E reg \in Registrations :
       LET expression == MatcherPath(reg.path)
           added == [i \in DOMAIN reg.handlers |->
                       [method |-> reg.method, expression |-> expression,
                        handler |-> reg.handlers[i]]]
       IN  elements' = IF Accepted(expression)
                       THEN [elements EXCEPT ![reg.router] = @ \o added] ELSE elements
  /\ UNCHANGED dispatch

Frame(router, path) == [router |-> router, path |-> path, next |-> 1]

(* handle of the server's router. *)
Handle ==
  /\ phase \in {"exhausted", "stopped"}
  /\ requests < MaxRequests
  /\ requests' = requests + 1
  /\ request' \in Requests
  /\ phase' = "scan"
  /\ frames' = <<Frame(Root, CleanPath(request'.path))>>
  /\ called' = <<>>
  /\ expected' = Calls(Root, request'.method, Segments(request'.path))
  /\ UNCHANGED <<table, callback>>

Top == Last(frames)
HasElement == phase = "scan" /\ Top.next <= Len(elements[Top.router])
Element == elements[Top.router][Top.next]
Path == MatcherPath(Top.path)

(* Mutant: HEAD is answered by what was registered for HEAD only. *)
MethodMatchesStrict(registered) == registered \in {AnyMethod, request.method}

MethodMatches(registered) ==
  \/ registered = AnyMethod
  \/ registered = request.method
  \/ registered = "GET" /\ request.method = "HEAD"

Applies == MethodMatches(Element.method) /\ Matches(Element.expression, Path)

Advanced == [frames EXCEPT ![Len(frames)].next = @ + 1]

(* The next element does not apply. *)
Skip ==
  /\ HasElement /\ ~Applies
  /\ frames' = Advanced
  /\ UNCHANGED <<table, requests, request, phase, callback, called, expected>>

(* It is a router: its matches first, of what remains of the path. *)
Descend ==
  /\ HasElement /\ Applies
  /\ Element.handler \in Routers
  /\ frames' = Append(Advanced, Frame(Element.handler, Remainder(Element.expression, Path)))
  /\ UNCHANGED <<table, requests, request, phase, callback, called, expected>>

ThisCall ==
  [router |-> Head(frames).router,
   at |-> [i \in DOMAIN frames |-> IF i = Len(frames) THEN frames[i].next ELSE frames[i].next - 1],
   parameters |-> Parameters(Element.expression, Path),
   rest |-> IF HasStar(Element.expression) THEN Segments(Remainder(Element.expression, Path))
            ELSE NoRemainder]

IsHost(handler) == handler \in Vhosts /\ HostOf[handler] = request.host

(* It is a callback, which is called and awaited. *)
Yield ==
  /\ HasElement /\ Applies
  /\ Element.handler \notin Routers /\ ~IsHost(Element.handler)
  /\ frames' = Advanced
  /\ phase' = "await"
  /\ callback' = Element.handler
  /\ called' = Append(called, ThisCall)
  /\ UNCHANGED <<table, requests, request, expected>>

(* Mutant: the router of a virtual host gets the whole path. *)
VirtualHostWhole ==
  /\ HasElement /\ Applies
  /\ IsHost(Element.handler)
  /\ frames' = <<Frame(RouterOf[Element.handler], CleanPath(request.path))>>
  /\ called' = Append(called, ThisCall)
  /\ expected' = called' \o Calls(RouterOf[Element.handler], request.method,
                                  Segments(Remainder(Element.expression, Path)))
  /\ UNCHANGED <<table, requests, request, phase, callback>>

(* The host is its own: the other router handles what remains of the path,  *)
(* and whatever comes of that this one does not go on.                      *)
VirtualHost ==
  /\ HasElement /\ Applies
  /\ IsHost(Element.handler)
  /\ frames' = <<Frame(RouterOf[Element.handler], CleanPath(Remainder(Element.expression, Path)))>>
  /\ called' = Append(called, ThisCall)
  /\ expected' = called' \o Calls(RouterOf[Element.handler], request.method,
                                  Segments(Remainder(Element.expression, Path)))
  /\ UNCHANGED <<table, requests, request, phase, callback>>

(* Mutant: the loop over the matches of a nested router is not left. *)
ExhaustRoot ==
  /\ phase = "scan" /\ ~HasElement
  /\ Len(frames) = 1
  /\ frames' = <<>>
  /\ phase' = "exhausted"
  /\ UNCHANGED <<table, requests, request, callback, called, expected>>

(* A table has no more elements: back to the router it is mounted in.       *)
Exhaust ==
  /\ phase = "scan" /\ ~HasElement
  /\ frames' = Front(frames)
  /\ phase' = IF Len(frames) = 1 THEN "exhausted" ELSE "scan"
  /\ UNCHANGED <<table, requests, request, callback, called, expected>>

(* The callback resolves: true for the next one; false, or a rejection, is  *)
(* the end.  A virtual host that is not meant says true.                    *)
Continue ==
  /\ phase = "await"
  /\ phase' = "scan"
  /\ UNCHANGED <<table, requests, request, frames, callback, called, expected>>

(* Mutant: the generator is left where it is. *)
StopInPlace ==
  /\ phase = "await" /\ callback \in Callbacks
  /\ phase' = "stopped"
  /\ UNCHANGED <<table, requests, request, frames, callback, called, expected>>

Stop ==
  /\ phase = "await" /\ callback \in Callbacks
  /\ phase' = "stopped"
  /\ frames' = <<>>
  /\ UNCHANGED <<table, requests, request, callback, called, expected>>

Scan == Skip \/ Descend \/ Yield \/ VirtualHost \/ Exhaust

Next == Register \/ Handle \/ Scan \/ Continue \/ Stop

Spec == Init /\ [][Next]_vars

(* The scan is not interrupted, and callbacks resolve. *)
FairSpec == Spec /\ WF_vars(Scan) /\ WF_vars(Continue \/ Stop)

--------------------------------------------------------------------------------
RouterElement == [method : {AnyMethod} \cup STRING, expression : Seq(STRING),
             handler : Routers \cup Callbacks \cup Vhosts]

TypeOK ==
  /\ \A r \in Routers : \A i \in DOMAIN elements[r] : elements[r][i] \in RouterElement
  /\ registrations \in 0..MaxRegistrations /\ requests \in 0..MaxRequests
  /\ request \in Requests
  /\ phase \in {"scan", "await", "exhausted", "stopped"}
  /\ frames = <<>> <=> phase \in {"exhausted", "stopped"}
  /\ \A i \in DOMAIN frames : frames[i].router \in Routers /\ frames[i].next \in Nat \ {0}
  /\ callback \in {AnyMethod} \cup Callbacks \cup Vhosts

(* The segments a call's router was given: of the request, or what a        *)
(* virtual host left of them.                                               *)
SegmentsOf(call) ==
  IF call.router = Root THEN Segments(request.path)
  ELSE LET host == called[SelectLastInSeq(called, LAMBDA c : c.router = Root)]
       IN  IF host.rest = NoRemainder THEN <<>> ELSE host.rest

NoBackslash == Backslash \notin ToSet(request.path)

(* Every callback that was registered when a request came and matches it    *)
(* is called, in the order of registration, nested routers included, with   *)
(* its parameters and its remainder, until one of them ends it: as if there *)
(* were one flat table (simple-router.ts:249-328, path-matcher.ts:66-156).  *)
CallsInOrder ==
  NoBackslash =>
    LET known == SelectSeq(called, LAMBDA c : \E i \in DOMAIN expected : expected[i] = c)
    IN  /\ IsPrefix(known, expected)
        /\ phase = "exhausted" => known = expected

(* No callback is called that does not match, with other parameters than    *)
(* those of its segments, or twice for one registration.                    *)
CallsOnlyMatching ==
  NoBackslash =>
    \A i \in DOMAIN called :
      /\ called[i] \in ToSet(Calls(called[i].router, request.method, SegmentsOf(called[i])))
      /\ \A j \in 1..(i - 1) : called[j] # called[i]

(* What was registered with a router while it waited for a callback is      *)
(* called for the same request (simple-router.ts:253, 320).                 *)
SeesNewRoutes ==
  [][(NoBackslash /\ phase = "scan" /\ phase' = "exhausted" /\ Top.router = Root) =>
       \A call \in ToSet(Calls(Root, request.method, Segments(request.path))) :
         Len(call.at) = 1 => call \in ToSet(called)]_vars

(* Every request comes to an end. *)
RequestsEnd == phase = "scan" ~> phase \in {"exhausted", "stopped"}
================================================================================
