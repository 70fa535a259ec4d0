----------------------------- MODULE ResponseCache -----------------------------
(***************************************************************************)
(* useCache, src/middleware/cache.ts, and the map it keeps, src/misc/      *)
(* memory-cache.ts, around the responses of a connection.  The call "raw"  *)
(* of a route is useCache: a miss listens for the status and the headers   *)
(* and records the framed body in a raw transform; a hit writes what was   *)
(* recorded and ends the route.                                            *)
(*                                                                         *)
(* The cache is shared with the other connections of the server, which     *)
(* record what this one records (Elsewhere).                               *)
(***************************************************************************)
EXTENDS HTTPResponse

CONSTANTS
  RequestOf,     \* the request of each route: [path, search, hash, encoding]
  NoPart,        \* a search, hash or Accept-Encoding that is not there
  UniqueSearch,  \* options.uniqueSearch
  UniqueHash,    \* options.uniqueHash
  TTL            \* options.ttl

ASSUME RequestOfAssumption ==
  \A r \in Routes : {"path", "search", "hash", "encoding"} = DOMAIN RequestOf[r]
ASSUME OptionsAssumption == UniqueSearch \in BOOLEAN /\ UniqueHash \in BOOLEAN
ASSUME TTLAssumption == TTL \in Nat \ {0}

VARIABLES
  cache,    \* _map: for each key that is in it what was recorded
  timers,   \* the timeouts that will delete a key: [key, left]
  recorder, \* of each response: "off", "on", "late" (the status was sent), "put"
  chunks,   \* what the raw transform of each response recorded
  replay    \* what the current hit still has to write

cacheVars == <<cache, timers, recorder, chunks, replay>>
allVars == <<vars, cacheVars>>

Nothing == [of |-> CHOOSE r \in Routes : TRUE, headers |-> <<>>, body |-> <<>>]

CacheInit ==
  /\ Init
  /\ cache = <<>> /\ timers = {}
  /\ recorder = [r \in Responses |-> "off"]
  /\ chunks = [r \in Responses |-> <<>>]
  /\ replay = Nothing

--------------------------------------------------------------------------------
(* generateCacheKey: the segments, in their order; the method is not one.   *)
Segment(part) == IF part = NoPart THEN <<>> ELSE <<part>>

(* Mutant: the headers that make a request unique are left out. *)
KeyOfUri(request) ==
  <<request.path>>
    \o (IF UniqueSearch THEN Segment(request.search) ELSE <<>>)
    \o (IF UniqueHash THEN Segment(request.hash) ELSE <<>>)

KeyOf(request) ==
  <<request.path>>
    \o (IF UniqueSearch THEN Segment(request.search) ELSE <<>>)
    \o (IF UniqueHash THEN Segment(request.hash) ELSE <<>>)
    \o Segment(request.encoding)

Key(r) == KeyOf(RequestOf[routes[r]])

UseCache == ~Idle /\ Head(plan) = "raw" /\ state \in Allowed("raw")

(* The listeners and the raw transform. *)
Miss ==
  /\ UseCache
  /\ Key(Current) \notin DOMAIN cache
  /\ AddRawBodyTransform
  /\ recorder' = [recorder EXCEPT ![Current] = IF state = "line" THEN "on" ELSE "late"]
  /\ UNCHANGED <<cache, timers, chunks, replay>>

(* Mutant: the default headers are all there is to a hit. *)
HitWithoutHeaders ==
  /\ UseCache
  /\ Key(Current) \in DOMAIN cache
  /\ replay' = [of |-> cache[Key(Current)].route, headers |-> <<>>,
                body |-> cache[Key(Current)].body]
  /\ plan' = <<"status", "defaults", "endHeaders", "immediate", "endBody">>
  /\ UNCHANGED <<routes, response, streams, wire, socket, cache, timers, recorder, chunks>>

(* What was recorded is written, and no other callback of the route is run; *)
(* a raw transform of the route gets nothing of it.                         *)
Hit ==
  /\ UseCache
  /\ Key(Current) \in DOMAIN cache
  /\ LET entry == cache[Key(Current)]
     IN  /\ replay' = [of |-> entry.route, headers |-> entry.headers, body |-> entry.body]
         /\ plan' = <<"status">> \o [i \in DOMAIN entry.headers |-> "replay"]
                      \o <<"defaults", "endHeaders", "immediate", "endBody">>
  /\ recorder' = [recorder EXCEPT ![Current] = "off"]
  /\ UNCHANGED <<routes, response, streams, wire, socket, cache, timers, chunks>>

Replaying(call) ==
  /\ ~Idle /\ Head(plan) = call
  /\ UNCHANGED <<routes, response, streams, cache, timers, recorder, chunks>>

(* header() with a recorded header, and its write failing. *)
ReplayHeader ==
  /\ Replaying("replay")
  /\ Open
  /\ wire' = Append(wire, [Head(replay.headers) EXCEPT !.who = Current])
  /\ replay' = [replay EXCEPT !.headers = Tail(@)]
  /\ Returns
  /\ UNCHANGED socket

ReplayFails ==
  /\ Replaying("replay")
  /\ ~Open
  /\ plan' = <<>>
  /\ socket' = "destroyed"
  /\ UNCHANGED <<wire, replay>>

(* writeBodyImmediate: of this write no failure is noticed. *)
WriteBodyImmediate ==
  /\ Replaying("immediate")
  /\ state = "body"
  /\ wire' = IF Open THEN wire \o [i \in DOMAIN replay.body |->
                                     [replay.body[i] EXCEPT !.who = Current]]
             ELSE wire
  /\ replay' = [replay EXCEPT !.body = <<>>]
  /\ Returns
  /\ UNCHANGED socket

--------------------------------------------------------------------------------
(* The recording. *)

(* The transform: a chunk is recorded when it is written to it. *)
Record ==
  /\ Flush
  /\ chunks' = IF recorder[Current] \in {"on", "late"}
               THEN [chunks EXCEPT ![Current] = Append(@, Head(framer))] ELSE chunks
  /\ UNCHANGED <<cache, timers, recorder, replay>>

(* The end of the framer has reached the raw transform.                     *)
Streams(r) == Makes(r, "buffered") \/ Makes(r, "streamed")

Ended(r) ==
  IF r = Current THEN eof \in {"framer", "closed"} /\ framer = <<>> ELSE Streams(r)

(* The headers heard, without Date, Server and Connection. *)
Heard(pieces, r, parts) ==
  LET heard[i \in 0..Len(pieces)] ==
        IF i = 0 THEN <<>>
        ELSE IF pieces[i].who = r /\ pieces[i].part \in parts
             THEN Append(heard[i - 1], pieces[i]) ELSE heard[i - 1]
  IN  heard[Len(pieces)]

Intercepted(r) == Heard(wire, r, {"header", "length", "chunked"})

(* Mutant: the timeout of the old entry still runs. *)
PutOver(key, value) ==
  /\ cache' = [k \in DOMAIN cache \cup {key} |-> IF k = key THEN value ELSE cache[k]]
  /\ timers' = timers \cup {[key |-> key, left |-> TTL]}

(* Mutant: the timeout is cleared and no other is set. *)
PutForever(key, value) ==
  /\ cache' = [k \in DOMAIN cache \cup {key} |-> IF k = key THEN value ELSE cache[k]]
  /\ timers' = IF key \in DOMAIN cache THEN {t \in timers : t.key # key}
               ELSE timers \cup {[key |-> key, left |-> TTL]}

(* put: an old timeout is cleared, its entry overwritten. *)
Put(key, value) ==
  /\ cache' = [k \in DOMAIN cache \cup {key} |-> IF k = key THEN value ELSE cache[k]]
  /\ timers' = {t \in timers : t.key # key} \cup {[key |-> key, left |-> TTL]}

Recorded(r) ==
  [route |-> routes[r], headers |-> Intercepted(r), body |-> chunks[r], age |-> 0]

(* Mutant: what was recorded is stored when the body ends, and not when all *)
(* of it has reached the raw transform.                                     *)
FinalEarly(r) ==
  /\ recorder[r] = "on"
  /\ r = Current /\ eof # "none"
  /\ Put(Key(r), Recorded(r))
  /\ recorder' = [recorder EXCEPT ![r] = "put"]
  /\ UNCHANGED <<vars, chunks, replay>>

(* The final of the raw transform; "late" it only logs an error. *)
RawFinal(r) ==
  /\ recorder[r] = "on"
  /\ r <= Current /\ Ended(r)
  /\ Put(Key(r), Recorded(r))
  /\ recorder' = [recorder EXCEPT ![r] = "put"]
  /\ UNCHANGED <<vars, chunks, replay>>

Elsewhere(r) ==
  /\ recorder[r] = "put"
  /\ Put(Key(r), Recorded(r))
  /\ UNCHANGED <<vars, recorder, chunks, replay>>

(* A timeout deletes its key, whatever is there. *)
Expire(t) ==
  /\ t.left = 0
  /\ cache' = [k \in DOMAIN cache \ {t.key} |-> cache[k]]
  /\ timers' = timers \ {t}
  /\ UNCHANGED <<vars, recorder, chunks, replay>>

Tick ==
  /\ timers' = {[t EXCEPT !.left = IF @ > 0 THEN @ - 1 ELSE 0] : t \in timers}
  /\ cache' = [k \in DOMAIN cache |->
                 [cache[k] EXCEPT !.age = IF @ < TTL THEN @ + 1 ELSE TTL]]
  /\ UNCHANGED <<vars, recorder, chunks, replay>>

--------------------------------------------------------------------------------
(* What the routes and the streams do apart from that. *)
Uncached ==
  \/ Begin \/ PeerCloses
  \/ AddBodyTransform \/ Header \/ SetBodySize \/ Status \/ SendBody \/ SendEmptyBody
  \/ Framing \/ EndHeaders \/ EndBody \/ Pipe \/ FramerClosed
  \/ Read \/ SourceEnds \/ Encode \/ EncoderEnds \/ FramerCloses
  \/ Fail
  \/ \E r \in Responses : FlushRaw(r)

Caching ==
  \/ Hit \/ Miss \/ ReplayHeader \/ ReplayFails \/ WriteBodyImmediate \/ Record
  \/ \E r \in Responses : RawFinal(r) \/ Elsewhere(r)

Expiring(k) == \E t \in timers : t.key = k /\ Expire(t)

Keys == {KeyOf(RequestOf[r]) : r \in Routes}

CacheNext ==
  \/ Uncached /\ UNCHANGED cacheVars
  \/ Caching
  \/ \E k \in Keys : Expiring(k)
  \/ Tick

(* Time passes, and timeouts fire. *)
CacheSpec ==
  /\ CacheInit /\ [][CacheNext]_allVars
  /\ WF_allVars(Tick)
  /\ \A k \in Keys : WF_allVars(Expiring(k))

--------------------------------------------------------------------------------
CacheTypeOK ==
  /\ plan \in Seq(Calls \cup {"replay", "immediate"})
  /\ DOMAIN cache \subseteq Keys
  /\ \A k \in DOMAIN cache :
       cache[k] \in [route : Routes, headers : Seq(Piece), body : Seq(Piece), age : 0..TTL]
  /\ timers \subseteq [key : Keys, left : 0..TTL]
  /\ \A k \in Keys : Cardinality({t \in timers : t.key = k}) = IF k \in DOMAIN cache THEN 1 ELSE 0
  /\ recorder \in [Responses -> {"off", "on", "late", "put"}]
  /\ chunks \in [Responses -> Seq(Piece)]
  /\ replay \in [of : Routes, headers : Seq(Piece), body : Seq(Piece)]

(* A route whose body a client can tell the end of: its size is the one     *)
(* that is said, and an empty chunk is transformed.                         *)
Does(route, call) == \E i \in 1..Len(route.calls) : route.calls[i] = call

Transforms(route) ==
  \E i \in 1..Len(route.calls) : route.calls[i] = "transform" /\ InTime(route.calls, i)

Sound(route) ==
  /\ (Does(route, "buffered") \/ Does(route, "size")) => route.size = Total(route.chunks)
  /\ (\E i \in 1..Len(route.chunks) : route.chunks[i] = 0) => Transforms(route)

Units(route) == Total(route.chunks) + (IF Transforms(route) THEN 1 ELSE 0)

(* The headers a route sets, and those of them it sets before useCache. *)
Headers(route) == Cardinality({i \in 1..Len(route.calls) : Sets(route.calls, i)})

HeadersBefore(route) ==
  Cardinality({i \in 1..Len(route.calls) :
                 /\ route.calls[i] \in {"header", "defaults"}
                 /\ \A j \in 1..i : route.calls[j] # "raw"})

HeaderPieces(pieces) == Cardinality({i \in 1..Len(pieces) : pieces[i].part = "header"})

Part(part) == <<[who |-> 1, part |-> part, n |-> 0]>>

(* What is in the cache is always a whole response: all the headers of the  *)
(* route, and a body that ends where they say it does (cache.ts:171-256).   *)
EntriesWhole ==
  \A k \in DOMAIN cache :
    LET entry  == cache[k]
        client == Reads(Part("status") \o entry.headers \o Part("blank") \o entry.body, {})
    IN  /\ HeaderPieces(entry.headers) = Headers(entry.route)
        /\ Sound(entry.route) => client.mode = "status" /\ client.got = Units(entry.route)

(* A hit, read by itself, is a whole response, that of the route that was   *)
(* recorded; but the headers a middleware set before useCache are in it     *)
(* twice, and what answers HEAD has a body (cache.ts:143-156).              *)
HitsComplete ==
  (Idle /\ Open /\ Current > 0 /\ Makes(Current, "raw") /\ ~raw /\ state = "finished") =>
    LET own    == Heard(wire, Current, Parts)
        client == Reads(own, {})
    IN  /\ HeaderPieces(own) =
             Headers(replay.of) + HeadersBefore(routes[Current])
        /\ Sound(replay.of) => client.mode = "status" /\ client.got = Units(replay.of)

(* A segment says which header it is of, and so nobody takes it for a       *)
(* search or a hash, unless these are made to look like it.                 *)
EncodingsApart ==
  \A r, q \in Routes :
    RequestOf[r].encoding # NoPart =>
      RequestOf[r].encoding \notin {RequestOf[q].search, RequestOf[q].hash}

(* A hit answers a request with the response to one that is equal in all    *)
(* the options name, but for a search that looks like a hash.  The method   *)
(* is not among what the code compares (cache.ts:48-89, 126-158).           *)
HitsMatch ==
  [][Hit =>
       LET this == RequestOf[routes[Current]]
           that == RequestOf[replay'.of]
       IN  /\ this.path = that.path /\ this.encoding = that.encoding
           /\ \/ /\ UniqueSearch => this.search = that.search
                 /\ UniqueHash => this.hash = that.hash
              \/ this.search = that.hash \/ this.hash = that.search]_allVars

(* An entry is deleted only after it has been in the cache for its whole    *)
(* time to live, however often its key was put again (memory-cache.ts:57).  *)
LivesItsTime ==
  [][\A k \in DOMAIN cache : k \notin DOMAIN cache' => cache[k].age = TTL]_allVars

(* No entry stays for ever: it is deleted or overwritten                    *)
(* (memory-cache.ts:51-54).                                                 *)
EntriesEnd ==
  \A k \in Keys :
    (k \in DOMAIN cache /\ cache[k].age = TTL)
      ~> (k \notin DOMAIN cache \/ cache[k].age < TTL)
================================================================================
