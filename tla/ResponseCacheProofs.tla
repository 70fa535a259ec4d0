-------------------------- MODULE ResponseCacheProofs --------------------------
(***************************************************************************)
(* An entry of the cache, the timeout that will delete it, the request     *)
(* that it may answer, and the types of what is recorded and replayed.     *)
(***************************************************************************)
EXTENDS ResponseCache, HTTPResponseProofs

IsTimeout(t) == t = [key |-> t.key, left |-> t.left] /\ t.left \in 0..TTL

IsEntry(e) ==
  e = [route |-> e.route, headers |-> e.headers, body |-> e.body, age |-> e.age]

(* Each entry has one timeout, and how long it has been there and how much  *)
(* is left of its timeout make its time to live.                            *)
TimeoutsMatch ==
  /\ \A t \in timers : IsTimeout(t)
  /\ \A t, u \in timers : t.key = u.key => t = u
  /\ \A k \in DOMAIN cache : \E t \in timers : t.key = k
  /\ \A t \in timers : t.key \in DOMAIN cache /\ cache[t.key].age = TTL - t.left
  /\ \A k \in DOMAIN cache : IsEntry(cache[k])

(* put keeps it, whatever was there before (memory-cache.ts:57-94). *)
LEMMA PutMatches ==
  ASSUME TimeoutsMatch, NEW key, NEW value, IsEntry(value), value.age = 0,
         Put(key, value)
  PROVE  TimeoutsMatch'
<1> DEFINE new == [key |-> key, left |-> TTL]
<1>1. DOMAIN cache' = DOMAIN cache \cup {key}
  BY DEF Put
<1>2. timers' = {t \in timers : t.key # key} \cup {new}
  BY DEF Put
<1>3. /\ cache'[key] = value
      /\ \A k \in DOMAIN cache : k # key => cache'[k] = cache[k]
  BY DEF Put
<1>4. IsTimeout(new)
  BY TTLAssumption DEF IsTimeout
<1>5. \A t \in timers' : IsTimeout(t)
  BY <1>2, <1>4 DEF TimeoutsMatch, IsTimeout
<1>6. \A t, u \in timers' : t.key = u.key => t = u
  BY <1>2 DEF TimeoutsMatch
<1>7. \A k \in DOMAIN cache' : \E t \in timers' : t.key = k
  <2>1. new \in timers' /\ new.key = key
    BY <1>2
  <2>2. ASSUME NEW k \in DOMAIN cache, k # key
        PROVE  \E t \in timers' : t.key = k
    <3>1. PICK t \in timers : t.key = k
      BY DEF TimeoutsMatch
    <3>2. t \in timers'
      BY <1>2, <2>2, <3>1
    <3> QED
      BY <3>1, <3>2
  <2> QED
    BY <1>1, <2>1, <2>2
<1>8. \A t \in timers' : t.key \in DOMAIN cache' /\ cache'[t.key].age = TTL - t.left
  BY <1>1, <1>2, <1>3, TTLAssumption DEF TimeoutsMatch
<1>9. \A k \in DOMAIN cache' : IsEntry(cache'[k])
  BY <1>1, <1>3 DEF TimeoutsMatch, IsEntry
<1> QED
  BY <1>5, <1>6, <1>7, <1>8, <1>9 DEF TimeoutsMatch, IsTimeout, IsEntry

(* What is recorded is a new entry. *)
LEMMA RecordedIsNew ==
  ASSUME NEW r
  PROVE  IsEntry(Recorded(r)) /\ Recorded(r).age = 0
  BY DEF IsEntry, Recorded

(* A timeout that is over takes its own entry away, and no other. *)
LEMMA ExpireMatches ==
  ASSUME TimeoutsMatch, NEW t \in timers, Expire(t)
  PROVE  TimeoutsMatch'
<1>1. DOMAIN cache' = DOMAIN cache \ {t.key}
  BY DEF Expire
<1>2. \A k \in DOMAIN cache' : cache'[k] = cache[k]
  BY DEF Expire
<1>3. timers' = timers \ {t}
  BY DEF Expire
<1>4. \A u \in timers' : u.key # t.key
  BY <1>3 DEF TimeoutsMatch
<1> QED
  BY <1>1, <1>2, <1>3, <1>4 DEF TimeoutsMatch, IsTimeout, IsEntry

(* What is left and the age add up to the time to live also after a tick. *)
LEMMA LeftDecreases ==
  ASSUME NEW left \in 0..TTL
  PROVE  LET less == IF left > 0 THEN left - 1 ELSE 0
             age  == TTL - left
         IN  /\ less \in 0..TTL
             /\ (IF age < TTL THEN age + 1 ELSE TTL) = TTL - less
  BY TTLAssumption

(* Time passes for both. *)
LEMMA TickMatches ==
  ASSUME TimeoutsMatch, Tick
  PROVE  TimeoutsMatch'
<1> DEFINE less(t) == IF t.left > 0 THEN t.left - 1 ELSE 0
           later(t) == [t EXCEPT !.left = IF @ > 0 THEN @ - 1 ELSE 0]
           older(e) == [e EXCEPT !.age = IF @ < TTL THEN @ + 1 ELSE TTL]
<1>1. timers' = {later(t) : t \in timers}
  BY DEF Tick
<1>2. /\ DOMAIN cache' = DOMAIN cache
      /\ \A k \in DOMAIN cache : cache'[k] = older(cache[k])
  BY DEF Tick
<1>3. \A t \in timers : later(t) = [key |-> t.key, left |-> less(t)]
  BY DEF TimeoutsMatch, IsTimeout
<1>4. \A k \in DOMAIN cache :
        /\ IsEntry(cache'[k])
        /\ cache'[k].age = IF cache[k].age < TTL THEN cache[k].age + 1 ELSE TTL
  <2> SUFFICES ASSUME NEW k \in DOMAIN cache
               PROVE  /\ IsEntry(cache'[k])
                      /\ cache'[k].age = IF cache[k].age < TTL THEN cache[k].age + 1 ELSE TTL
    OBVIOUS
  <2> DEFINE age == IF cache[k].age < TTL THEN cache[k].age + 1 ELSE TTL
  <2>1. cache[k] = [route |-> cache[k].route, headers |-> cache[k].headers,
                    body |-> cache[k].body, age |-> cache[k].age]
    BY DEF TimeoutsMatch, IsEntry
  <2>2. cache'[k] = [cache[k] EXCEPT !.age = age]
    BY <1>2
  <2>3. cache'[k] = [route |-> cache[k].route, headers |-> cache[k].headers,
                     body |-> cache[k].body, age |-> age]
    BY <2>1, <2>2
  <2> QED
    BY <2>3 DEF IsEntry
<1>5. \A t \in timers : less(t) \in 0..TTL
  BY LeftDecreases DEF TimeoutsMatch, IsTimeout
<1>6. \A t \in timers' : IsTimeout(t)
  <2> SUFFICES ASSUME NEW t \in timers PROVE IsTimeout(later(t))
    BY <1>1
  <2>1. later(t) = [key |-> t.key, left |-> less(t)] /\ less(t) \in 0..TTL
    BY <1>3, <1>5
  <2> HIDE DEF later, less
  <2> QED
    BY <2>1 DEF IsTimeout
<1>7. \A t, u \in timers' : t.key = u.key => t = u
  <2> SUFFICES ASSUME NEW x \in timers', NEW y \in timers', x.key = y.key
               PROVE  x = y
    OBVIOUS
  <2>1. PICK t \in timers : x = later(t)
    BY <1>1
  <2>2. PICK u \in timers : y = later(u)
    BY <1>1
  <2>3. x.key = t.key /\ y.key = u.key
    BY <1>3, <2>1, <2>2
  <2> QED
    BY <2>1, <2>2, <2>3 DEF TimeoutsMatch
<1>8. \A k \in DOMAIN cache' : \E t \in timers' : t.key = k
  <2> SUFFICES ASSUME NEW k \in DOMAIN cache
               PROVE  \E t \in timers' : t.key = k
    BY <1>2
  <2>1. PICK t \in timers : t.key = k
    BY DEF TimeoutsMatch
  <2>2. later(t) \in timers' /\ later(t).key = k
    BY <1>1, <1>3, <2>1
  <2> QED
    BY <2>2
<1>9. \A t \in timers' : t.key \in DOMAIN cache' /\ cache'[t.key].age = TTL - t.left
  <2> SUFFICES ASSUME NEW t \in timers
               PROVE  /\ later(t).key \in DOMAIN cache'
                      /\ cache'[later(t).key].age = TTL - later(t).left
    BY <1>1
  <2>1. t.key \in DOMAIN cache /\ cache[t.key].age = TTL - t.left /\ t.left \in 0..TTL
    BY DEF TimeoutsMatch, IsTimeout
  <2>2. cache'[t.key].age = TTL - less(t)
    BY <1>4, <2>1, LeftDecreases
  <2> QED
    BY <1>2, <1>3, <2>1, <2>2
<1> QED
  BY <1>2, <1>4, <1>6, <1>7, <1>8, <1>9 DEF TimeoutsMatch, IsTimeout, IsEntry

(* The steps of a response and of a hit leave the cache alone. *)
LEMMA OthersKeep ==
  ASSUME (Uncached /\ UNCHANGED cacheVars) \/ Hit \/ Miss \/ ReplayHeader
           \/ ReplayFails \/ WriteBodyImmediate \/ Record \/ UNCHANGED allVars
  PROVE  UNCHANGED <<cache, timers>>
  BY DEF cacheVars, allVars, Hit, Miss, ReplayHeader, ReplayFails,
         WriteBodyImmediate, Replaying, Record

(* A step that leaves entries and timeouts alone keeps it. *)
LEMMA SameMatches ==
  ASSUME TimeoutsMatch, UNCHANGED <<cache, timers>>
  PROVE  TimeoutsMatch'
  BY DEF TimeoutsMatch, IsTimeout, IsEntry

(* It holds of an empty cache. *)
LEMMA InitMatches ==
  ASSUME CacheInit
  PROVE  TimeoutsMatch
  BY DEF CacheInit, TimeoutsMatch

(* TimeoutsMatch is inductive. *)
LEMMA NextMatches ==
  ASSUME TimeoutsMatch, [CacheNext]_allVars
  PROVE  TimeoutsMatch'
<1>1. ASSUME NEW r \in Responses, RawFinal(r) \/ Elsewhere(r)
      PROVE  TimeoutsMatch'
  BY <1>1, PutMatches, RecordedIsNew DEF RawFinal, Elsewhere
<1>2. ASSUME NEW k \in Keys, Expiring(k)
      PROVE  TimeoutsMatch'
  BY <1>2, ExpireMatches DEF Expiring
<1>3. CASE Tick
  BY <1>3, TickMatches
<1>4. CASE (Uncached /\ UNCHANGED cacheVars) \/ Hit \/ Miss \/ ReplayHeader
             \/ ReplayFails \/ WriteBodyImmediate \/ Record \/ UNCHANGED allVars
  BY <1>4, OthersKeep, SameMatches
<1> QED
  BY <1>1, <1>2, <1>3, <1>4 DEF CacheNext, Caching

(* At every moment each entry of the cache has one timeout, which goes off  *)
(* when the entry has been there for its time to live (memory-cache.ts).    *)
THEOREM TimeoutsMatchCorrect == CacheSpec => []TimeoutsMatch
<1>1. CacheInit => TimeoutsMatch
  BY InitMatches
<1>2. TimeoutsMatch /\ [CacheNext]_allVars => TimeoutsMatch'
  BY NextMatches
<1> QED
  BY <1>1, <1>2, PTL DEF CacheSpec

(* put never takes an entry away. *)
LEMMA PutKeeps ==
  ASSUME NEW key, NEW value, Put(key, value)
  PROVE  DOMAIN cache \subseteq DOMAIN cache'
  BY DEF Put

(* No entry is deleted before its time, however often it was put again and  *)
(* whatever its connections do (memory-cache.ts:57-94).                     *)
THEOREM LivesItsTimeCorrect == CacheSpec => LivesItsTime
<1> DEFINE StaysItsTime == \A k \in DOMAIN cache : k \notin DOMAIN cache' => cache[k].age = TTL
<1>1. TimeoutsMatch /\ [CacheNext]_allVars => [StaysItsTime]_allVars
  <2> SUFFICES ASSUME TimeoutsMatch, [CacheNext]_allVars
               PROVE  StaysItsTime
    OBVIOUS
  <2>1. ASSUME NEW r \in Responses, RawFinal(r) \/ Elsewhere(r)
        PROVE  StaysItsTime
    BY <2>1, PutKeeps DEF RawFinal, Elsewhere
  <2>2. ASSUME NEW k \in Keys, Expiring(k)
        PROVE  StaysItsTime
    <3>1. PICK t \in timers : Expire(t)
      BY <2>2 DEF Expiring
    <3>2. t.left = 0 /\ DOMAIN cache' = DOMAIN cache \ {t.key}
      BY <3>1 DEF Expire
    <3>3. cache[t.key].age = TTL
      BY <3>2, TTLAssumption DEF TimeoutsMatch
    <3> QED
      BY <3>2, <3>3
  <2>3. CASE Tick
    BY <2>3 DEF Tick
  <2>4. CASE (Uncached /\ UNCHANGED cacheVars) \/ Hit \/ Miss \/ ReplayHeader
               \/ ReplayFails \/ WriteBodyImmediate \/ Record \/ UNCHANGED allVars
    BY <2>4, OthersKeep
  <2> QED
    BY <2>1, <2>2, <2>3, <2>4 DEF CacheNext, Caching
<1> QED
  BY <1>1, TimeoutsMatchCorrect, PTL DEF CacheSpec, LivesItsTime

--------------------------------------------------------------------------------
(* The parts of a request that its key has after the path.                  *)
SearchOf(request) == IF UniqueSearch THEN request.search ELSE NoPart

HashOf(request) == IF UniqueHash THEN request.hash ELSE NoPart

(* How many segments a part is. *)
Count(part) == IF part = NoPart THEN 0 ELSE 1

(* What a segment adds to a key: itself, at its end, if it is there.        *)
LEMMA SegmentIs ==
  ASSUME NEW S, NEW s \in Seq(S), NEW part \in S
  PROVE  /\ s \o Segment(part) \in Seq(S)
         /\ Len(s \o Segment(part)) = Len(s) + Count(part)
         /\ \A i \in 1..Len(s) : (s \o Segment(part))[i] = s[i]
         /\ part # NoPart => (s \o Segment(part))[Len(s) + 1] = part
<1>1. CASE part = NoPart
  BY <1>1 DEF Segment, Count
<1>2. CASE part # NoPart
  <2>1. Segment(part) = <<part>> /\ Count(part) = 1
    BY <1>2 DEF Segment, Count
  <2>2. s \o <<part>> = Append(s, part)
    OBVIOUS
  <2> QED
    BY <1>2, <2>1, <2>2
<1> QED
  BY <1>1, <1>2

(* Where the parts of a request are in its key. *)
LEMMA KeyIs ==
  ASSUME NEW request
  PROVE  LET key == KeyOf(request)
             s == SearchOf(request)
             h == HashOf(request)
             e == request.encoding
         IN  /\ Len(key) = 1 + Count(s) + Count(h) + Count(e)
             /\ key[1] = request.path
             /\ s # NoPart => key[2] = s
             /\ h # NoPart => key[2 + Count(s)] = h
             /\ e # NoPart => key[2 + Count(s) + Count(h)] = e
<1>1. PICK p, s, h, e :
        p = request.path /\ s = SearchOf(request) /\ h = HashOf(request) /\ e = request.encoding
  OBVIOUS
<1>2. PICK S : S = {p, s, h, e}
  OBVIOUS
<1>3. PICK k1 \in Seq(S) : k1 = <<p>> /\ Len(k1) = 1 /\ k1[1] = p
  <2>1. <<p>> \in Seq(S)
    BY <1>2
  <2> QED
    BY <2>1
<1>4. PICK k2 \in Seq(S) :
        /\ k2 = k1 \o Segment(s) /\ Len(k2) = 1 + Count(s) /\ k2[1] = p
        /\ s # NoPart => k2[2] = s
  <2>1. s \in S /\ 1 \in 1..Len(k1)
    BY <1>2, <1>3
  <2>2. /\ k1 \o Segment(s) \in Seq(S)
        /\ Len(k1 \o Segment(s)) = Len(k1) + Count(s)
        /\ \A i \in 1..Len(k1) : (k1 \o Segment(s))[i] = k1[i]
        /\ s # NoPart => (k1 \o Segment(s))[Len(k1) + 1] = s
    BY <2>1, SegmentIs
  <2>3. PICK k : k = k1 \o Segment(s)
    OBVIOUS
  <2>4. k \in Seq(S) /\ Len(k) = 1 + Count(s) /\ (s # NoPart => k[2] = s)
    <3>1. Len(k1) + 1 = 2
      BY <1>3
    <3> QED
      BY <1>3, <2>2, <2>3, <3>1
  <2>5. k[1] = p
    BY <1>3, <2>1, <2>2, <2>3
  <2> QED
    BY <2>3, <2>4, <2>5
<1>5. PICK k3 \in Seq(S) :
        /\ k3 = k2 \o Segment(h) /\ Len(k3) = 1 + Count(s) + Count(h)
        /\ \A i \in 1..Len(k2) : k3[i] = k2[i]
        /\ h # NoPart => k3[Len(k2) + 1] = h
  <2>1. h \in S
    BY <1>2
  <2>2. /\ k2 \o Segment(h) \in Seq(S)
        /\ Len(k2 \o Segment(h)) = Len(k2) + Count(h)
        /\ \A i \in 1..Len(k2) : (k2 \o Segment(h))[i] = k2[i]
        /\ h # NoPart => (k2 \o Segment(h))[Len(k2) + 1] = h
    BY <2>1, SegmentIs
  <2>3. PICK k : k = k2 \o Segment(h)
    OBVIOUS
  <2> QED
    BY <1>4, <2>2, <2>3
<1>6. PICK k4 \in Seq(S) :
        /\ k4 = k3 \o Segment(e) /\ Len(k4) = 1 + Count(s) + Count(h) + Count(e)
        /\ \A i \in 1..Len(k3) : k4[i] = k3[i]
        /\ e # NoPart => k4[Len(k3) + 1] = e
  <2>1. e \in S
    BY <1>2
  <2>2. /\ k3 \o Segment(e) \in Seq(S)
        /\ Len(k3 \o Segment(e)) = Len(k3) + Count(e)
        /\ \A i \in 1..Len(k3) : (k3 \o Segment(e))[i] = k3[i]
        /\ e # NoPart => (k3 \o Segment(e))[Len(k3) + 1] = e
    BY <2>1, SegmentIs
  <2>3. PICK k : k = k3 \o Segment(e)
    OBVIOUS
  <2> QED
    BY <1>5, <2>2, <2>3
<1>7. KeyOf(request) = k4
  <2>1. (IF UniqueSearch THEN Segment(request.search) ELSE <<>>) = Segment(s)
        /\ (IF UniqueHash THEN Segment(request.hash) ELSE <<>>) = Segment(h)
    BY <1>1, OptionsAssumption DEF SearchOf, HashOf, Segment
  <2> QED
    BY <1>1, <1>3, <1>4, <1>5, <1>6, <2>1 DEF KeyOf
<1>8. PICK c \in 0..1, d \in 0..1 :
        /\ c = Count(s) /\ d = Count(h)
        /\ (s # NoPart => c = 1) /\ (h # NoPart => d = 1)
  BY DEF Count
<1>9. Len(k2) = 1 + c /\ Len(k3) = 1 + c + d
  BY <1>4, <1>5, <1>8
<1>10. k3[1] = p /\ (s # NoPart => k3[2] = s) /\ (h # NoPart => k3[2 + c] = h)
  <2>1. 1 \in 1..Len(k2) /\ (s # NoPart => 2 \in 1..Len(k2)) /\ Len(k2) + 1 = 2 + c
    BY <1>8, <1>9
  <2> QED
    BY <1>4, <1>5, <2>1
<1>11. /\ k4[1] = p /\ (s # NoPart => k4[2] = s) /\ (h # NoPart => k4[2 + c] = h)
       /\ e # NoPart => k4[2 + c + d] = e
  <2>1. /\ 1 \in 1..Len(k3) /\ (s # NoPart => 2 \in 1..Len(k3))
        /\ (h # NoPart => 2 + c \in 1..Len(k3)) /\ Len(k3) + 1 = 2 + c + d
    BY <1>8, <1>9
  <2> QED
    BY <1>6, <1>10, <2>1
<1> QED
  BY <1>1, <1>6, <1>7, <1>8, <1>11

(* Requests with one key are equal in all the options name, or the search   *)
(* of one is the hash of the other.                                         *)
LEMMA SameKey ==
  ASSUME EncodingsApart, NEW r \in Routes, NEW q \in Routes,
         KeyOf(RequestOf[r]) = KeyOf(RequestOf[q])
  PROVE  LET this == RequestOf[r]
             that == RequestOf[q]
         IN  /\ this.path = that.path /\ this.encoding = that.encoding
             /\ \/ /\ UniqueSearch => this.search = that.search
                   /\ UniqueHash => this.hash = that.hash
                \/ this.search = that.hash \/ this.hash = that.search
<1>1. PICK a, b : a = RequestOf[r] /\ b = RequestOf[q]
  OBVIOUS
<1>2. /\ a.encoding # NoPart => a.encoding \notin {SearchOf(b), HashOf(b)}
      /\ b.encoding # NoPart => b.encoding \notin {SearchOf(a), HashOf(a)}
  BY <1>1, Zenon DEF EncodingsApart, SearchOf, HashOf
<1>3. KeyOf(a) = KeyOf(b)
  BY <1>1
<1>4. /\ a.path = b.path /\ a.encoding = b.encoding
      /\ \/ SearchOf(a) = SearchOf(b) /\ HashOf(a) = HashOf(b)
         \/ SearchOf(a) # NoPart /\ HashOf(b) # NoPart /\ SearchOf(a) = HashOf(b)
         \/ HashOf(a) # NoPart /\ SearchOf(b) # NoPart /\ HashOf(a) = SearchOf(b)
  <2>1. PICK key : key = KeyOf(a)
    OBVIOUS
  <2>2. /\ Len(key) = 1 + Count(SearchOf(a)) + Count(HashOf(a)) + Count(a.encoding)
        /\ key[1] = a.path
        /\ SearchOf(a) # NoPart => key[2] = SearchOf(a)
        /\ HashOf(a) # NoPart => key[2 + Count(SearchOf(a))] = HashOf(a)
        /\ a.encoding # NoPart => key[2 + Count(SearchOf(a)) + Count(HashOf(a))] = a.encoding
    BY <2>1, KeyIs
  <2>3. /\ Len(key) = 1 + Count(SearchOf(b)) + Count(HashOf(b)) + Count(b.encoding)
        /\ key[1] = b.path
        /\ SearchOf(b) # NoPart => key[2] = SearchOf(b)
        /\ HashOf(b) # NoPart => key[2 + Count(SearchOf(b))] = HashOf(b)
        /\ b.encoding # NoPart => key[2 + Count(SearchOf(b)) + Count(HashOf(b))] = b.encoding
    BY <1>3, <2>1, KeyIs
  <2> QED
    BY <1>2, <2>2, <2>3 DEF Count
<1> QED
  BY <1>1, <1>4 DEF SearchOf, HashOf

--------------------------------------------------------------------------------
(* An entry is under the key of the request that its route answered, and    *)
(* whoever recorded it is a response of the connection.                     *)
KeysOwn ==
  /\ routes \in Seq(Routes)
  /\ ~Idle => Current > 0
  /\ recorder \in [Responses -> {"off", "on", "late", "put"}]
  /\ \A r \in Responses : recorder[r] # "off" => r <= Current
  /\ \A k \in DOMAIN cache :
       cache[k].route \in Routes /\ KeyOf(RequestOf[cache[k].route]) = k
  /\ replay = [of |-> replay.of, headers |-> replay.headers, body |-> replay.body]

(* put, of what a response of the connection recorded. *)
LEMMA PutOwn ==
  ASSUME KeysOwn, NEW r \in 1..Current, Put(Key(r), Recorded(r))
  PROVE  \A k \in DOMAIN cache' :
           cache'[k].route \in Routes /\ KeyOf(RequestOf[cache'[k].route]) = k
<1>1. routes[r] \in Routes /\ Recorded(r).route = routes[r]
  BY DEF KeysOwn, Current, Recorded
<1>2. /\ DOMAIN cache' = DOMAIN cache \cup {Key(r)}
      /\ \A k \in DOMAIN cache' : cache'[k] = IF k = Key(r) THEN Recorded(r) ELSE cache[k]
  BY DEF Put
<1> QED
  BY <1>1, <1>2 DEF KeysOwn, Key

(* Only the cache, the recorders and the routes matter, and the form of     *)
(* what is replayed.                                                        *)
LEMMA OwnKept ==
  ASSUME KeysOwn, UNCHANGED <<routes, recorder, cache>>, ~Idle \/ plan' = plan,
         replay' = [of |-> replay'.of, headers |-> replay'.headers, body |-> replay'.body]
  PROVE  KeysOwn'
<1>1. Current' = Current /\ (~Idle' => Current' > 0)
  BY DEF KeysOwn, Current, Idle
<1> QED
  BY <1>1 DEF KeysOwn

(* The response that begins has recorded nothing yet. *)
LEMMA OwnBegins ==
  ASSUME KeysOwn, Begin, UNCHANGED cacheVars
  PROVE  KeysOwn'
<1>1. PICK route \in Routes : routes' = Append(routes, route)
  BY DEF Begin
<1>2. routes' \in Seq(Routes) /\ Current \in Nat /\ Current' = Current + 1
  BY <1>1 DEF KeysOwn, Current
<1>3. \A r \in Responses : r <= Current => r <= Current'
  BY <1>2, MaxResponsesAssumption DEF Responses
<1>4. UNCHANGED <<cache, recorder, replay>>
  BY DEF cacheVars
<1> QED
  BY <1>2, <1>3, <1>4 DEF KeysOwn

(* The other steps of routes and streams take no route and no entry. *)
LEMMA OwnOthers ==
  ASSUME KeysOwn, Uncached, ~Begin, UNCHANGED cacheVars
  PROVE  KeysOwn'
<1>1. routes' = routes /\ (~Idle \/ plan' = plan)
  <2>1. ASSUME NEW call, Call(call)
        PROVE  routes' = routes /\ ~Idle
    BY <2>1 DEF Call
  <2>2. CASE AddBodyTransform \/ Header \/ SetBodySize \/ Status \/ SendBody
    BY <2>1, <2>2 DEF AddBodyTransform, Header, SetBodySize, Status, SendBody
  <2>3. CASE SendEmptyBody \/ Framing \/ EndHeaders \/ EndBody \/ Pipe \/ FramerClosed
    BY <2>1, <2>3 DEF SendEmptyBody, Framing, EndHeaders, EndBody, Pipe, FramerClosed
  <2>4. CASE Fail
    BY <2>4 DEF Fail
  <2>5. CASE Read \/ SourceEnds \/ Encode \/ EncoderEnds \/ FramerCloses
    BY <2>5 DEF Read, SourceEnds, Encode, EncoderEnds, FramerCloses, Streaming
  <2>6. CASE PeerCloses \/ \E r \in Responses : FlushRaw(r)
    BY <2>6 DEF PeerCloses, FlushRaw
  <2> QED
    BY <2>2, <2>3, <2>4, <2>5, <2>6 DEF Uncached
<1>2. UNCHANGED <<recorder, cache, replay>>
  BY DEF cacheVars
<1>3. replay' = [of |-> replay'.of, headers |-> replay'.headers, body |-> replay'.body]
  BY <1>2 DEF KeysOwn
<1> QED
  BY <1>1, <1>2, <1>3, OwnKept

(* Nothing is cached or recorded at first. *)
LEMMA OwnInit == CacheInit => KeysOwn
<1> SUFFICES ASSUME CacheInit PROVE KeysOwn
  OBVIOUS
<1>1. routes = <<>> /\ plan = <<>> /\ cache = <<>>
      /\ recorder = [r \in Responses |-> "off"] /\ replay = Nothing
  BY DEF CacheInit, Init
<1>2. replay = [of |-> replay.of, headers |-> replay.headers, body |-> replay.body]
  BY <1>1 DEF Nothing
<1>3. DOMAIN cache = {}
  BY <1>1
<1> QED
  BY <1>1, <1>2, <1>3 DEF KeysOwn, Idle

(* Every step keeps an entry under its own key; that a timeout or a tick    *)
(* leaves what was recorded alone takes TimeoutsMatch.                      *)
LEMMA OwnNext == TimeoutsMatch /\ KeysOwn /\ [CacheNext]_allVars => KeysOwn'
<1> SUFFICES ASSUME TimeoutsMatch, KeysOwn, [CacheNext]_allVars PROVE KeysOwn'
  OBVIOUS
<1> DEFINE Whole(p) == p = [of |-> p.of, headers |-> p.headers, body |-> p.body]
<1>0. Whole(replay) /\ Current \in Nat
  BY DEF KeysOwn, Current
<1>1. CASE Uncached /\ UNCHANGED cacheVars
  BY <1>1, OwnBegins, OwnOthers
<1>2. CASE Hit
  <2>1. PICK o, hs, b : replay' = [of |-> o, headers |-> hs, body |-> b]
    BY <1>2 DEF Hit
  <2>2. Whole(replay')
    BY <2>1
  <2>3. /\ UNCHANGED <<routes, cache>> /\ ~Idle
        /\ recorder' = [recorder EXCEPT ![Current] = "off"]
    BY <1>2 DEF Hit, UseCache
  <2>4. /\ recorder' \in [Responses -> {"off", "on", "late", "put"}]
        /\ \A r \in Responses : recorder'[r] # "off" => r <= Current
    BY <2>3 DEF KeysOwn
  <2>5. Current' = Current
    BY <2>3 DEF Current
  <2> QED
    BY <2>2, <2>3, <2>4, <2>5 DEF KeysOwn
<1>3. CASE Miss
  <2>1. /\ Call("raw") /\ UNCHANGED <<cache, replay>> /\ Current' = Current
        /\ routes' = routes /\ ~Idle
        /\ recorder' = [recorder EXCEPT ![Current] = IF state = "line" THEN "on" ELSE "late"]
    BY <1>3 DEF Miss, AddRawBodyTransform, Call, Current
  <2>2. recorder' \in [Responses -> {"off", "on", "late", "put"}]
    BY <2>1 DEF KeysOwn
  <2>3. \A r \in Responses : recorder'[r] # "off" => r <= Current
    BY <1>0, <2>1, MaxResponsesAssumption DEF KeysOwn, Responses
  <2> QED
    BY <2>1, <2>2, <2>3 DEF KeysOwn
<1>4. CASE ReplayHeader \/ ReplayFails \/ WriteBodyImmediate
  <2>1. UNCHANGED <<routes, recorder, cache>> /\ ~Idle
    BY <1>4 DEF ReplayHeader, ReplayFails, WriteBodyImmediate, Replaying
  <2>2. \/ replay' = replay
        \/ replay' = [replay EXCEPT !.headers = Tail(replay.headers)]
        \/ replay' = [replay EXCEPT !.body = <<>>]
    BY <1>4 DEF ReplayHeader, ReplayFails, WriteBodyImmediate
  <2>3. Whole(replay')
    BY <1>0, <2>2
  <2> QED
    BY <2>1, <2>3, OwnKept
<1>5. CASE Record
  <2>1. UNCHANGED <<routes, recorder, cache, replay, plan>>
    BY <1>5 DEF Record, Flush, Streaming
  <2>2. Whole(replay')
    BY <1>0, <2>1
  <2> QED
    BY <2>1, <2>2, OwnKept
<1>6. ASSUME NEW r \in Responses, RawFinal(r) \/ Elsewhere(r)
      PROVE  KeysOwn'
  <2>1. /\ UNCHANGED <<routes, plan, replay>> /\ Put(Key(r), Recorded(r)) /\ r <= Current
        /\ recorder' \in {recorder, [recorder EXCEPT ![r] = "put"]}
    BY <1>6 DEF RawFinal, Elsewhere, vars, KeysOwn
  <2>2. r \in 1..Current
    BY <1>0, <2>1 DEF Responses
  <2>3. \A k \in DOMAIN cache' :
          cache'[k].route \in Routes /\ KeyOf(RequestOf[cache'[k].route]) = k
    BY <2>1, <2>2, PutOwn
  <2>4. /\ recorder' \in [Responses -> {"off", "on", "late", "put"}]
        /\ \A q \in Responses : recorder'[q] # "off" => q <= Current
    BY <2>1 DEF KeysOwn
  <2>5. Current' = Current /\ Idle' = Idle
    BY <2>1 DEF Current, Idle
  <2> QED
    BY <2>1, <2>3, <2>4, <2>5 DEF KeysOwn
<1>7. ASSUME UNCHANGED <<routes, plan, replay, recorder>>,
             DOMAIN cache' \subseteq DOMAIN cache,
             \A k \in DOMAIN cache' : cache'[k].route = cache[k].route
      PROVE  KeysOwn'
  <2>1. Current' = Current /\ Idle' = Idle
    BY <1>7 DEF Current, Idle
  <2>2. \A k \in DOMAIN cache' :
          cache'[k].route \in Routes /\ KeyOf(RequestOf[cache'[k].route]) = k
    BY <1>7 DEF KeysOwn
  <2> QED
    BY <1>7, <2>1, <2>2 DEF KeysOwn
<1>8. ASSUME NEW k \in Keys, Expiring(k)
      PROVE  KeysOwn'
  <2>1. PICK t : Expire(t)
    BY <1>8 DEF Expiring
  <2>2. /\ UNCHANGED <<routes, plan, replay, recorder>>
        /\ DOMAIN cache' = DOMAIN cache \ {t.key}
        /\ \A q \in DOMAIN cache' : cache'[q] = cache[q]
    BY <2>1 DEF Expire, vars
  <2> QED
    BY <1>7, <2>2
<1>9. CASE Tick
  <2>1. /\ UNCHANGED <<routes, plan, replay, recorder>>
        /\ DOMAIN cache' = DOMAIN cache
    BY <1>9 DEF Tick, vars
  <2>2. ASSUME NEW k \in DOMAIN cache
        PROVE  cache'[k].route = cache[k].route
    <3>1. IsEntry(cache[k])
      BY DEF TimeoutsMatch
    <3>2. cache'[k] = [cache[k] EXCEPT !.age = IF @ < TTL THEN @ + 1 ELSE TTL]
      BY <1>9 DEF Tick
    <3> QED
      BY <3>1, <3>2 DEF IsEntry
  <2> QED
    BY <1>7, <2>1, <2>2
<1>10. CASE UNCHANGED allVars
  <2>1. UNCHANGED <<routes, recorder, cache, plan, replay>>
    BY <1>10 DEF allVars, vars, cacheVars
  <2>2. Whole(replay')
    BY <1>0, <2>1
  <2> QED
    BY <2>1, <2>2, OwnKept
<1> QED
  BY <1>1, <1>2, <1>3, <1>4, <1>5, <1>6, <1>8, <1>9, <1>10 DEF CacheNext, Caching

(* A hit takes what is under the key of its own request. *)
LEMMA HitOwn ==
  ASSUME KeysOwn, Hit
  PROVE  /\ routes[Current] \in Routes /\ replay'.of \in Routes
         /\ KeyOf(RequestOf[replay'.of]) = KeyOf(RequestOf[routes[Current]])
<1>1. Key(Current) \in DOMAIN cache /\ replay'.of = cache[Key(Current)].route /\ ~Idle
  BY DEF Hit, UseCache
<1>2. routes[Current] \in Routes
  BY <1>1 DEF KeysOwn, Current
<1> QED
  BY <1>1, <1>2 DEF KeysOwn, Key

(* A request is answered with what was recorded of a request that is equal  *)
(* in all that the options make a key of, whichever connections record and  *)
(* whenever entries go, unless its search is the other's hash; provided no  *)
(* search or hash looks like an encoding (cache.ts:48-89, 126-158).         *)
THEOREM HitsMatchCorrect ==
  ASSUME EncodingsApart
  PROVE  CacheSpec => HitsMatch
<1> DEFINE Matches ==
      Hit =>
        LET this == RequestOf[routes[Current]]
            that == RequestOf[replay'.of]
        IN  /\ this.path = that.path /\ this.encoding = that.encoding
            /\ \/ /\ UniqueSearch => this.search = that.search
                  /\ UniqueHash => this.hash = that.hash
               \/ this.search = that.hash \/ this.hash = that.search
<1>1. KeysOwn /\ [CacheNext]_allVars => [Matches]_allVars
  <2> SUFFICES ASSUME KeysOwn, Hit
               PROVE  LET this == RequestOf[routes[Current]]
                          that == RequestOf[replay'.of]
                      IN  /\ this.path = that.path /\ this.encoding = that.encoding
                          /\ \/ /\ UniqueSearch => this.search = that.search
                                /\ UniqueHash => this.hash = that.hash
                             \/ this.search = that.hash \/ this.hash = that.search
    OBVIOUS
  <2>1. PICK a \in Routes, b \in Routes : a = routes[Current] /\ b = replay'.of
    BY HitOwn
  <2>2. KeyOf(RequestOf[a]) = KeyOf(RequestOf[b])
    BY <2>1, HitOwn
  <2>3. LET this == RequestOf[a]
            that == RequestOf[b]
        IN  /\ this.path = that.path /\ this.encoding = that.encoding
            /\ \/ /\ UniqueSearch => this.search = that.search
                  /\ UniqueHash => this.hash = that.hash
               \/ this.search = that.hash \/ this.hash = that.search
    BY <2>2, SameKey
  <2> QED
    BY <2>1, <2>3
<1> HIDE DEF Matches
<1>2. CacheSpec => [][Matches]_allVars
  BY <1>1, OwnInit, OwnNext, TimeoutsMatchCorrect, PTL DEF CacheSpec
<1> QED
  BY <1>2 DEF HitsMatch, Matches

--------------------------------------------------------------------------------
(* The calls of a route, and those of a hit. *)
AllCalls == Calls \cup {"replay", "immediate"}

(* The calls that write a recorded header are next to each other in a plan, *)
(* and there are no more of them than recorded headers.                     *)
Replays(p, n) ==
  /\ p \in Seq(AllCalls)
  /\ \E m \in Nat : \A i \in 1..Len(p) : p[i] = "replay" => m < i /\ i <= m + n

ReplayInv == Replays(plan, Len(replay.headers))

(* What responses and their streams hold are pieces. *)
PiecesInv ==
  /\ enqueued \in Nat /\ bodySize \in Nat
  /\ source \in Seq(Nat) /\ encoder \in Seq(Nat)
  /\ framer \in Seq(Piece) /\ wire \in Seq(Piece)
  /\ tail \in [Responses -> Seq(Piece)]

(* So is what is recorded of them and replayed. *)
RecordInv ==
  /\ chunks \in [Responses -> Seq(Piece)]
  /\ \A k \in DOMAIN cache : cache[k].headers \in Seq(Piece) /\ cache[k].body \in Seq(Piece)
  /\ replay.of \in Routes /\ replay.headers \in Seq(Piece) /\ replay.body \in Seq(Piece)

CType == Current <= MaxResponses /\ ReplayInv /\ PiecesInv /\ RecordInv

(* A plan that is not a hit's has none of them. *)
LEMMA ReplaysNone ==
  ASSUME NEW p \in Seq(Calls), NEW n \in Nat
  PROVE  Replays(p, n)
<1>1. p \in Seq(AllCalls)
  BY DEF AllCalls
<1>2. \A i \in 1..Len(p) : p[i] \in Calls
  OBVIOUS
<1>3. "replay" \notin Calls
  BY DEF Calls
<1>4. 0 \in Nat /\ \A i \in 1..Len(p) : p[i] = "replay" => 0 < i /\ i <= 0 + n
  BY <1>2, <1>3
<1> QED
  BY <1>1, <1>4 DEF Replays

(* A call that is none of them is made. *)
LEMMA ReplaysTail ==
  ASSUME NEW p, NEW n \in Nat, Replays(p, n), p # <<>>, Head(p) # "replay"
  PROVE  Replays(Tail(p), n)
<1>1. p \in Seq(AllCalls) /\ Len(p) \in Nat \ {0}
  BY DEF Replays
<1>2. PICK q \in Seq(AllCalls) :
        q = Tail(p) /\ Len(q) = Len(p) - 1 /\ \A i \in 1..Len(q) : q[i] = p[i + 1]
  <2>1. /\ Tail(p) \in Seq(AllCalls) /\ Len(Tail(p)) = Len(p) - 1
        /\ \A i \in 1..Len(Tail(p)) : Tail(p)[i] = p[i + 1]
    BY <1>1
  <2> QED
    BY <2>1, Zenon
<1>3. PICK m \in Nat : \A i \in 1..Len(p) : p[i] = "replay" => m < i /\ i <= m + n
  BY DEF Replays
<1>4. \A i \in 1..Len(q) : i + 1 \in 1..Len(p) /\ (q[i] = "replay" => m < i + 1 /\ i + 1 <= m + n)
  BY <1>1, <1>2, <1>3
<1>5. CASE m = 0
  <2>1. \A i \in 1..Len(q) : q[i] = "replay" => 0 < i /\ i <= 0 + n
    BY <1>4, <1>5
  <2> QED
    BY <1>2, <2>1 DEF Replays
<1>6. CASE m # 0
  <2>1. m - 1 \in Nat /\ \A i \in 1..Len(q) : q[i] = "replay" => m - 1 < i /\ i <= (m - 1) + n
    BY <1>4, <1>6
  <2> QED
    BY <1>2, <2>1 DEF Replays
<1> QED
  BY <1>5, <1>6

(* One of them is made: there was a header for it. *)
LEMMA ReplaysTaken ==
  ASSUME NEW p, NEW n \in Nat, Replays(p, n), p # <<>>, Head(p) = "replay"
  PROVE  n # 0 /\ Replays(Tail(p), n - 1)
<1>1. p \in Seq(AllCalls) /\ Len(p) \in Nat \ {0} /\ p[1] = "replay"
  BY DEF Replays
<1>2. PICK q \in Seq(AllCalls) :
        q = Tail(p) /\ Len(q) = Len(p) - 1 /\ \A i \in 1..Len(q) : q[i] = p[i + 1]
  <2>1. /\ Tail(p) \in Seq(AllCalls) /\ Len(Tail(p)) = Len(p) - 1
        /\ \A i \in 1..Len(Tail(p)) : Tail(p)[i] = p[i + 1]
    BY <1>1
  <2> QED
    BY <2>1, Zenon
<1>3. PICK m \in Nat : \A i \in 1..Len(p) : p[i] = "replay" => m < i /\ i <= m + n
  BY DEF Replays
<1>4. 1 \in 1..Len(p)
  BY <1>1
<1>5. m = 0 /\ n # 0
  BY <1>1, <1>3, <1>4
<1>6. \A i \in 1..Len(q) : i + 1 \in 1..Len(p)
  BY <1>1, <1>2
<1>7. \A i \in 1..Len(q) : q[i] = "replay" => 0 < i /\ i <= 0 + (n - 1)
  BY <1>2, <1>3, <1>5, <1>6
<1> QED
  BY <1>2, <1>5, <1>7 DEF Replays

(* Calls are put in front. *)
LEMMA ReplaysBehind ==
  ASSUME NEW p, NEW n \in Nat, Replays(p, n), NEW q \in Seq(Calls)
  PROVE  Replays(q \o p, n)
<1>1. p \in Seq(AllCalls) /\ q \in Seq(AllCalls)
  BY DEF AllCalls, Replays
<1>2. PICK b \in Seq(AllCalls) :
        /\ b = q \o p /\ Len(b) = Len(q) + Len(p)
        /\ \A i \in 1..Len(b) : b[i] = IF i <= Len(q) THEN q[i] ELSE p[i - Len(q)]
  <2>1. /\ q \o p \in Seq(AllCalls) /\ Len(q \o p) = Len(q) + Len(p)
        /\ \A i \in 1..Len(q \o p) :
             (q \o p)[i] = IF i <= Len(q) THEN q[i] ELSE p[i - Len(q)]
    BY <1>1
  <2> QED
    BY <2>1
<1>3. PICK m \in Nat : \A i \in 1..Len(p) : p[i] = "replay" => m < i /\ i <= m + n
  BY DEF Replays
<1>4. \A i \in 1..Len(q) : q[i] # "replay"
  <2>1. \A i \in 1..Len(q) : q[i] \in Calls
    OBVIOUS
  <2>2. "replay" \notin Calls
    BY DEF Calls
  <2> QED
    BY <2>1, <2>2
<1>5. PICK l \in Nat : l = Len(q)
  OBVIOUS
<1>6. ASSUME NEW i \in 1..Len(b), b[i] = "replay"
      PROVE  m + l < i /\ i <= (m + l) + n
  <2>1. Len(p) \in Nat
    BY <1>1
  <2>2. ~(i <= l)
    BY <1>2, <1>4, <1>5, <1>6
  <2>3. i - l \in 1..Len(p) /\ b[i] = p[i - l]
    BY <1>2, <1>5, <2>1, <2>2
  <2>4. m < i - l /\ i - l <= m + n
    BY <1>3, <1>6, <2>3
  <2> QED
    BY <2>4
<1>7. m + l \in Nat
  OBVIOUS
<1> QED
  BY <1>2, <1>6, <1>7 DEF Replays

(* Other calls follow. *)
LEMMA ReplaysBefore ==
  ASSUME NEW p, NEW n \in Nat, Replays(p, n), NEW q \in Seq(AllCalls \ {"replay"})
  PROVE  Replays(p \o q, n)
<1>1. p \in Seq(AllCalls) /\ q \in Seq(AllCalls)
  BY DEF Replays
<1>2. PICK b \in Seq(AllCalls) :
        /\ b = p \o q /\ Len(b) = Len(p) + Len(q)
        /\ \A i \in 1..Len(b) : b[i] = IF i <= Len(p) THEN p[i] ELSE q[i - Len(p)]
  <2>1. /\ p \o q \in Seq(AllCalls) /\ Len(p \o q) = Len(p) + Len(q)
        /\ \A i \in 1..Len(p \o q) :
             (p \o q)[i] = IF i <= Len(p) THEN p[i] ELSE q[i - Len(p)]
    BY <1>1
  <2> QED
    BY <2>1
<1>3. PICK m \in Nat : \A i \in 1..Len(p) : p[i] = "replay" => m < i /\ i <= m + n
  BY DEF Replays
<1>4. \A i \in 1..Len(q) : q[i] # "replay"
  OBVIOUS
<1>5. PICK l \in Nat : l = Len(p)
  BY <1>1
<1>6. ASSUME NEW i \in 1..Len(b), b[i] = "replay"
      PROVE  m < i /\ i <= m + n
  <2>1. i <= l
    <3>1. Len(q) \in Nat
      BY <1>1
    <3>2. ~(i <= l) => i - l \in 1..Len(q) /\ b[i] = q[i - l]
      BY <1>2, <1>5, <3>1
    <3> QED
      BY <1>4, <1>6, <3>2
  <2>2. i \in 1..Len(p) /\ p[i] = "replay"
    BY <1>2, <1>5, <1>6, <2>1
  <2> QED
    BY <1>3, <2>2
<1> QED
  BY <1>2, <1>6 DEF Replays

(* The plan of a hit. *)
LEMMA ReplaysHit ==
  ASSUME NEW n \in Nat
  PROVE  Replays(<<"status">> \o [i \in 1..n |-> "replay"]
                   \o <<"defaults", "endHeaders", "immediate", "endBody">>, n)
<1>1. PICK r \in Seq(AllCalls) : r = [i \in 1..n |-> "replay"] /\ Len(r) = n
  <2>1. "replay" \in AllCalls
    BY DEF AllCalls
  <2>2. [i \in 1..n |-> "replay"] \in Seq(AllCalls) /\ Len([i \in 1..n |-> "replay"]) = n
    BY <2>1
  <2> QED
    BY <2>2
<1>2. Replays(r, n)
  <2>1. 0 \in Nat /\ \A i \in 1..Len(r) : r[i] = "replay" => 0 < i /\ i <= 0 + n
    BY <1>1
  <2> QED
    BY <1>1, <2>1 DEF Replays
<1>3. <<"status">> \in Seq(Calls)
  BY DEF Calls
<1>4. <<"defaults", "endHeaders", "immediate", "endBody">> \in Seq(AllCalls \ {"replay"})
  BY DEF AllCalls, Calls
<1>5. Replays(<<"status">> \o r, n)
  BY <1>2, <1>3, ReplaysBehind
<1> QED
  BY <1>1, <1>4, <1>5, ReplaysBefore

(* A call: what it writes, and what is left of the plan. *)
LEMMA CallKeeps ==
  ASSUME KeysOwn, CType, NEW call, Call(call), call # "replay"
  PROVE  /\ Current \in Responses /\ wire' \in Seq(Piece)
         /\ routes' = routes /\ Current' = Current
         /\ Replays(Tail(plan), Len(replay.headers))
<1>1. Current \in Responses
  BY MaxResponsesAssumption DEF KeysOwn, CType, Call, Current, Responses
<1>2. [i \in 1..Len(Writes(call)) |->
         [who |-> Current, part |-> Writes(call)[i], n |-> bodySize]] \in Seq(Piece)
  BY <1>1, WritesType DEF Piece, CType, PiecesInv
<1>3. wire' \in Seq(Piece)
  BY <1>2 DEF Call, CType, PiecesInv
<1>4. Replays(Tail(plan), Len(replay.headers))
  <2>1. Len(replay.headers) \in Nat
    BY DEF CType, RecordInv
  <2> QED
    BY <2>1, ReplaysTail DEF CType, ReplayInv, Call, Idle
<1> QED
  BY <1>1, <1>3, <1>4 DEF Call, Current

(* The current route is one of Route. *)
LEMMA RouteTaken ==
  ASSUME KeysOwn, CType, Current \in Responses
  PROVE  routes[Current].size \in Nat /\ routes[Current].chunks \in Seq(Nat)
<1>1. routes[Current] \in Routes
  BY DEF KeysOwn, Current, Responses
<1> QED
  BY <1>1, RoutesAssumption DEF Route

(* What the steps of a response leave of pieces and plan. *)
Typed ==
  /\ Current' <= MaxResponses
  /\ Replays(plan', Len(replay.headers))
  /\ PiecesInv'

(* The calls of a route. *)
LEMMA CallsTyped ==
  KeysOwn /\ CType
    /\ (\/ AddBodyTransform \/ AddRawBodyTransform \/ Header \/ SetBodySize \/ Status \/ SendBody
        \/ SendEmptyBody \/ Framing \/ EndHeaders \/ EndBody \/ Pipe \/ FramerClosed)
      => Typed
<1> SUFFICES ASSUME KeysOwn, CType,
                    \/ AddBodyTransform \/ AddRawBodyTransform \/ Header \/ SetBodySize
                    \/ Status \/ SendBody \/ SendEmptyBody \/ Framing \/ EndHeaders \/ EndBody
                    \/ Pipe \/ FramerClosed
             PROVE  Typed
  OBVIOUS
<1>1. PICK call : Call(call) /\ call # "replay"
  BY DEF AddBodyTransform, AddRawBodyTransform, Header, SetBodySize, Status, SendBody,
         SendEmptyBody, Framing, EndHeaders, EndBody, Pipe, FramerClosed
<1>2. /\ Current \in Responses /\ wire' \in Seq(Piece) /\ Current' = Current
      /\ Replays(Tail(plan), Len(replay.headers))
  BY <1>1, CallKeeps
<1>3. Len(replay.headers) \in Nat
  BY DEF CType, RecordInv
<1>4. Replays(plan', Len(replay.headers))
  <2>1. CASE \/ AddBodyTransform \/ AddRawBodyTransform \/ Header \/ SetBodySize \/ Framing
             \/ EndHeaders \/ EndBody \/ Pipe \/ FramerClosed
    <3>1. plan' = Tail(plan)
      BY <2>1 DEF AddBodyTransform, AddRawBodyTransform, Header, SetBodySize, Framing,
                  EndHeaders, EndBody, Pipe, FramerClosed, Returns
    <3> QED
      BY <1>2, <3>1
  <2>2. CASE Status
    <3>1. PICK q \in Seq(Calls) : q = [i \in 1..enqueued |-> "header"]
      <4>1. [i \in 1..enqueued |-> "header"] \in Seq(Calls)
        BY DEF CType, PiecesInv, Calls
      <4> QED
        BY <4>1
    <3> QED
      BY <1>2, <1>3, <2>2, <3>1, ReplaysBehind DEF Status
  <2>3. CASE SendBody
    <3>1. <<"framing", "defaults", "endHeaders", "pipe", "closed">> \in Seq(Calls)
      BY DEF Calls
    <3> QED
      BY <1>2, <1>3, <2>3, <3>1, ReplaysBehind DEF SendBody
  <2>4. CASE SendEmptyBody
    <3>1. <<"defaults", "endHeaders", "endBody">> \in Seq(Calls)
      BY DEF Calls
    <3> QED
      BY <1>2, <1>3, <2>4, <3>1, ReplaysBehind DEF SendEmptyBody
  <2> QED
    BY <2>1, <2>2, <2>3, <2>4
<1>5. routes[Current].size \in Nat /\ routes[Current].chunks \in Seq(Nat)
  BY <1>2, RouteTaken
<1>6. enqueued' \in Nat /\ bodySize' \in Nat
  <2>1. enqueued \in Nat /\ bodySize \in Nat /\ enqueued + 1 \in Nat /\ 0 \in Nat
    BY DEF CType, PiecesInv
  <2> QED
    BY <1>5, <2>1
       DEF AddBodyTransform, AddRawBodyTransform, Header, SetBodySize, Status, SendBody,
         SendEmptyBody, Framing, EndHeaders, EndBody, Pipe, FramerClosed, response
<1>7. source' \in {source, routes[Current].chunks} /\ UNCHANGED <<encoder, framer, tail>>
  BY DEF AddBodyTransform, AddRawBodyTransform, Header, SetBodySize, Status, SendBody,
         SendEmptyBody, Framing, EndHeaders, EndBody, Pipe, FramerClosed, streams
<1>8. PiecesInv'
  BY <1>2, <1>5, <1>6, <1>7 DEF CType, PiecesInv
<1> QED
  BY <1>2, <1>4, <1>8 DEF CType, Typed

(* The streams. *)
LEMMA StreamsTyped ==
  KeysOwn /\ CType
    /\ (\/ Read \/ SourceEnds \/ Encode \/ EncoderEnds \/ Flush \/ FramerCloses
        \/ \E r \in Responses : FlushRaw(r))
      => Typed
<1> SUFFICES ASSUME KeysOwn, CType,
                    \/ Read \/ SourceEnds \/ Encode \/ EncoderEnds \/ Flush \/ FramerCloses
                    \/ \E r \in Responses : FlushRaw(r)
             PROVE  Typed
  OBVIOUS
<1>1. UNCHANGED <<routes, plan, enqueued, bodySize>>
  BY DEF Read, SourceEnds, Encode, EncoderEnds, Flush, FramerCloses, FlushRaw, Streaming, response
<1>2. Current' <= MaxResponses /\ Replays(plan', Len(replay.headers))
  BY <1>1 DEF CType, ReplayInv, Current
<1>3. Flowing => Current \in Responses
  BY MaxResponsesAssumption DEF Flowing, KeysOwn, CType, Current, Responses
<1>4. ASSUME NEW piece \in Piece PROVE Sent(piece) \in Seq(Piece)
  BY DEF Sent, CType, PiecesInv
<1>5. CASE Read
  <2>1. Head(source) \in Nat /\ Tail(source) \in Seq(Nat)
    BY <1>5 DEF Read, CType, PiecesInv
  <2>2. framer' \in Seq(Piece)
    BY <1>3, <1>5, <2>1, FramedType DEF Read, CType, PiecesInv
  <2>3. encoder' \in Seq(Nat)
    <3>1. encoder \in Seq(Nat)
      BY DEF CType, PiecesInv
    <3>2. Append(encoder, Head(source)) \in Seq(Nat)
      BY <2>1, <3>1
    <3>3. encoder' \in {encoder, Append(encoder, Head(source))}
      BY <1>5, Zenon DEF Read
    <3> QED
      BY <3>1, <3>2, <3>3
  <2>4. source' = Tail(source) /\ UNCHANGED <<tail, wire>>
    BY <1>5 DEF Read
  <2> QED
    BY <1>1, <1>2, <2>1, <2>2, <2>3, <2>4 DEF CType, PiecesInv, Typed
<1>6. CASE SourceEnds \/ EncoderEnds
  <2>1. framer' \in Seq(Piece)
    BY <1>3, <1>6, FinalType DEF SourceEnds, EncoderEnds, CType, PiecesInv
  <2>2. encoder' \in Seq(Nat)
    <3>1. encoder \in Seq(Nat) /\ Append(encoder, 1) \in Seq(Nat)
      BY DEF CType, PiecesInv
    <3>2. encoder' \in {encoder, Append(encoder, 1)}
      BY <1>6, Zenon DEF SourceEnds, EncoderEnds
    <3> QED
      BY <3>1, <3>2
  <2>3. UNCHANGED <<source, tail, wire>>
    BY <1>6 DEF SourceEnds, EncoderEnds
  <2> QED
    BY <1>1, <1>2, <2>1, <2>2, <2>3 DEF CType, PiecesInv, Typed
<1>7. CASE Encode
  <2>1. Head(encoder) \in Nat /\ Tail(encoder) \in Seq(Nat)
    BY <1>7 DEF Encode, CType, PiecesInv
  <2>2. framer' \in Seq(Piece)
    BY <1>3, <1>7, <2>1, FramedType DEF Encode, CType, PiecesInv
  <2>3. encoder' = Tail(encoder) /\ UNCHANGED <<source, tail, wire>>
    BY <1>7 DEF Encode
  <2> QED
    BY <1>1, <1>2, <2>1, <2>2, <2>3 DEF CType, PiecesInv, Typed
<1>8. CASE Flush
  <2>1. Head(framer) \in Piece /\ Tail(framer) \in Seq(Piece)
    BY <1>8 DEF Flush, CType, PiecesInv
  <2>2. wire' \in Seq(Piece)
    BY <1>4, <1>8, <2>1 DEF Flush, CType, PiecesInv
  <2>3. tail' \in [Responses -> Seq(Piece)]
    <3>1. Append(tail[Current], Head(framer)) \in Seq(Piece)
      BY <1>3, <1>8, <2>1 DEF Flush, CType, PiecesInv
    <3>2. tail' \in {tail, [tail EXCEPT ![Current] = Append(tail[Current], Head(framer))]}
      BY <1>8 DEF Flush
    <3> QED
      BY <3>1, <3>2 DEF CType, PiecesInv
  <2>4. framer' = Tail(framer) /\ UNCHANGED <<source, encoder>>
    BY <1>8 DEF Flush
  <2> QED
    BY <1>1, <1>2, <2>1, <2>2, <2>3, <2>4 DEF CType, PiecesInv, Typed
<1>9. CASE FramerCloses
  BY <1>1, <1>2, <1>9 DEF FramerCloses, CType, PiecesInv, Typed
<1>10. ASSUME NEW r \in Responses, FlushRaw(r) PROVE Typed
  <2>1. Head(tail[r]) \in Piece /\ Tail(tail[r]) \in Seq(Piece)
    BY <1>10 DEF FlushRaw, CType, PiecesInv
  <2>2. wire' \in Seq(Piece)
    BY <1>4, <1>10, <2>1 DEF FlushRaw
  <2>3. tail' \in [Responses -> Seq(Piece)]
    BY <1>10, <2>1 DEF FlushRaw, CType, PiecesInv
  <2>4. UNCHANGED <<source, encoder, framer>>
    BY <1>10 DEF FlushRaw
  <2> QED
    BY <1>1, <1>2, <2>2, <2>3, <2>4 DEF CType, PiecesInv, Typed
<1> QED
  BY <1>5, <1>6, <1>7, <1>8, <1>9, <1>10

(* All that is no matter of the cache. *)
LEMMA UncachedTyped ==
  KeysOwn /\ CType /\ Uncached => Typed
<1> SUFFICES ASSUME KeysOwn, CType, Uncached PROVE Typed
  OBVIOUS
<1>1. Len(replay.headers) \in Nat
  BY DEF CType, RecordInv
<1>2. CASE Begin
  <2>1. PICK route \in Routes : routes' = Append(routes, route) /\ plan' = route.calls
    BY <1>2 DEF Begin
  <2>2. plan' \in Seq(Calls)
    BY <2>1, RoutesAssumption DEF Route
  <2>3. Current' <= MaxResponses
    BY <1>2, <2>1, MaxResponsesAssumption DEF Begin, KeysOwn, Current
  <2>4. /\ enqueued' = 0 /\ bodySize' = 0
        /\ source' = <<>> /\ encoder' = <<>> /\ framer' = <<>> /\ UNCHANGED <<tail, wire>>
    BY <1>2 DEF Begin
  <2>5. PiecesInv'
    BY <2>4 DEF CType, PiecesInv
  <2> QED
    BY <1>1, <2>2, <2>3, <2>5, ReplaysNone DEF Typed
<1>3. CASE Fail
  <2>1. plan' = <<>> /\ UNCHANGED <<routes, response, streams, wire>>
    BY <1>3 DEF Fail
  <2>2. <<>> \in Seq(Calls)
    OBVIOUS
  <2>3. Replays(plan', Len(replay.headers))
    BY <1>1, <2>1, <2>2, ReplaysNone
  <2> QED
    BY <2>1, <2>3 DEF response, streams, CType, PiecesInv, Typed, Current
<1>4. CASE PeerCloses
  BY <1>4 DEF PeerCloses, response, streams, CType, ReplayInv, PiecesInv, Typed, Current
<1> QED
  BY <1>2, <1>3, <1>4, CallsTyped, StreamsTyped DEF Uncached

--------------------------------------------------------------------------------
(* f is what was heard after each of the pieces.                            *)
Hears(f, pieces, r, parts) ==
  /\ f \in [0..Len(pieces) -> Seq(Piece)]
  /\ f[0] = <<>>
  /\ \A i \in 1..Len(pieces) :
       f[i] = IF pieces[i].who = r /\ pieces[i].part \in parts
              THEN Append(f[i - 1], pieces[i]) ELSE f[i - 1]

(* The recursive function of Heard is such a function.                      *)
LEMMA HeardIs ==
  ASSUME NEW pieces \in Seq(Piece), NEW r, NEW parts
  PROVE  \E f : Hears(f, pieces, r, parts) /\ Heard(pieces, r, parts) = f[Len(pieces)]
<1> DEFINE n == Len(pieces)
           own(i) == pieces[i].who = r /\ pieces[i].part \in parts
           heard == CHOOSE g : g = [i \in 0..n |-> IF i = 0 THEN <<>>
                      ELSE IF own(i) THEN Append(g[i - 1], pieces[i]) ELSE g[i - 1]]
           op == [i \in 1..n |-> [x \in Seq(Piece) |-> IF own(i) THEN Append(x, pieces[i]) ELSE x]]
<1>1. n \in Nat /\ \A i \in 1..n : pieces[i] \in Piece
  OBVIOUS
<1>2. Heard(pieces, r, parts) = heard[n]
  BY DEF Heard
<1>3. op \in [1..n -> [Seq(Piece) -> Seq(Piece)]]
  <2> HIDE DEF n, own
  <2>1. \A i \in 1..n, x \in Seq(Piece) : Append(x, pieces[i]) \in Seq(Piece)
    BY <1>1
  <2> QED
    BY <2>1
<1> HIDE DEF n, own
<1>4. PICK f : Computes(f, n, Seq(Piece), <<>>, op)
  <2>1. <<>> \in Seq(Piece)
    OBVIOUS
  <2> HIDE DEF op
  <2> QED
    BY <1>1, <1>3, <2>1, ComputationExists
<1>5. /\ f \in [0..n -> Seq(Piece)] /\ f[0] = <<>>
      /\ \A i \in 1..n : f[i] = IF own(i) THEN Append(f[i - 1], pieces[i]) ELSE f[i - 1]
  <2>1. /\ f \in [0..n -> Seq(Piece)] /\ f[0] = <<>>
        /\ \A i \in 1..n : f[i] = op[i][f[i - 1]]
    BY <1>4 DEF Computes
  <2>2. \A i \in 1..n : i - 1 \in 0..n
    BY <1>1
  <2>3. \A i \in 1..n : f[i - 1] \in Seq(Piece)
    BY <2>1, <2>2
  <2>4. \A i \in 1..n, x \in Seq(Piece) :
          op[i][x] = IF own(i) THEN Append(x, pieces[i]) ELSE x
    OBVIOUS
  <2> HIDE DEF op
  <2> QED
    BY <2>1, <2>3, <2>4
<1>6. f = [i \in 0..n |-> IF i = 0 THEN <<>>
             ELSE IF own(i) THEN Append(f[i - 1], pieces[i]) ELSE f[i - 1]]
  <2> HIDE DEF op
  <2>1. f = [i \in 0..n |-> f[i]]
    BY <1>5
  <2>2. \A i \in 0..n : i # 0 => i \in 1..n
    BY <1>1
  <2> QED
    BY <1>5, <2>1, <2>2
<1>7. heard = [i \in 0..n |-> IF i = 0 THEN <<>>
                 ELSE IF own(i) THEN Append(heard[i - 1], pieces[i]) ELSE heard[i - 1]]
  BY <1>6, Zenon
<1> HIDE DEF heard, op
<1>8. heard[0] = <<>> /\ \A i \in 1..n :
        heard[i] = IF own(i) THEN Append(heard[i - 1], pieces[i]) ELSE heard[i - 1]
  <2>1. 0 \in 0..n /\ \A i \in 1..n : i \in 0..n /\ i # 0
    BY <1>1
  <2> QED
    BY <1>7, <2>1
<1>9. heard[n] = f[n]
  <2>1. heard[0] = f[0]
    BY <1>5, <1>8
  <2>2. ASSUME NEW i \in 1..n, heard[i - 1] = f[i - 1]
        PROVE  heard[i] = f[i]
    <3>1. f[i] = IF own(i) THEN Append(f[i - 1], pieces[i]) ELSE f[i - 1]
      BY <1>5
    <3>2. heard[i] = IF own(i) THEN Append(heard[i - 1], pieces[i]) ELSE heard[i - 1]
      BY <1>8
    <3> QED
      BY <2>2, <3>1, <3>2
  <2> QED
    BY <1>1, <2>1, <2>2, ComputationUnique
<1>10. Hears(f, pieces, r, parts)
  BY <1>5, Zenon DEF Hears, n, own
<1> QED
  BY <1>2, <1>9, <1>10 DEF n

(* What is heard are pieces.                                                *)
LEMMA HeardType ==
  ASSUME NEW pieces \in Seq(Piece), NEW r, NEW parts
  PROVE  Heard(pieces, r, parts) \in Seq(Piece)
<1>1. PICK f : Hears(f, pieces, r, parts) /\ Heard(pieces, r, parts) = f[Len(pieces)]
  BY HeardIs
<1>2. Len(pieces) \in 0..Len(pieces)
  OBVIOUS
<1> QED
  BY <1>1, <1>2 DEF Hears

(* Of no piece that is heard, nothing is heard.                             *)
LEMMA HeardNone ==
  ASSUME NEW pieces \in Seq(Piece), NEW r, NEW parts,
         \A i \in 1..Len(pieces) : pieces[i].who # r \/ pieces[i].part \notin parts
  PROVE  Heard(pieces, r, parts) = <<>>
<1>1. PICK f : Hears(f, pieces, r, parts) /\ Heard(pieces, r, parts) = f[Len(pieces)]
  BY HeardIs
<1>2. PICK n \in Nat : n = Len(pieces)
  OBVIOUS
<1>3. PICK g : g = [i \in 0..n |-> <<>>]
  OBVIOUS
<1>4. f[0] = g[0]
  BY <1>1, <1>2, <1>3 DEF Hears
<1>5. ASSUME NEW i \in 1..n, f[i - 1] = g[i - 1]
      PROVE  f[i] = g[i]
  <2>1. i \in 0..n /\ i - 1 \in 0..n
    BY <1>2
  <2>2. f[i] = f[i - 1]
    BY <1>1, <1>2 DEF Hears
  <2> QED
    BY <1>3, <1>5, <2>1, <2>2
<1>6. f[n] = g[n]
  BY <1>4, <1>5, ComputationUnique
<1> QED
  BY <1>1, <1>2, <1>3, <1>6

(* One piece more.                                                          *)
LEMMA HeardAppend ==
  ASSUME NEW pieces \in Seq(Piece), NEW piece \in Piece, NEW r, NEW parts
  PROVE  Heard(Append(pieces, piece), r, parts) =
           IF piece.who = r /\ piece.part \in parts
           THEN Append(Heard(pieces, r, parts), piece) ELSE Heard(pieces, r, parts)
<1>1. PICK more \in Seq(Piece) : more = Append(pieces, piece)
  <2>1. Append(pieces, piece) \in Seq(Piece)
    OBVIOUS
  <2> QED
    BY <2>1
<1>2. PICK n \in Nat :
        /\ n = Len(pieces) /\ Len(more) = n + 1 /\ more[n + 1] = piece
        /\ \A i \in 1..n : more[i] = pieces[i]
  BY <1>1
<1>3. PICK f : Hears(f, pieces, r, parts) /\ Heard(pieces, r, parts) = f[n]
  BY <1>2, HeardIs
<1>4. PICK g : Hears(g, more, r, parts) /\ Heard(more, r, parts) = g[n + 1]
  BY <1>2, HeardIs
<1>5. f[0] = g[0]
  BY <1>3, <1>4 DEF Hears
<1>6. ASSUME NEW i \in 1..n, f[i - 1] = g[i - 1]
      PROVE  f[i] = g[i]
  <2>1. i \in 1..(n + 1) /\ more[i] = pieces[i]
    BY <1>2
  <2>2. f[i] = IF pieces[i].who = r /\ pieces[i].part \in parts
               THEN Append(f[i - 1], pieces[i]) ELSE f[i - 1]
    BY <1>2, <1>3 DEF Hears
  <2>3. g[i] = IF more[i].who = r /\ more[i].part \in parts
               THEN Append(g[i - 1], more[i]) ELSE g[i - 1]
    BY <1>2, <1>4, <2>1 DEF Hears
  <2> QED
    BY <1>6, <2>1, <2>2, <2>3
<1>7. f[n] = g[n]
  BY <1>5, <1>6, ComputationUnique
<1>8. g[n + 1] = IF piece.who = r /\ piece.part \in parts THEN Append(g[n], piece) ELSE g[n]
  <2>1. n + 1 \in 1..(n + 1) /\ (n + 1) - 1 = n
    OBVIOUS
  <2> QED
    BY <1>2, <1>4, <2>1 DEF Hears
<1> QED
  BY <1>1, <1>3, <1>4, <1>7, <1>8

(* The headers that were heard are pieces. *)
LEMMA InterceptedType ==
  ASSUME wire \in Seq(Piece), NEW r
  PROVE  Intercepted(r) \in Seq(Piece)
BY HeardType DEF Intercepted

(* put stores pieces. *)
LEMMA PutTyped ==
  ASSUME KeysOwn, CType, NEW r \in Responses, Put(Key(r), Recorded(r)), UNCHANGED <<chunks, replay>>
  PROVE  RecordInv'
<1>1. Recorded(r).headers \in Seq(Piece) /\ Recorded(r).body \in Seq(Piece)
  BY InterceptedType DEF Recorded, CType, PiecesInv, RecordInv
<1>2. /\ DOMAIN cache' = DOMAIN cache \cup {Key(r)}
      /\ \A k \in DOMAIN cache' : cache'[k] = IF k = Key(r) THEN Recorded(r) ELSE cache[k]
  BY DEF Put
<1> QED
  BY <1>1, <1>2 DEF CType, RecordInv

(* Only what is replayed, recorded and cached matters. *)
LEMMA RecordKept ==
  ASSUME RecordInv, UNCHANGED <<chunks, replay>>,
         DOMAIN cache' \subseteq DOMAIN cache,
         \A k \in DOMAIN cache' :
           cache'[k].headers = cache[k].headers /\ cache'[k].body = cache[k].body
  PROVE  RecordInv'
BY DEF RecordInv

(* A hit plans as many writes as there are headers. *)
LEMMA HitTyped == KeysOwn /\ CType /\ Hit => CType'
<1> SUFFICES ASSUME KeysOwn, CType, Hit PROVE CType'
  OBVIOUS
<1>1. PICK e : e = cache[Key(Current)] /\ Key(Current) \in DOMAIN cache
  BY DEF Hit
<1>2. e.route \in Routes /\ e.headers \in Seq(Piece) /\ e.body \in Seq(Piece)
  BY <1>1 DEF KeysOwn, CType, RecordInv
<1>3. PICK h \in Seq(Piece) : h = e.headers
  BY <1>2
<1>4. replay' = [of |-> e.route, headers |-> h, body |-> e.body]
  BY <1>1, <1>3 DEF Hit
<1>5. plan' = <<"status">> \o [i \in 1..Len(h) |-> "replay"]
                \o <<"defaults", "endHeaders", "immediate", "endBody">>
  <2>1. plan' = <<"status">> \o [i \in DOMAIN h |-> "replay"]
                  \o <<"defaults", "endHeaders", "immediate", "endBody">>
    BY <1>1, <1>3 DEF Hit
  <2>2. DOMAIN h = 1..Len(h)
    OBVIOUS
  <2> QED
    BY <2>1, <2>2
<1>6. replay'.of = e.route /\ replay'.headers = h /\ replay'.body = e.body
  BY <1>4
<1>7. UNCHANGED <<routes, response, streams, wire, cache, chunks>>
  BY DEF Hit
<1>8. ReplayInv'
  <2>1. Len(h) \in Nat
    OBVIOUS
  <2>2. Replays(plan', Len(h))
    BY <1>5, <2>1, ReplaysHit
  <2> QED
    BY <1>6, <2>2 DEF ReplayInv
<1>9. RecordInv'
  BY <1>2, <1>3, <1>6, <1>7 DEF CType, RecordInv
<1>10. Current' <= MaxResponses /\ PiecesInv'
  BY <1>7 DEF CType, PiecesInv, Current, response, streams
<1> QED
  BY <1>8, <1>9, <1>10 DEF CType

(* What a hit writes are pieces of the response. *)
LEMMA ReplayTyped ==
  KeysOwn /\ CType /\ (ReplayHeader \/ ReplayFails \/ WriteBodyImmediate) => CType'
<1> SUFFICES ASSUME KeysOwn, CType, ReplayHeader \/ ReplayFails \/ WriteBodyImmediate
             PROVE  CType'
  OBVIOUS
<1>1. ~Idle /\ UNCHANGED <<routes, response, streams, cache, chunks>>
  BY DEF ReplayHeader, ReplayFails, WriteBodyImmediate, Replaying
<1>2. Current \in Responses /\ Current' <= MaxResponses
  BY <1>1, MaxResponsesAssumption DEF KeysOwn, CType, Current, Responses
<1>3. PICK n \in Nat, h \in Seq(Piece), b \in Seq(Piece) :
        h = replay.headers /\ b = replay.body /\ n = Len(h) /\ Replays(plan, n)
  BY DEF CType, RecordInv, ReplayInv
<1>4. plan # <<>>
  BY <1>1 DEF Idle
<1>5. ASSUME NEW p \in Piece PROVE [p EXCEPT !.who = Current] \in Piece
  BY <1>2 DEF Piece
<1>6. ASSUME wire' \in Seq(Piece) PROVE PiecesInv'
  BY <1>1, <1>6 DEF CType, PiecesInv, response, streams
<1>7. CASE ReplayHeader
  <2>1. n # 0 /\ Replays(Tail(plan), n - 1)
    BY <1>3, <1>4, <1>7, ReplaysTaken DEF ReplayHeader, Replaying
  <2>2. Head(h) \in Piece /\ Tail(h) \in Seq(Piece) /\ Len(Tail(h)) = n - 1
    BY <1>3, <2>1
  <2>3. wire' = Append(wire, [Head(h) EXCEPT !.who = Current]) /\ plan' = Tail(plan)
        /\ replay' = [replay EXCEPT !.headers = Tail(h)]
    BY <1>3, <1>7 DEF ReplayHeader, Returns
  <2>4. wire' \in Seq(Piece)
    BY <1>5, <2>2, <2>3 DEF CType, PiecesInv
  <2>5. replay'.of = replay.of /\ replay'.headers = Tail(h) /\ replay'.body = replay.body
    BY <2>3 DEF KeysOwn
  <2>6. ReplayInv'
    BY <2>1, <2>2, <2>3, <2>5 DEF ReplayInv
  <2>7. RecordInv'
    BY <1>1, <2>2, <2>5 DEF CType, RecordInv
  <2> QED
    BY <1>2, <1>6, <2>4, <2>6, <2>7 DEF CType
<1>8. CASE ReplayFails
  <2>1. plan' = <<>> /\ UNCHANGED <<wire, replay>>
    BY <1>8 DEF ReplayFails
  <2>2. <<>> \in Seq(Calls)
    OBVIOUS
  <2>3. ReplayInv'
    BY <1>3, <2>1, <2>2, ReplaysNone DEF ReplayInv
  <2>4. PiecesInv' /\ RecordInv'
    BY <1>1, <1>6, <2>1 DEF CType, PiecesInv, RecordInv
  <2> QED
    BY <1>2, <2>3, <2>4 DEF CType
<1>9. CASE WriteBodyImmediate
  <2>1. Head(plan) # "replay" /\ plan' = Tail(plan) /\ replay' = [replay EXCEPT !.body = <<>>]
        /\ wire' \in {wire, wire \o [i \in DOMAIN b |-> [b[i] EXCEPT !.who = Current]]}
    BY <1>3, <1>9 DEF WriteBodyImmediate, Replaying, Returns
  <2>2. [i \in DOMAIN b |-> [b[i] EXCEPT !.who = Current]] \in Seq(Piece)
    <3>1. DOMAIN b = 1..Len(b) /\ Len(b) \in Nat /\ \A i \in 1..Len(b) : b[i] \in Piece
      OBVIOUS
    <3>2. \A i \in 1..Len(b) : [b[i] EXCEPT !.who = Current] \in Piece
      BY <1>5, <3>1
    <3> QED
      BY <3>1, <3>2
  <2>3. wire' \in Seq(Piece)
    <3>1. PICK a \in Seq(Piece) : a = [i \in DOMAIN b |-> [b[i] EXCEPT !.who = Current]]
      BY <2>2
    <3>2. wire \in Seq(Piece) /\ wire \o a \in Seq(Piece)
      BY DEF CType, PiecesInv
    <3> QED
      BY <2>1, <3>1, <3>2
  <2>4. replay'.of = replay.of /\ replay'.headers = replay.headers /\ replay'.body = <<>>
    BY <2>1 DEF KeysOwn
  <2>5. Replays(Tail(plan), n)
    BY <1>3, <1>4, <2>1, ReplaysTail
  <2>6. ReplayInv'
    BY <1>3, <2>1, <2>4, <2>5 DEF ReplayInv
  <2>7. RecordInv'
    <3>1. <<>> \in Seq(Piece)
      OBVIOUS
    <3> QED
      BY <1>1, <2>4, <3>1 DEF CType, RecordInv
  <2> QED
    BY <1>2, <1>6, <2>3, <2>6, <2>7 DEF CType
<1> QED
  BY <1>7, <1>8, <1>9

(* CType is inductive, with the invariants before it. *)
LEMMA CTypeNext == TimeoutsMatch /\ KeysOwn /\ CType /\ [CacheNext]_allVars => CType'
<1> SUFFICES ASSUME TimeoutsMatch, KeysOwn, CType, [CacheNext]_allVars PROVE CType'
  OBVIOUS
<1>1. ASSUME Typed, UNCHANGED replay, RecordInv' PROVE CType'
  BY <1>1 DEF Typed, CType, ReplayInv
<1>2. CASE Uncached /\ UNCHANGED cacheVars
  <2>1. UNCHANGED <<cache, chunks, replay>>
    BY <1>2 DEF cacheVars
  <2>2. RecordInv'
    BY <2>1 DEF CType, RecordInv
  <2> QED
    BY <1>1, <1>2, <2>1, <2>2, UncachedTyped
<1>3. CASE Miss
  <2>1. AddRawBodyTransform /\ UNCHANGED <<cache, chunks, replay>>
    BY <1>3 DEF Miss
  <2>2. RecordInv'
    BY <2>1 DEF CType, RecordInv
  <2> QED
    BY <1>1, <2>1, <2>2, CallsTyped
<1>4. CASE Record
  <2>1. Flush /\ UNCHANGED <<cache, replay>>
    BY <1>4 DEF Record
  <2>2. Head(framer) \in Piece /\ Current \in Responses
    <3>1. framer # <<>> /\ ~Idle
      BY <2>1 DEF Flush, Flowing
    <3> QED
      BY <3>1, MaxResponsesAssumption DEF KeysOwn, CType, PiecesInv, Current, Responses
  <2>3. chunks' \in [Responses -> Seq(Piece)]
    <3>1. Append(chunks[Current], Head(framer)) \in Seq(Piece)
      BY <2>2 DEF CType, RecordInv
    <3>2. chunks' \in {chunks, [chunks EXCEPT ![Current] = Append(chunks[Current], Head(framer))]}
      BY <1>4 DEF Record
    <3> QED
      BY <3>1, <3>2 DEF CType, RecordInv
  <2>4. RecordInv'
    BY <2>1, <2>3 DEF CType, RecordInv
  <2> QED
    BY <1>1, <2>1, <2>4, StreamsTyped
<1>5. ASSUME UNCHANGED <<vars, replay>>, RecordInv' PROVE CType'
  BY <1>5 DEF vars, response, streams, CType, ReplayInv, PiecesInv, Current
<1>6. ASSUME NEW r \in Responses, RawFinal(r) \/ Elsewhere(r) PROVE CType'
  BY <1>5, <1>6, PutTyped DEF RawFinal, Elsewhere
<1>7. ASSUME NEW k \in Keys, Expiring(k) PROVE CType'
  <2>1. PICK t : Expire(t)
    BY <1>7 DEF Expiring
  <2>2. /\ UNCHANGED <<vars, chunks, replay>>
        /\ DOMAIN cache' = DOMAIN cache \ {t.key}
        /\ \A q \in DOMAIN cache' : cache'[q] = cache[q]
    BY <2>1 DEF Expire
  <2>3. RecordInv'
    BY <2>2, RecordKept DEF CType
  <2> QED
    BY <1>5, <2>2, <2>3
<1>8. CASE Tick
  <2>1. UNCHANGED <<vars, chunks, replay>> /\ DOMAIN cache' = DOMAIN cache
    BY <1>8 DEF Tick
  <2>2. ASSUME NEW k \in DOMAIN cache
        PROVE  cache'[k].headers = cache[k].headers /\ cache'[k].body = cache[k].body
    <3>1. IsEntry(cache[k])
      BY DEF TimeoutsMatch
    <3>2. cache'[k] = [cache[k] EXCEPT !.age = IF @ < TTL THEN @ + 1 ELSE TTL]
      BY <1>8 DEF Tick
    <3> QED
      BY <3>1, <3>2 DEF IsEntry
  <2>3. RecordInv'
    BY <2>1, <2>2, RecordKept DEF CType
  <2> QED
    BY <1>5, <2>1, <2>3
<1>9. CASE UNCHANGED allVars
  <2>1. UNCHANGED <<vars, cache, chunks, replay>>
    BY <1>9 DEF allVars, cacheVars
  <2>2. RecordInv'
    BY <2>1 DEF CType, RecordInv
  <2> QED
    BY <1>5, <2>1, <2>2
<1> QED
  BY <1>2, <1>3, <1>4, <1>6, <1>7, <1>8, <1>9, HitTyped, ReplayTyped DEF CacheNext, Caching

(* Nothing is there at first. *)
LEMMA CTypeInit ==
  ASSUME Routes # {}
  PROVE  CacheInit => CType
<1> SUFFICES ASSUME CacheInit PROVE CType
  OBVIOUS
<1>1. /\ routes = <<>> /\ plan = <<>> /\ enqueued = 0 /\ bodySize = 0
      /\ source = <<>> /\ encoder = <<>> /\ framer = <<>> /\ wire = <<>>
      /\ tail = [r \in Responses |-> <<>>]
  BY DEF CacheInit, Init
<1>2. replay.of \in Routes /\ replay.headers = <<>> /\ replay.body = <<>>
  BY DEF CacheInit, Nothing
<1>3. DOMAIN cache = {} /\ chunks = [r \in Responses |-> <<>>]
  BY DEF CacheInit
<1>4. RecordInv
  BY <1>2, <1>3 DEF RecordInv
<1>5. Current <= MaxResponses /\ PiecesInv
  BY <1>1, MaxResponsesAssumption DEF Current, PiecesInv
<1>6. ReplayInv
  <2>1. <<>> \in Seq(Calls) /\ Len(replay.headers) \in Nat
    BY <1>2
  <2> QED
    BY <1>1, <2>1, ReplaysNone DEF ReplayInv
<1> QED
  BY <1>4, <1>5, <1>6 DEF CType

(* The variables of the cache keep their types, and each key that is cached *)
(* has one timeout and no other key has any (memory-cache.ts:37-94).  That  *)
(* takes that a hit writes no more headers than were recorded.              *)
THEOREM CacheTypeCorrect ==
  ASSUME Routes # {}
  PROVE  CacheSpec => []CacheTypeOK
<1>1. TimeoutsMatch /\ KeysOwn /\ CType => CacheTypeOK
  <2> SUFFICES ASSUME TimeoutsMatch, KeysOwn, CType PROVE CacheTypeOK
    OBVIOUS
  <2>1. plan \in Seq(Calls \cup {"replay", "immediate"})
    BY DEF CType, ReplayInv, Replays, AllCalls
  <2>2. DOMAIN cache \subseteq Keys
    BY DEF KeysOwn, Keys
  <2>3. timers \subseteq [key : Keys, left : 0..TTL]
    BY <2>2 DEF TimeoutsMatch, IsTimeout
  <2>4. ASSUME NEW k \in DOMAIN cache
        PROVE  cache[k] \in [route : Routes, headers : Seq(Piece), body : Seq(Piece), age : 0..TTL]
    <3>1. PICK t \in timers : t.key = k
      BY DEF TimeoutsMatch
    <3>2. cache[k].age = TTL - t.left /\ t.left \in 0..TTL
      BY <3>1 DEF TimeoutsMatch, IsTimeout
    <3>3. cache[k].age \in 0..TTL
      BY <3>2, TTLAssumption
    <3>4. IsEntry(cache[k])
      BY DEF TimeoutsMatch
    <3> QED
      BY <3>3, <3>4 DEF IsEntry, KeysOwn, CType, RecordInv
  <2>5. ASSUME NEW k \in Keys
        PROVE  Cardinality({t \in timers : t.key = k}) = IF k \in DOMAIN cache THEN 1 ELSE 0
    <3>1. CASE k \in DOMAIN cache
      <4>1. PICK t \in timers : t.key = k
        BY <3>1 DEF TimeoutsMatch
      <4>2. {u \in timers : u.key = k} = {t}
        BY <4>1 DEF TimeoutsMatch
      <4> QED
        BY <3>1, <4>2, FS_Singleton
    <3>2. CASE k \notin DOMAIN cache
      <4>1. {u \in timers : u.key = k} = {}
        BY <3>2 DEF TimeoutsMatch
      <4> QED
        BY <3>2, <4>1, FS_EmptySet
    <3> QED
      BY <3>1, <3>2
  <2>6. replay \in [of : Routes, headers : Seq(Piece), body : Seq(Piece)]
    BY DEF KeysOwn, CType, RecordInv
  <2> QED
    BY <2>1, <2>2, <2>3, <2>4, <2>5, <2>6 DEF CacheTypeOK, KeysOwn, CType, RecordInv
<1>2. CacheInit => CType
  BY CTypeInit
<1>3. CType /\ [CacheNext]_allVars /\ TimeoutsMatch /\ KeysOwn => CType'
  BY CTypeNext
<1> QED
  BY <1>1, <1>2, <1>3, OwnInit, OwnNext, TimeoutsMatchCorrect, PTL DEF CacheSpec

--------------------------------------------------------------------------------
(* A sequence, taken up element by element.                                 *)
LEMMA Prefixes ==
  ASSUME NEW S, NEW b \in Seq(S)
  PROVE  /\ Len(b) \in Nat /\ SubSeq(b, 1, 0) = <<>> /\ SubSeq(b, 1, Len(b)) = b
         /\ \A i \in 0..Len(b) : SubSeq(b, 1, i) \in Seq(S)
         /\ \A i \in 1..Len(b) :
              b[i] \in S /\ SubSeq(b, 1, i) = Append(SubSeq(b, 1, i - 1), b[i])
OBVIOUS

(* What is put in front of it stays there.                                  *)
LEMMA AppendBehind ==
  ASSUME NEW S, NEW a \in Seq(S), NEW b \in Seq(S), NEW x \in S
  PROVE  a \o Append(b, x) = Append(a \o b, x) /\ a \o <<>> = a /\ a \o b \in Seq(S)
OBVIOUS

(* Of two sequences of pieces each is heard by itself.                      *)
LEMMA HeardConcat ==
  ASSUME NEW a \in Seq(Piece), NEW b \in Seq(Piece), NEW r, NEW parts
  PROVE  Heard(a \o b, r, parts) = Heard(a, r, parts) \o Heard(b, r, parts)
<1> DEFINE s(i) == SubSeq(b, 1, i)
           own(p) == p.who = r /\ p.part \in parts
           f == [i \in 0..Len(b) |-> Heard(a \o s(i), r, parts)]
           g == [i \in 0..Len(b) |-> Heard(a, r, parts) \o Heard(s(i), r, parts)]
<1>1. /\ Len(b) \in Nat /\ s(0) = <<>> /\ s(Len(b)) = b
      /\ \A i \in 0..Len(b) : s(i) \in Seq(Piece)
      /\ \A i \in 1..Len(b) : b[i] \in Piece /\ s(i) = Append(s(i - 1), b[i])
  BY Prefixes
<1> HIDE DEF s
<1>2. Heard(a, r, parts) \in Seq(Piece) /\ Heard(<<>>, r, parts) = <<>> /\ <<>> \in Seq(Piece)
  <2>1. <<>> \in Seq(Piece) /\ \A i \in 1..Len(<<>>) : FALSE
    OBVIOUS
  <2> QED
    BY <2>1, HeardType, HeardNone
<1>3. f[0] = g[0]
  <2>1. 0 \in 0..Len(b) /\ a \o s(0) = a
    BY <1>1
  <2>2. Heard(a, r, parts) \o <<>> = Heard(a, r, parts)
    BY <1>2
  <2> QED
    BY <1>1, <1>2, <2>1, <2>2
<1>4. ASSUME NEW i \in 1..Len(b), f[i - 1] = g[i - 1]
      PROVE  f[i] = g[i]
  <2>1. i \in 0..Len(b) /\ i - 1 \in 0..Len(b)
    BY <1>1
  <2>2. PICK c \in Seq(Piece), x \in Piece : c = s(i - 1) /\ x = b[i] /\ s(i) = Append(c, x)
    BY <1>1, <2>1
  <2>3. a \o c \in Seq(Piece) /\ a \o Append(c, x) = Append(a \o c, x)
    BY AppendBehind
  <2>4. Heard(a \o c, r, parts) = Heard(a, r, parts) \o Heard(c, r, parts)
    BY <1>4, <2>1, <2>2
  <2>5. PICK h \in Seq(Piece), k \in Seq(Piece) :
          h = Heard(a, r, parts) /\ k = Heard(c, r, parts)
    BY <1>2, HeardType
  <2>6. Heard(a \o s(i), r, parts) = IF own(x) THEN Append(h \o k, x) ELSE h \o k
    <3>1. PICK d \in Seq(Piece) : d = a \o c
      BY <2>3
    <3>2. Heard(Append(d, x), r, parts) =
            IF own(x) THEN Append(Heard(d, r, parts), x) ELSE Heard(d, r, parts)
      BY HeardAppend
    <3> QED
      BY <2>2, <2>3, <2>4, <2>5, <3>1, <3>2
  <2>7. Heard(s(i), r, parts) = IF own(x) THEN Append(k, x) ELSE k
    <3>1. Heard(Append(c, x), r, parts) =
            IF own(x) THEN Append(Heard(c, r, parts), x) ELSE Heard(c, r, parts)
      BY HeardAppend
    <3> QED
      BY <2>2, <2>5, <3>1
  <2>8. h \o Append(k, x) = Append(h \o k, x)
    BY AppendBehind
  <2>9. f[i] = Heard(a \o s(i), r, parts) /\ g[i] = h \o Heard(s(i), r, parts)
    BY <2>1, <2>5
  <2> QED
    BY <2>6, <2>7, <2>8, <2>9
<1>5. f[Len(b)] = g[Len(b)]
  <2> HIDE DEF f, g
  <2> QED
    BY <1>1, <1>3, <1>4, ComputationUnique
<1>6. Len(b) \in 0..Len(b)
  BY <1>1
<1> QED
  BY <1>1, <1>5, <1>6

(* Where all is heard. *)
LEMMA HeardAll ==
  ASSUME NEW b \in Seq(Piece), NEW r, NEW parts,
         \A i \in 1..Len(b) : b[i].who = r /\ b[i].part \in parts
  PROVE  Heard(b, r, parts) = b
<1> DEFINE s(i) == SubSeq(b, 1, i)
           f == [i \in 0..Len(b) |-> Heard(s(i), r, parts)]
           g == [i \in 0..Len(b) |-> s(i)]
<1>1. /\ Len(b) \in Nat /\ s(0) = <<>> /\ s(Len(b)) = b
      /\ \A i \in 0..Len(b) : s(i) \in Seq(Piece)
      /\ \A i \in 1..Len(b) : b[i] \in Piece /\ s(i) = Append(s(i - 1), b[i])
  BY Prefixes
<1> HIDE DEF s
<1>2. f[0] = g[0]
  <2>1. <<>> \in Seq(Piece) /\ \A i \in 1..Len(<<>>) : FALSE
    OBVIOUS
  <2>2. Heard(<<>>, r, parts) = <<>>
    BY <2>1, HeardNone
  <2>3. 0 \in 0..Len(b)
    BY <1>1
  <2> QED
    BY <1>1, <2>2, <2>3
<1>3. ASSUME NEW i \in 1..Len(b), f[i - 1] = g[i - 1]
      PROVE  f[i] = g[i]
  <2>1. i \in 0..Len(b) /\ i - 1 \in 0..Len(b)
    BY <1>1
  <2>2. PICK c \in Seq(Piece), x \in Piece : c = s(i - 1) /\ x = b[i] /\ s(i) = Append(c, x)
    BY <1>1, <2>1
  <2>3. Heard(c, r, parts) = c
    BY <1>3, <2>1, <2>2
  <2>4. Heard(Append(c, x), r, parts) = Append(c, x)
    BY <2>2, <2>3, HeardAppend
  <2>5. f[i] = Heard(s(i), r, parts) /\ g[i] = s(i)
    BY <2>1
  <2> QED
    BY <2>2, <2>4, <2>5
<1>4. f[Len(b)] = g[Len(b)]
  <2> HIDE DEF f, g
  <2> QED
    BY <1>1, <1>2, <1>3, ComputationUnique
<1>5. Len(b) \in 0..Len(b)
  BY <1>1
<1> QED
  BY <1>1, <1>4, <1>5

--------------------------------------------------------------------------------
(* Clients that differ in whose response they read, and in nothing else.    *)
Alike(c, d) ==
  c.mode = d.mode /\ c.framing = d.framing /\ c.left = d.left /\ c.got = d.got

(* Pieces that say the same to a client that reads a response.              *)
SaySame(p, q) ==
  /\ p.part = q.part /\ p.part # "status"
  /\ p.part \in {"length", "data", "chunk", "last"} => p.n = q.n

(* What a client makes of a piece, by what it expects.                      *)
LEMMA ReceiveIs ==
  ASSUME NEW c \in Clients, NEW p \in AnyPiece, p.part # "status"
  PROVE  /\ c.mode \notin {"headers", "length", "chunked"} => Receive(c, p, {}) = Expect(c, "lost")
         /\ c.mode = "headers" =>
              Receive(c, p, {}) =
                CASE p.part \in {"header", "default"} -> c
                  [] p.part = "length" -> [c EXCEPT !.framing = "length", !.left = p.n]
                  [] p.part = "chunked" -> [c EXCEPT !.framing = "chunked"]
                  [] p.part = "blank" -> IF c.framing = "length" /\ c.left = 0
                                         THEN Expect(c, "status") ELSE Expect(c, c.framing)
                  [] OTHER -> Expect(c, "lost")
         /\ c.mode = "length" =>
              Receive(c, p, {}) =
                IF p.part = "data" /\ p.n < c.left
                THEN [Took(c, p.n) EXCEPT !.left = @ - p.n]
                ELSE IF p.part = "data" /\ p.n = c.left THEN Expect(Took(c, p.n), "status")
                ELSE Expect(c, "lost")
         /\ c.mode = "chunked" =>
              Receive(c, p, {}) =
                IF p.part = "chunk" /\ p.n > 0 THEN Took(c, p.n)
                ELSE IF p.part \in {"chunk", "last"} /\ p.n = 0 THEN Expect(c, "status")
                ELSE Expect(c, "lost")
<1>1. CASE c.mode \notin {"headers", "length", "chunked"}
  BY <1>1, Zenon DEF Receive
<1>2. CASE c.mode = "headers"
  BY <1>2, SMT DEF Receive
<1>3. CASE c.mode = "length"
  <2>1. CASE p.part = "data" /\ p.n < c.left
    <3>1. Receive(c, p, {}) = [Took(c, p.n) EXCEPT !.left = @ - p.n]
      BY <1>3, <2>1, ReceiveData DEF Clients, AnyPiece
    <3> QED
      BY <1>3, <2>1, <3>1
  <2>2. CASE p.part = "data" /\ p.n = c.left
    <3>1. Receive(c, p, {}) = Expect(Took(c, p.n), "status")
      BY <1>3, <2>2, ReceiveLastData DEF Clients
    <3>2. ~(p.n < c.left)
      BY <2>2 DEF Clients
    <3> QED
      BY <1>3, <2>2, <3>1, <3>2
  <2>3. CASE p.part # "data" \/ ~(p.n < c.left \/ p.n = c.left)
    <3>1. Receive(c, p, {}) = Expect(c, "lost")
      BY <1>3, <2>3, Zenon DEF Receive
    <3> QED
      BY <1>3, <2>3, <3>1
  <2> QED
    BY <2>1, <2>2, <2>3
<1>4. CASE c.mode = "chunked"
  BY <1>4, SMT DEF Receive
<1> QED
  BY <1>1, <1>2, <1>3, <1>4

(* Clients that are alike make the same of what says the same.              *)
LEMMA ReceiveAlike ==
  ASSUME NEW c \in Clients, NEW d \in Clients, Alike(c, d),
         NEW p \in AnyPiece, NEW q \in AnyPiece, SaySame(p, q)
  PROVE  Alike(Receive(c, p, {}), Receive(d, q, {}))
<1>1. /\ c.mode = d.mode /\ c.framing = d.framing /\ c.left = d.left /\ c.got = d.got
      /\ p.part = q.part /\ p.part # "status" /\ q.part # "status"
      /\ p.part \in {"length", "data", "chunk", "last"} => p.n = q.n
      /\ p.n \in Nat /\ q.n \in Nat
  BY DEF Alike, SaySame, AnyPiece
<1>2. \A m : Alike(Expect(c, m), Expect(d, m))
  BY <1>1 DEF Expect, Alike, Clients
<1>3. \A n \in Nat :
        /\ Alike(Took(c, n), Took(d, n))
        /\ Alike(Expect(Took(c, n), "status"), Expect(Took(d, n), "status"))
        /\ Alike([Took(c, n) EXCEPT !.left = @ - n], [Took(d, n) EXCEPT !.left = @ - n])
  BY <1>1, TookIs DEF Alike, Expect, Took, Clients
<1>4. CASE c.mode \notin {"headers", "length", "chunked"}
  <2>1. Receive(c, p, {}) = Expect(c, "lost") /\ Receive(d, q, {}) = Expect(d, "lost")
    BY <1>1, <1>4, ReceiveIs
  <2> QED
    BY <1>2, <2>1
<1>5. CASE c.mode = "headers"
  <2>1. CASE p.part \in {"header", "default"}
    <3>1. Receive(c, p, {}) = c /\ Receive(d, q, {}) = d
      BY <1>1, <1>5, <2>1, ReceiveHeader
    <3> QED
      BY <3>1
  <2>2. CASE p.part = "length"
    <3>1. Receive(c, p, {}) = [c EXCEPT !.framing = "length", !.left = p.n]
      BY <1>5, <2>2, ReceiveLength, Zenon
    <3>2. Receive(d, q, {}) = [d EXCEPT !.framing = "length", !.left = q.n]
      <4>1. d.mode = "headers" /\ q.part = "length"
        BY <1>1, <1>5, <2>2
      <4> QED
        BY <4>1, ReceiveLength, Zenon
    <3> QED
      BY <1>1, <2>2, <3>1, <3>2 DEF Alike, Clients
  <2>3. CASE p.part = "chunked"
    <3>1. Receive(c, p, {}) = [c EXCEPT !.framing = "chunked"]
      BY <1>5, <2>3, ReceiveChunked, Zenon
    <3>2. Receive(d, q, {}) = [d EXCEPT !.framing = "chunked"]
      <4>1. d.mode = "headers" /\ q.part = "chunked"
        BY <1>1, <1>5, <2>3
      <4> QED
        BY <4>1, ReceiveChunked, Zenon
    <3> QED
      BY <1>1, <3>1, <3>2 DEF Alike, Clients
  <2>4. CASE p.part = "blank"
    <3>1. Receive(c, p, {}) = IF p.who \in {} \/ (c.framing = "length" /\ c.left = 0)
                              THEN Expect(c, "status") ELSE Expect(c, c.framing)
      BY <1>5, <2>4, ReceiveBlank, Zenon
    <3>2. Receive(d, q, {}) = IF q.who \in {} \/ (d.framing = "length" /\ d.left = 0)
                              THEN Expect(d, "status") ELSE Expect(d, d.framing)
      <4>1. d.mode = "headers" /\ q.part = "blank"
        BY <1>1, <1>5, <2>4
      <4> QED
        BY <4>1, ReceiveBlank, Zenon
    <3> QED
      BY <1>1, <1>2, <3>1, <3>2
  <2>5. CASE p.part \notin {"header", "default", "length", "chunked", "blank"}
    <3>1. Receive(c, p, {}) = Expect(c, "lost") /\ Receive(d, q, {}) = Expect(d, "lost")
      BY <1>1, <1>5, <2>5, ReceiveIs
    <3> QED
      BY <1>2, <3>1
  <2> QED
    BY <2>1, <2>2, <2>3, <2>4, <2>5
<1>6. CASE c.mode = "length"
  <2>1. PICK n \in Nat : n = p.n
    BY <1>1
  <2>2. /\ Receive(c, p, {}) = IF p.part = "data" /\ n < c.left
                               THEN [Took(c, n) EXCEPT !.left = @ - n]
                               ELSE IF p.part = "data" /\ n = c.left
                               THEN Expect(Took(c, n), "status") ELSE Expect(c, "lost")
        /\ Receive(d, q, {}) = IF p.part = "data" /\ n < c.left
                               THEN [Took(d, n) EXCEPT !.left = @ - n]
                               ELSE IF p.part = "data" /\ n = c.left
                               THEN Expect(Took(d, n), "status") ELSE Expect(d, "lost")
    BY <1>1, <1>6, <2>1, ReceiveIs
  <2> QED
    BY <1>2, <1>3, <2>2
<1>7. CASE c.mode = "chunked"
  <2>1. PICK n \in Nat : n = p.n
    BY <1>1
  <2>2. /\ Receive(c, p, {}) = IF p.part = "chunk" /\ n > 0 THEN Took(c, n)
                               ELSE IF p.part \in {"chunk", "last"} /\ n = 0
                               THEN Expect(c, "status") ELSE Expect(c, "lost")
        /\ Receive(d, q, {}) = IF p.part = "chunk" /\ n > 0 THEN Took(d, n)
                               ELSE IF p.part \in {"chunk", "last"} /\ n = 0
                               THEN Expect(d, "status") ELSE Expect(d, "lost")
    BY <1>1, <1>7, <2>1, ReceiveIs
  <2> QED
    BY <1>2, <1>3, <2>2
<1> QED
  BY <1>4, <1>5, <1>6, <1>7

(* And of sequences that say the same.                                      *)
LEMMA ReadsAlike ==
  ASSUME NEW a \in Seq(AnyPiece), NEW b \in Seq(AnyPiece), Alike(Reads(a, {}), Reads(b, {})),
         NEW x \in Seq(AnyPiece), NEW y \in Seq(AnyPiece), Len(x) = Len(y),
         \A i \in 1..Len(x) : SaySame(x[i], y[i])
  PROVE  Alike(Reads(a \o x, {}), Reads(b \o y, {}))
<1> DEFINE s(i) == SubSeq(x, 1, i)
           t(i) == SubSeq(y, 1, i)
           f == [i \in 0..Len(x) |-> Alike(Reads(a \o s(i), {}), Reads(b \o t(i), {}))]
           g == [i \in 0..Len(x) |-> TRUE]
<1>1. /\ Len(x) \in Nat /\ s(0) = <<>> /\ s(Len(x)) = x
      /\ \A i \in 0..Len(x) : s(i) \in Seq(AnyPiece)
      /\ \A i \in 1..Len(x) : x[i] \in AnyPiece /\ s(i) = Append(s(i - 1), x[i])
  BY Prefixes
<1>2. /\ t(0) = <<>> /\ t(Len(x)) = y
      /\ \A i \in 0..Len(x) : t(i) \in Seq(AnyPiece)
      /\ \A i \in 1..Len(x) : y[i] \in AnyPiece /\ t(i) = Append(t(i - 1), y[i])
  <2>1. /\ t(0) = <<>> /\ t(Len(y)) = y
        /\ \A i \in 0..Len(y) : t(i) \in Seq(AnyPiece)
        /\ \A i \in 1..Len(y) : y[i] \in AnyPiece /\ t(i) = Append(t(i - 1), y[i])
    BY Prefixes
  <2> HIDE DEF t
  <2> QED
    BY <2>1
<1> HIDE DEF s, t
<1>3. f[0] = g[0]
  <2>1. 0 \in 0..Len(x) /\ a \o s(0) = a /\ b \o t(0) = b
    BY <1>1, <1>2
  <2> QED
    BY <2>1
<1>4. ASSUME NEW i \in 1..Len(x), f[i - 1] = g[i - 1]
      PROVE  f[i] = g[i]
  <2>1. i \in 0..Len(x) /\ i - 1 \in 0..Len(x)
    BY <1>1
  <2>2. PICK c \in Seq(AnyPiece), p \in AnyPiece :
          c = a \o s(i - 1) /\ p = x[i] /\ a \o s(i) = Append(c, p)
    <3>1. PICK u \in Seq(AnyPiece) : u = s(i - 1) /\ x[i] \in AnyPiece /\ s(i) = Append(u, x[i])
      BY <1>1, <2>1
    <3>2. a \o Append(u, x[i]) = Append(a \o u, x[i]) /\ a \o u \in Seq(AnyPiece)
      BY <3>1, AppendBehind
    <3> QED
      BY <3>1, <3>2
  <2>3. PICK d \in Seq(AnyPiece), q \in AnyPiece :
          d = b \o t(i - 1) /\ q = y[i] /\ b \o t(i) = Append(d, q)
    <3>1. PICK u \in Seq(AnyPiece) : u = t(i - 1) /\ y[i] \in AnyPiece /\ t(i) = Append(u, y[i])
      BY <1>2, <2>1
    <3>2. b \o Append(u, y[i]) = Append(b \o u, y[i]) /\ b \o u \in Seq(AnyPiece)
      BY <3>1, AppendBehind
    <3> QED
      BY <3>1, <3>2
  <2>4. Alike(Reads(c, {}), Reads(d, {}))
    BY <1>4, <2>1, <2>2, <2>3
  <2>5. /\ Reads(Append(c, p), {}) = Receive(Reads(c, {}), p, {})
        /\ Reads(Append(d, q), {}) = Receive(Reads(d, {}), q, {})
    BY ReadsAppend
  <2>6. Alike(Receive(Reads(c, {}), p, {}), Receive(Reads(d, {}), q, {}))
    BY <2>2, <2>3, <2>4, ReadsType, ReceiveAlike
  <2>7. f[i] = Alike(Reads(a \o s(i), {}), Reads(b \o t(i), {}))
    BY <2>1
  <2> QED
    BY <2>1, <2>2, <2>3, <2>5, <2>6, <2>7
<1>5. f[Len(x)] = g[Len(x)]
  <2> HIDE DEF f, g
  <2> QED
    BY <1>1, <1>3, <1>4, ComputationUnique
<1>6. Len(x) \in 0..Len(x)
  BY <1>1
<1> QED
  BY <1>1, <1>2, <1>5, <1>6

--------------------------------------------------------------------------------
(* What a raw transform that records has of the response: the head that was *)
(* sent, and the chunks.                                                    *)
HeadParts == Parts \ {"data", "chunk", "last"}

HeardParts == {"header", "length", "chunked"}

(* What the cache stores of the headers says of the body what the head did  *)
(* that was sent: c has read the head of r, and g is what was stored.       *)
SameHead(c, g, r) ==
  \/ c.mode = "lost"
  \/ c = Fresh /\ g = <<>>
  \/ c.mode = "headers" /\ c.who = r /\ Alike(c, Reads(Part("status") \o g, {}))
  \/ /\ c.mode \in {"status", "close", "length", "chunked"} /\ c.who = r
     /\ Alike(c, Reads(Part("status") \o g \o Part("blank"), {}))

(* A head has one status line.                                              *)
LEMMA ReceiveLost ==
  ASSUME NEW c \in Clients, NEW p \in AnyPiece, p.part # "status" \/ c.mode # "status" \/ c.who >= p.who,
         p.part = "status" \/ (c.mode # "headers" /\ p.part \in HeadParts)
  PROVE  Receive(c, p, {}).mode = "lost"
<1>1. Receive(c, p, {}) = Expect(c, "lost")
  <2>1. ~(c.mode = "status" /\ p.part = "status" /\ p.who > c.who)
    BY DEF Clients, AnyPiece
  <2> QED
    BY <2>1, Zenon DEF Receive, HeadParts
<1> QED
  BY <1>1, ExpectIs

(* A status line, a header and a blank line.                                *)
LEMMA PartIs ==
  ASSUME NEW part \in Parts
  PROVE  /\ Part(part) \in Seq(AnyPiece) /\ Part(part) = Append(<<>>, Part(part)[1])
         /\ Part(part)[1] \in AnyPiece /\ Part(part)[1].part = part /\ Part(part)[1].who = 1
         /\ \A s \in Seq(AnyPiece) :
              /\ s \o Part(part) = Append(s, Part(part)[1])
              /\ Part(part) \o s \in Seq(AnyPiece)
<1>1. PICK p \in AnyPiece : p = [who |-> 1, part |-> part, n |-> 0]
  BY DEF AnyPiece
<1>2. Part(part) = <<p>> /\ p.part = part /\ p.who = 1
  BY <1>1 DEF Part
<1>3. /\ <<p>> \in Seq(AnyPiece) /\ <<p>> = Append(<<>>, p) /\ <<p>>[1] = p
      /\ \A s \in Seq(AnyPiece) : s \o <<p>> = Append(s, p) /\ <<p>> \o s \in Seq(AnyPiece)
  OBVIOUS
<1> QED
  BY <1>2, <1>3

(* One piece more of the head.                                              *)
LEMMA SameHeadNext ==
  ASSUME NEW c \in Clients, NEW g \in Seq(AnyPiece), NEW p \in AnyPiece, p.who # 0,
         SameHead(c, g, p.who), p.part \in HeadParts
  PROVE  SameHead(Receive(c, p, {}), IF p.part \in HeardParts THEN Append(g, p) ELSE g, p.who)
<1> DEFINE d == Reads(Part("status") \o g, {})
           blank == Part("blank")[1]
<1>1. /\ "status" \in Parts /\ "blank" \in Parts
      /\ p.part \in HeardParts => p.part \in {"header", "length", "chunked"}
  BY DEF Parts, HeardParts
<1>2. /\ Part("status") \o g \in Seq(AnyPiece) /\ d \in Clients
      /\ blank \in AnyPiece /\ blank.part = "blank"
      /\ Reads(Part("status") \o g \o Part("blank"), {}) = Receive(d, blank, {})
      /\ Reads(Part("status") \o Append(g, p), {}) = Receive(d, p, {})
  <2>1. PICK s \in Seq(AnyPiece) : s = Part("status")
    BY <1>1, PartIs
  <2>2. s \o g \in Seq(AnyPiece) /\ s \o Append(g, p) = Append(s \o g, p)
    BY AppendBehind
  <2>3. s \o g \o Part("blank") = Append(s \o g, blank) /\ blank \in AnyPiece /\ blank.part = "blank"
    BY <1>1, <2>2, PartIs
  <2>4. d \in Clients
    BY <2>1, <2>2, ReadsType
  <2>5. Reads(Append(s \o g, blank), {}) = Receive(Reads(s \o g, {}), blank, {})
    BY <2>2, <2>3, ReadsAppend
  <2>6. Reads(Append(s \o g, p), {}) = Receive(Reads(s \o g, {}), p, {})
    BY <2>2, ReadsAppend
  <2> QED
    BY <2>1, <2>2, <2>3, <2>4, <2>5, <2>6
<1> HIDE DEF d, blank
<1>3. CASE c.mode = "lost"
  <2>1. Receive(c, p, {}).mode = "lost"
    BY <1>3, LostStays
  <2> QED
    BY <2>1 DEF SameHead
<1>4. CASE c = Fresh /\ g = <<>> /\ p.part = "status"
  <2>1. c.mode = "status" /\ c.who = 0 /\ p.who > 0
    BY <1>4 DEF Fresh, AnyPiece
  <2>2. Receive(c, p, {}) = Started(p.who)
    BY <1>4, <2>1, ReceiveStatus
  <2>3. d = Started(1)
    <3>1. PICK q \in AnyPiece : q = Part("status")[1] /\ q.part = "status" /\ q.who = 1
      BY <1>1, PartIs
    <3>2. Part("status") \o g = Append(<<>>, q)
      <4>1. Part("status") = Append(<<>>, q)
        BY <1>1, <3>1, PartIs
      <4>2. Append(<<>>, q) \o <<>> = Append(<<>>, q)
        OBVIOUS
      <4> QED
        BY <1>4, <4>1, <4>2
    <3>3. d = Receive(Reads(<<>>, {}), q, {})
      <4>1. Reads(Append(<<>>, q), {}) = Receive(Reads(<<>>, {}), q, {})
        <5>1. <<>> \in Seq(AnyPiece)
          OBVIOUS
        <5> QED
          BY <5>1, ReadsAppend
      <4> QED
        BY <3>2, <4>1 DEF d
    <3>4. d = Receive(Fresh, q, {})
      BY <3>3, ReadsEmpty
    <3>5. Fresh.mode = "status" /\ q.who > Fresh.who
      BY <3>1 DEF Fresh
    <3> QED
      BY <3>1, <3>4, <3>5, ReceiveStatus
  <2>4. Alike(Started(p.who), Started(1))
    BY DEF Alike, Started, Fresh
  <2>5. p.part \notin HeardParts
    BY <1>4 DEF HeardParts
  <2> QED
    BY <2>2, <2>3, <2>4, <2>5, StartedIs DEF SameHead, d
<1>5. CASE c = Fresh /\ p.part # "status"
  <2>1. c.mode # "headers"
    BY <1>5 DEF Fresh
  <2>2. Receive(c, p, {}).mode = "lost"
    BY <1>5, <2>1, ReceiveLost
  <2> QED
    BY <2>2 DEF SameHead
<1>6. CASE c.mode = "headers" /\ c.who = p.who /\ Alike(c, d)
  <2>1. CASE p.part = "status"
    <3>1. Receive(c, p, {}).mode = "lost"
      BY <1>6, <2>1, ReceiveLost
    <3> QED
      BY <3>1 DEF SameHead
  <2>2. CASE p.part \in {"header", "default"}
    <3>1. Receive(c, p, {}) = c
      BY <1>6, <2>2, ReceiveHeader
    <3>2. Receive(d, p, {}) = d
      <4>1. d.mode = "headers"
        BY <1>6 DEF Alike
      <4> QED
        BY <2>2, <4>1, ReceiveHeader
    <3>3. Alike(c, Reads(Part("status") \o (IF p.part \in HeardParts THEN Append(g, p) ELSE g), {}))
      BY <1>2, <1>6, <3>2 DEF d
    <3> QED
      BY <1>6, <3>1, <3>3 DEF SameHead
  <2>3. CASE p.part \in {"length", "chunked"}
    <3>1. SaySame(p, p) /\ p.part \in HeardParts
      BY <2>3 DEF SaySame, HeardParts
    <3>2. Alike(Receive(c, p, {}), Receive(d, p, {}))
      BY <1>2, <1>6, <3>1, ReceiveAlike
    <3>3. Receive(c, p, {}).mode = "headers" /\ Receive(c, p, {}).who = p.who
      <4>1. \/ Receive(c, p, {}) = [c EXCEPT !.framing = "length", !.left = p.n]
            \/ Receive(c, p, {}) = [c EXCEPT !.framing = "chunked"]
        <5>1. CASE p.part = "length"
          <6>1. c.mode = "headers" /\ p.part = "length"
            BY <1>6, <5>1
          <6>2. Receive(c, p, {}) = [c EXCEPT !.framing = "length", !.left = p.n]
            BY <6>1, ReceiveLength, Zenon
          <6> QED
            BY <6>2
        <5>2. CASE p.part = "chunked"
          <6>1. c.mode = "headers" /\ p.part = "chunked"
            BY <1>6, <5>2
          <6>2. Receive(c, p, {}) = [c EXCEPT !.framing = "chunked"]
            BY <6>1, ReceiveChunked, Zenon
          <6> QED
            BY <6>2
        <5> QED
          BY <2>3, <5>1, <5>2
      <4> QED
        BY <1>6, <4>1 DEF Clients
    <3>4. Alike(Receive(c, p, {}),
                Reads(Part("status") \o (IF p.part \in HeardParts THEN Append(g, p) ELSE g), {}))
      BY <1>2, <3>1, <3>2
    <3> QED
      BY <3>3, <3>4 DEF SameHead
  <2>4. CASE p.part = "blank"
    <3>1. SaySame(p, blank) /\ p.part \notin HeardParts
      BY <1>2, <2>4 DEF SaySame, HeardParts
    <3>2. Alike(Receive(c, p, {}), Receive(d, blank, {}))
      BY <1>2, <1>6, <3>1, ReceiveAlike
    <3>3. Receive(c, p, {}) = IF p.who \in {} \/ (c.framing = "length" /\ c.left = 0)
                              THEN Expect(c, "status") ELSE Expect(c, c.framing)
      BY <1>6, <2>4, ReceiveBlank, Zenon
    <3>4. /\ Receive(c, p, {}).mode \in {"status", "close", "length", "chunked"}
          /\ Receive(c, p, {}).who = p.who
      <4>1. c.framing \in {"close", "length", "chunked"}
        BY DEF Clients
      <4> QED
        BY <1>6, <3>3, <4>1, ExpectIs
    <3>5. Alike(Receive(c, p, {}),
                Reads(Part("status") \o (IF p.part \in HeardParts THEN Append(g, p) ELSE g)
                        \o Part("blank"), {}))
      BY <1>2, <3>1, <3>2
    <3> QED
      BY <3>4, <3>5 DEF SameHead
  <2> QED
    BY <2>1, <2>2, <2>3, <2>4 DEF HeadParts, Parts
<1>7. CASE c.mode \in {"status", "close", "length", "chunked"} /\ c.who = p.who
  <2>1. c.who >= p.who /\ c.mode # "headers"
    BY <1>7 DEF Clients
  <2>2. Receive(c, p, {}).mode = "lost"
    BY <2>1, ReceiveLost
  <2> QED
    BY <2>2 DEF SameHead
<1> QED
  BY <1>3, <1>4, <1>5, <1>6, <1>7 DEF SameHead, d

(* A head that makes sense says where its body ends as what was stored of   *)
(* it does.                                                                 *)
LEMMA HeadsAlike ==
  ASSUME NEW pieces \in Seq(Piece), NEW r \in Responses
  PROVE  SameHead(Reads(Heard(pieces, r, HeadParts), {}), Heard(pieces, r, HeardParts), r)
<1> DEFINE s(i) == SubSeq(pieces, 1, i)
           c(i) == Reads(Heard(s(i), r, HeadParts), {})
           h(i) == Heard(s(i), r, HeardParts)
           f == [i \in 0..Len(pieces) |-> SameHead(c(i), h(i), r)]
           g == [i \in 0..Len(pieces) |-> TRUE]
<1>1. /\ Len(pieces) \in Nat /\ s(0) = <<>> /\ s(Len(pieces)) = pieces
      /\ \A i \in 0..Len(pieces) : s(i) \in Seq(Piece)
      /\ \A i \in 1..Len(pieces) : pieces[i] \in Piece /\ s(i) = Append(s(i - 1), pieces[i])
  BY Prefixes
<1> HIDE DEF s
<1>2. r \in Nat /\ r # 0 /\ Piece \subseteq AnyPiece
  BY MaxResponsesAssumption DEF Responses, Piece, AnyPiece
<1>3. f[0] = g[0]
  <2>1. Heard(<<>>, r, HeadParts) = <<>> /\ Heard(<<>>, r, HeardParts) = <<>>
    <3>1. <<>> \in Seq(Piece) /\ Len(<<>>) = 0 /\ \A i \in 1..Len(<<>>) : FALSE
      OBVIOUS
    <3> QED
      BY <3>1, HeardNone
  <2>2. c(0) = Fresh /\ h(0) = <<>> /\ 0 \in 0..Len(pieces)
    BY <1>1, <2>1, ReadsEmpty
  <2>3. SameHead(c(0), h(0), r)
    BY <2>2 DEF SameHead
  <2> QED
    BY <2>2, <2>3
<1>4. ASSUME NEW i \in 1..Len(pieces), f[i - 1] = g[i - 1]
      PROVE  f[i] = g[i]
  <2>1. i \in 0..Len(pieces) /\ i - 1 \in 0..Len(pieces)
    BY <1>1
  <2>2. PICK t \in Seq(Piece), p \in Piece : t = s(i - 1) /\ p = pieces[i] /\ s(i) = Append(t, p)
    BY <1>1, <2>1
  <2>3. f[i] = SameHead(c(i), h(i), r) /\ SameHead(c(i - 1), h(i - 1), r)
    BY <1>4, <2>1
  <2>4. PICK a, b :
          /\ a = Heard(t, r, HeadParts) /\ a \in Seq(AnyPiece) /\ c(i - 1) = Reads(a, {})
          /\ b = Heard(t, r, HeardParts) /\ b \in Seq(AnyPiece) /\ h(i - 1) = b
    <3>1. Heard(t, r, HeadParts) \in Seq(Piece) /\ Heard(t, r, HeardParts) \in Seq(Piece)
      BY HeardType
    <3>2. \A x \in Seq(Piece) : x \in Seq(AnyPiece)
      BY <1>2
    <3> QED
      BY <2>2, <3>1, <3>2
  <2>5. SameHead(Reads(a, {}), b, r)
    BY <2>3, <2>4
  <2>6. /\ Heard(Append(t, p), r, HeadParts) =
             IF p.who = r /\ p.part \in HeadParts THEN Append(a, p) ELSE a
        /\ Heard(Append(t, p), r, HeardParts) =
             IF p.who = r /\ p.part \in HeardParts THEN Append(b, p) ELSE b
    BY <2>4, HeardAppend
  <2>7. p.part \in HeardParts => p.part \in HeadParts
    BY DEF HeardParts, HeadParts, Parts
  <2>8. CASE p.who # r \/ p.part \notin HeadParts
    <3>1. c(i) = Reads(a, {}) /\ h(i) = b
      BY <2>2, <2>6, <2>7, <2>8
    <3> QED
      BY <2>3, <2>5, <3>1, <2>1
  <2>9. CASE p.who = r /\ p.part \in HeadParts
    <3>1. /\ c(i) = Reads(Append(a, p), {})
          /\ h(i) = IF p.part \in HeardParts THEN Append(b, p) ELSE b
      BY <2>2, <2>6, <2>9
    <3>2. p \in AnyPiece /\ Reads(a, {}) \in Clients
      BY <1>2, <2>4, ReadsType
    <3>3. Reads(Append(a, p), {}) = Receive(Reads(a, {}), p, {})
      BY <2>4, <3>2, ReadsAppend
    <3>4. SameHead(Receive(Reads(a, {}), p, {}), IF p.part \in HeardParts THEN Append(b, p) ELSE b, r)
      BY <1>2, <2>4, <2>5, <2>9, <3>2, SameHeadNext
    <3> QED
      BY <2>1, <2>3, <3>1, <3>3, <3>4
  <2> QED
    BY <2>8, <2>9
<1>5. f[Len(pieces)] = g[Len(pieces)]
  <2> HIDE DEF f, g
  <2> QED
    BY <1>1, <1>3, <1>4, ComputationUnique
<1>6. Len(pieces) \in 0..Len(pieces)
  BY <1>1
<1> QED
  BY <1>1, <1>5, <1>6

--------------------------------------------------------------------------------
(* How many elements of a sequence are in a set.                            *)
CountIn(s, H) == Cardinality({i \in 1..Len(s) : s[i] \in H})

(* One element more.                                                        *)
LEMMA CountAppend ==
  ASSUME NEW S, NEW s \in Seq(S), NEW x \in S, NEW H
  PROVE  /\ CountIn(s, H) \in Nat
         /\ CountIn(Append(s, x), H) = CountIn(s, H) + (IF x \in H THEN 1 ELSE 0)
<1> DEFINE old == {i \in 1..Len(s) : s[i] \in H}
           new == {i \in 1..Len(Append(s, x)) : Append(s, x)[i] \in H}
<1>1. /\ Len(s) \in Nat /\ Len(Append(s, x)) = Len(s) + 1
      /\ Append(s, x)[Len(s) + 1] = x /\ \A i \in 1..Len(s) : Append(s, x)[i] = s[i]
  OBVIOUS
<1>2. IsFiniteSet(old) /\ Cardinality(old) \in Nat
  <2>1. IsFiniteSet(1..Len(s))
    BY <1>1, FS_Interval
  <2>2. IsFiniteSet(old)
    BY <2>1, FS_Subset
  <2> QED
    BY <2>2, FS_CardinalityType
<1>3. new = IF x \in H THEN old \cup {Len(s) + 1} ELSE old
  <2> SUFFICES ASSUME NEW i
               PROVE  i \in new <=> i \in IF x \in H THEN old \cup {Len(s) + 1} ELSE old
    BY Zenon
  <2>1. i \in 1..(Len(s) + 1) <=> i \in 1..Len(s) \/ i = Len(s) + 1
    BY <1>1
  <2>2. Len(s) + 1 \notin 1..Len(s)
    BY <1>1
  <2> QED
    BY <1>1, <2>1, <2>2
<1>4. Len(s) + 1 \notin old
  BY <1>1
<1>5. Cardinality(old \cup {Len(s) + 1}) = Cardinality(old) + 1
  BY <1>2, <1>4, FS_AddElement
<1>6. Cardinality(new) = Cardinality(old) + (IF x \in H THEN 1 ELSE 0)
  <2>1. CASE x \in H
    <3>1. new = old \cup {Len(s) + 1}
      BY <1>3, <2>1
    <3> HIDE DEF new, old
    <3> QED
      BY <1>2, <1>5, <2>1, <3>1
  <2>2. CASE x \notin H
    <3>1. new = old
      BY <1>3, <2>2
    <3> HIDE DEF new, old
    <3> QED
      BY <1>2, <2>2, <3>1
  <2> QED
    BY <2>1, <2>2
<1> QED
  BY <1>2, <1>6 DEF CountIn

(* The headers that were heard of a response are those that were sent.      *)
LEMMA HeadersHeard ==
  ASSUME NEW pieces \in Seq(Piece), NEW r, NEW parts, "header" \in parts
  PROVE  HeaderPieces(Heard(pieces, r, parts)) =
           Cardinality({i \in 1..Len(pieces) : pieces[i].who = r /\ pieces[i].part = "header"})
<1> DEFINE s(i) == SubSeq(pieces, 1, i)
           H == {p \in Piece : p.part = "header"}
           G == {p \in Piece : p.who = r /\ p.part = "header"}
           h(i) == Heard(s(i), r, parts)
           f == [i \in 0..Len(pieces) |-> CountIn(h(i), H)]
           g == [i \in 0..Len(pieces) |-> CountIn(s(i), G)]
<1>1. /\ Len(pieces) \in Nat /\ s(0) = <<>> /\ s(Len(pieces)) = pieces
      /\ \A i \in 0..Len(pieces) : s(i) \in Seq(Piece)
      /\ \A i \in 1..Len(pieces) : pieces[i] \in Piece /\ s(i) = Append(s(i - 1), pieces[i])
  BY Prefixes
<1> HIDE DEF s
<1>2. f[0] = g[0]
  <2>1. Heard(<<>>, r, parts) = <<>>
    <3>1. <<>> \in Seq(Piece) /\ Len(<<>>) = 0 /\ \A i \in 1..Len(<<>>) : FALSE
      OBVIOUS
    <3> QED
      BY <3>1, HeardNone
  <2>2. h(0) = <<>> /\ s(0) = <<>> /\ 0 \in 0..Len(pieces)
    BY <1>1, <2>1
  <2>3. \A set : {j \in 1..Len(<<>>) : <<>>[j] \in set} = {}
    OBVIOUS
  <2> QED
    BY <2>2, <2>3 DEF CountIn
<1>3. ASSUME NEW i \in 1..Len(pieces), f[i - 1] = g[i - 1]
      PROVE  f[i] = g[i]
  <2>1. i \in 0..Len(pieces) /\ i - 1 \in 0..Len(pieces)
    BY <1>1
  <2>2. PICK t \in Seq(Piece), p \in Piece : t = s(i - 1) /\ p = pieces[i] /\ s(i) = Append(t, p)
    BY <1>1, <2>1
  <2>3. PICK a \in Seq(Piece) : a = Heard(t, r, parts)
    BY HeardType
  <2>4. Heard(Append(t, p), r, parts) = IF p.who = r /\ p.part \in parts THEN Append(a, p) ELSE a
    BY <2>3, HeardAppend
  <2>5. h(i - 1) = a /\ h(i) = Heard(Append(t, p), r, parts)
    BY <2>2, <2>3
  <2>6. CountIn(a, H) = CountIn(t, G)
    BY <1>3, <2>1, <2>2, <2>5
  <2>7. CountIn(t, G) \in Nat /\ CountIn(Append(t, p), G) = CountIn(t, G) + (IF p \in G THEN 1 ELSE 0)
    BY CountAppend
  <2>8. CountIn(a, H) \in Nat /\ CountIn(Append(a, p), H) = CountIn(a, H) + (IF p \in H THEN 1 ELSE 0)
    BY CountAppend
  <2>9. CountIn(h(i), H) = CountIn(s(i), G)
    <3>1. CASE p.who = r /\ p.part \in parts
      <4>1. h(i) = Append(a, p) /\ (p \in H <=> p \in G)
        BY <2>4, <2>5, <3>1
      <4> QED
        BY <2>2, <2>6, <2>7, <2>8, <4>1
    <3>2. CASE ~(p.who = r /\ p.part \in parts)
      <4>1. h(i) = a /\ p \notin G
        BY <2>4, <2>5, <3>2
      <4> QED
        BY <2>2, <2>6, <2>7, <4>1
    <3> QED
      BY <3>1, <3>2
  <2> QED
    BY <2>1, <2>9
<1>4. f[Len(pieces)] = g[Len(pieces)]
  <2> HIDE DEF f, g
  <2> QED
    BY <1>1, <1>2, <1>3, ComputationUnique
<1>5. Len(pieces) \in 0..Len(pieces)
  BY <1>1
<1>6. CountIn(Heard(pieces, r, parts), H) = CountIn(pieces, G)
  BY <1>1, <1>4, <1>5
<1>7. CountIn(pieces, G) =
        Cardinality({i \in 1..Len(pieces) : pieces[i].who = r /\ pieces[i].part = "header"})
  <2>1. {i \in 1..Len(pieces) : pieces[i] \in G} =
          {i \in 1..Len(pieces) : pieces[i].who = r /\ pieces[i].part = "header"}
    BY <1>1
  <2> QED
    BY <2>1 DEF CountIn
<1>8. HeaderPieces(Heard(pieces, r, parts)) = CountIn(Heard(pieces, r, parts), H)
  <2>1. PICK a \in Seq(Piece) : a = Heard(pieces, r, parts)
    BY HeardType
  <2>2. \A i \in 1..Len(a) : a[i] \in Piece
    OBVIOUS
  <2>3. {i \in 1..Len(a) : a[i].part = "header"} = {i \in 1..Len(a) : a[i] \in H}
    BY <2>2
  <2> QED
    BY <2>1, <2>3 DEF HeaderPieces, CountIn
<1> QED
  BY <1>6, <1>7, <1>8

--------------------------------------------------------------------------------
(* What a raw transform that records sees of the current response.          *)
Seen == Heard(wire, Current, HeadParts) \o chunks[Current]

(* The same connection, of which the client is the cache: it sees the       *)
(* current response alone, and that as if it did not answer HEAD.           *)
Rec == INSTANCE HTTPResponseProofs
         WITH routes <- [r \in 1..Len(routes) |-> [routes[r] EXCEPT !.head = FALSE]],
              wire <- Seen, socket <- "open", tail <- [r \in Responses |-> <<>>]

(* What it makes of routes is what the connection does.                     *)
LEMMA RecRoute == Rec!Route = Route
BY DEF Route, Rec!Route, Calls, Rec!Calls, InternalCalls, Rec!InternalCalls

(* Its pieces and calls are those of the connection.                        *)
LEMMA RecTypes ==
  /\ Rec!Responses = Responses /\ Rec!Parts = Parts /\ Rec!Piece = Piece
  /\ Rec!AnyPiece = AnyPiece /\ Rec!Calls = Calls /\ Rec!InternalCalls = InternalCalls
  /\ Rec!Idle = Idle /\ Rec!Left = Left /\ Rec!Ends = Ends
BY DEF Responses, Rec!Responses, Parts, Rec!Parts, Piece, Rec!Piece, AnyPiece, Rec!AnyPiece,
  Calls, Rec!Calls, InternalCalls, Rec!InternalCalls, Idle, Rec!Idle, Left, Rec!Left,
  Ends, Rec!Ends

(* So are its sums and clients.                                             *)
LEMMA RecReceive ==
  ASSUME NEW c, NEW p, NEW heads
  PROVE  Rec!Receive(c, p, heads) = Receive(c, p, heads)
BY DEF Rec!Receive, Receive, Rec!Fresh, Fresh, Rec!Expect, Expect, Rec!Took, Took

LEMMA RecReads ==
  ASSUME NEW pieces, NEW heads
  PROVE  Rec!Reads(pieces, heads) = Reads(pieces, heads)
BY DEF Rec!Reads, Reads, Rec!Receive, Receive, Rec!Fresh, Fresh, Rec!Expect, Expect, Rec!Took, Took

LEMMA RecTotal ==
  ASSUME NEW s
  PROVE  Rec!Total(s) = Total(s)
BY DEF Rec!Total, Total

(* The current response.                                                    *)
LEMMA RecNow ==
  ASSUME routes \in Seq(Route), Current > 0
  PROVE  /\ Rec!Current = Current /\ Current \in 1..Len(routes) /\ Now \in Route
         /\ Rec!Now = [Now EXCEPT !.head = FALSE]
         /\ Rec!Now.calls = Now.calls /\ Rec!Now.chunks = Now.chunks /\ Rec!Now.size = Now.size
         /\ ~Rec!Now.head
         /\ \A call : Rec!Makes(Current, call) <=> Makes(Current, call)
         /\ Rec!Heads = {}
<1> DEFINE taken == [r \in 1..Len(routes) |-> [routes[r] EXCEPT !.head = FALSE]]
<1>1. Len(routes) \in Nat /\ Current = Len(routes)
  BY DEF Current
<1>2. Current \in 1..Len(routes) /\ Now \in Route /\ Now = routes[Current]
  <2>1. Current \in 1..Len(routes)
    BY <1>1
  <2> QED
    BY <2>1 DEF Now
<1>3. Len(taken) = Len(routes)
  BY <1>1
<1>4. \A r \in 1..Len(routes) :
        /\ taken[r] = [routes[r] EXCEPT !.head = FALSE] /\ routes[r] \in Route
  OBVIOUS
<1>5. \A route \in Route :
        LET other == [route EXCEPT !.head = FALSE]
        IN  /\ other.calls = route.calls /\ other.chunks = route.chunks
            /\ other.size = route.size /\ other.head = FALSE
  BY DEF Route
<1>6. Rec!Current = Current /\ Rec!Now = [Now EXCEPT !.head = FALSE]
  BY <1>1, <1>2, <1>3, <1>4 DEF Rec!Current, Rec!Now
<1>7. \A call : Rec!Makes(Current, call) <=> Makes(Current, call)
  <2> SUFFICES ASSUME NEW call
               PROVE  Rec!Makes(Current, call) <=> Makes(Current, call)
    OBVIOUS
  <2>1. taken[Current].calls = routes[Current].calls
    BY <1>2, <1>4, <1>5
  <2> HIDE DEF taken
  <2> QED
    BY <2>1 DEF Rec!Makes, Makes, taken
<1>8. Rec!Heads = {}
  <2>1. Rec!Heads = {r \in 1..Current : taken[r].head}
    BY <1>6 DEF Rec!Heads
  <2>2. \A r \in 1..Current : ~taken[r].head
    BY <1>1, <1>4, <1>5
  <2> HIDE DEF taken
  <2> QED
    BY <2>1, <2>2
<1> QED
  BY <1>2, <1>5, <1>6, <1>7, <1>8

--------------------------------------------------------------------------------
(* The current response is recorded, or may still be. *)
InTouch ==
  /\ Current > 0
  /\ \/ recorder[Current] \in {"on", "put"}
     \/ state = "line" /\ ~Idle /\ "immediate" \notin Left

(* What all responses share, recorded or not. *)
ShareInv ==
  /\ socket \in {"open", "destroyed"}
  /\ \A r \in Responses : Len(tail[r]) <= HighWaterMark
  /\ WhoInv /\ PartsInv
  /\ "immediate" \in Left => "raw" \notin Left
  /\ chunks \in [Responses -> Seq(BodyPieces)]
  /\ \A r \in Responses : r > Current => chunks[r] = <<>>

(* The body transform of the route is there in time for its body. *)
Transforming ==
  IF state \in {"line", "headers"}
  THEN Idle \/ ((transform \/ TransformAhead(plan)) <=> Transforms(Now))
  ELSE transform <=> Transforms(Now)

(* A body is sent, or was. *)
Sending ==
  (SendsBody(Current) /\ Open) =>
    Left \cap {"buffered", "streamed", "closed"} # {} \/ eof = "closed"

(* The route failed before its body. *)
Failed == Idle /\ ~Open /\ eof = "none"

(* Where the cache, as a client, is in a response that is sound.            *)
Phase ==
  \/ Rec!Unsent \/ Rec!AtFraming \/ Rec!AtDefaults \/ Rec!AtEndHeaders \/ Rec!AtPipe
  \/ Rec!Flows \/ Rec!Done \/ Failed

TouchInv ==
  InTouch =>
  /\ HeadersInv /\ MadeInv
  /\ eof # "none" => state \in {"body", "finished"}
  /\ state \in {"line", "headers"} => chunks[Current] = <<>>
  /\ recorder[Current] \in {"on", "put"} => raw
  /\ recorder[Current] = "put" => eof # "none"
  /\ Transforming /\ Sending
  /\ Sound(Now) =>
       /\ Phase
       /\ recorder[Current] = "put" => framer = <<>> /\ eof \in {"framer", "closed"}

(* What EntriesWhole says of an entry. *)
EntryOK(route, hs, b) ==
  LET client == Reads(Part("status") \o hs \o Part("blank") \o b, {})
  IN  /\ HeaderPieces(hs) = Headers(route)
      /\ Sound(route) => client.mode = "status" /\ client.got = Units(route)

(* What is recorded of the earlier responses is whole, and so is the cache. *)
PutsInv ==
  /\ \A r \in 1..(Current - 1) :
       recorder[r] = "put" \/ (recorder[r] = "on" /\ Streams(r)) =>
         EntryOK(routes[r], Intercepted(r), chunks[r])
  /\ \A k \in DOMAIN cache : EntryOK(cache[k].route, cache[k].headers, cache[k].body)

(* A body that ends where the head that was sent says it does also ends     *)
(* where what was stored of the head says it does.                          *)
LEMMA EntryReads ==
  ASSUME NEW pieces \in Seq(Piece), NEW r \in Responses, NEW b \in Seq(BodyPieces),
         LET c == Reads(Heard(pieces, r, HeadParts) \o b, {})
         IN  c.mode = "status" /\ c.who = r
  PROVE  LET c == Reads(Heard(pieces, r, HeadParts) \o b, {})
             d == Reads(Part("status") \o Heard(pieces, r, HeardParts) \o Part("blank") \o b, {})
         IN  d.mode = "status" /\ d.got = c.got
<1>1. PICK h \in Seq(AnyPiece) : h = Heard(pieces, r, HeadParts)
  <2>1. Heard(pieces, r, HeadParts) \in Seq(Piece)
    BY HeardType
  <2>2. Piece \subseteq AnyPiece
    BY MaxResponsesAssumption DEF Responses, Piece, AnyPiece
  <2>3. \A x \in Seq(Piece) : x \in Seq(AnyPiece)
    BY <2>2
  <2> QED
    BY <2>1, <2>3
<1>2. PICK g \in Seq(AnyPiece) : g = Heard(pieces, r, HeardParts)
  <2>1. Heard(pieces, r, HeardParts) \in Seq(Piece)
    BY HeardType
  <2>2. Piece \subseteq AnyPiece
    BY MaxResponsesAssumption DEF Responses, Piece, AnyPiece
  <2>3. \A x \in Seq(Piece) : x \in Seq(AnyPiece)
    BY <2>2
  <2> QED
    BY <2>1, <2>3
<1>3. /\ b \in Seq(AnyPiece) /\ Len(b) \in Nat
      /\ \A i \in 1..Len(b) : b[i].part \in {"data", "chunk", "last"}
  <2>1. BodyPieces \subseteq AnyPiece
    BY MaxResponsesAssumption DEF Responses, Piece, AnyPiece, BodyPieces
  <2>2. \A x \in Seq(BodyPieces) : x \in Seq(AnyPiece)
    BY <2>1
  <2>3. \A i \in 1..Len(b) : b[i] \in BodyPieces
    OBVIOUS
  <2> QED
    BY <2>2, <2>3 DEF BodyPieces
<1>4. SameHead(Reads(h, {}), g, r)
  BY <1>1, <1>2, HeadsAlike
<1>5. /\ h \o b \in Seq(AnyPiece) /\ Reads(h \o b, {}).mode = "status"
      /\ Reads(h, {}).mode # "lost" /\ Reads(h, {}) \in Clients
  <2>1. h \o b \in Seq(AnyPiece)
    BY <1>3
  <2>2. Reads(h \o b, {}).mode = "status"
    BY <1>1
  <2> QED
    BY <1>3, <2>1, <2>2, LostForGood, ReadsType
<1>6. b # <<>> => Reads(h, {}).mode \in {"length", "chunked"}
  <2> SUFFICES ASSUME b # <<>>, Reads(h, {}).mode \notin {"length", "chunked"}
               PROVE  FALSE
    OBVIOUS
  <2>1. PICK p \in AnyPiece : p = Head(b) /\ p.part \in {"data", "chunk", "last"}
    BY <1>3
  <2>2. Tail(b) \in Seq(AnyPiece) /\ Append(h, p) \in Seq(AnyPiece) /\ Append(h, p) \o Tail(b) = h \o b
    BY <1>3, <2>1
  <2>3. Reads(Append(h, p), {}).mode # "lost"
    <3>1. Reads(Append(h, p) \o Tail(b), {}).mode # "lost"
      BY <1>5, <2>2
    <3> QED
      BY <2>2, <3>1, LostForGood
  <2>4. Reads(Append(h, p), {}) = Receive(Reads(h, {}), p, {})
    BY ReadsAppend
  <2>5. Receive(Reads(h, {}), p, {}).mode = "lost"
    <3>1. PICK c \in Clients : c = Reads(h, {})
      BY <1>5
    <3>2. c.mode \notin {"length", "chunked"} /\ p.part \notin {"status", "header", "default", "length", "chunked", "blank"}
      BY <2>1, <3>1
    <3>3. Receive(c, p, {}) = Expect(c, "lost")
      BY <3>2, Zenon DEF Receive
    <3> QED
      BY <3>1, <3>3, ExpectIs
  <2> QED
    BY <2>3, <2>4, <2>5
<1>7. /\ Reads(h, {}).mode \in {"status", "close", "length", "chunked"}
      /\ Alike(Reads(h, {}), Reads(Part("status") \o g \o Part("blank"), {}))
  <2>1. Reads(h, {}) # Fresh
    <3>1. b = <<>> => Reads(h, {}) = Reads(h \o b, {})
      BY <1>3
    <3>2. Reads(h \o b, {}).who = r /\ r # 0
      BY <1>1, MaxResponsesAssumption DEF Responses
    <3> QED
      BY <1>6, <3>1, <3>2 DEF Fresh
  <2>2. Reads(h, {}).mode # "headers"
    <3>1. b = <<>> => Reads(h, {}) = Reads(h \o b, {})
      BY <1>3
    <3> QED
      BY <1>5, <1>6, <3>1
  <2> QED
    BY <1>4, <1>5, <2>1, <2>2 DEF SameHead
<1>8. PICK a \in Seq(AnyPiece) : a = Part("status") \o g \o Part("blank")
  <2>1. "status" \in Parts /\ "blank" \in Parts
    BY DEF Parts
  <2>2. PICK s \in Seq(AnyPiece) : s = Part("status") \o g
    BY <2>1, PartIs
  <2>3. PICK t \in Seq(AnyPiece) : t = Part("blank")
    BY <2>1, PartIs
  <2>4. s \o t \in Seq(AnyPiece)
    OBVIOUS
  <2> QED
    BY <2>2, <2>3, <2>4
<1>9. Alike(Reads(h \o b, {}), Reads(a \o b, {}))
  <2>1. \A i \in 1..Len(b) : SaySame(b[i], b[i])
    BY <1>3 DEF SaySame
  <2>2. Alike(Reads(h, {}), Reads(a, {}))
    BY <1>7, <1>8
  <2> QED
    BY <1>3, <2>1, <2>2, ReadsAlike
<1> QED
  BY <1>1, <1>2, <1>8, <1>9 DEF Alike

(* The cache, as a client, has a connection of its own.                     *)
LEMMA RecType ==
  ASSUME IType, ShareInv, wire \in Seq(Piece), Current > 0
  PROVE  Rec!IType /\ Seen \in Seq(Piece) /\ Heard(wire, Current, HeadParts) \in Seq(Piece)
<1>1. Current \in Responses /\ routes \in Seq(Route)
  BY MaxResponsesAssumption DEF IType, TypeOK, Responses, Current
<1>2. /\ Rec!Current = Current
      /\ [r \in 1..Len(routes) |-> [routes[r] EXCEPT !.head = FALSE]] \in Seq(Route)
  <2>1. Rec!Current = Current
    BY <1>1, RecNow
  <2>2. \A route \in Route : [route EXCEPT !.head = FALSE] \in Route
    BY DEF Route
  <2>3. Len(routes) \in Nat /\ \A r \in 1..Len(routes) : routes[r] \in Route
    BY <1>1
  <2> QED
    BY <2>1, <2>2, <2>3
<1>3. Seen \in Seq(Piece) /\ Heard(wire, Current, HeadParts) \in Seq(Piece)
  <2>1. Heard(wire, Current, HeadParts) \in Seq(Piece)
    BY HeardType
  <2>2. chunks[Current] \in Seq(Piece)
    <3>1. chunks[Current] \in Seq(BodyPieces)
      BY <1>1 DEF ShareInv
    <3>2. \A x \in Seq(BodyPieces) : x \in Seq(Piece)
      BY DEF BodyPieces
    <3> QED
      BY <3>1, <3>2
  <2> QED
    BY <2>1, <2>2 DEF Seen
<1>4. /\ [r \in Responses |-> <<>>] \in [Responses -> Seq(Piece)]
      /\ \A r \in Responses : Len([q \in Responses |-> <<>>][r]) <= HighWaterMark
  <2>1. <<>> \in Seq(Piece) /\ Len(<<>>) <= HighWaterMark
    BY HighWaterMarkAssumption
  <2> QED
    BY <2>1
<1>5. Rec!TypeOK
  BY <1>2, <1>3, <1>4, RecTypes, RecRoute DEF IType, TypeOK, Rec!TypeOK
<1>6. Rec!Busy
  BY <1>1, <1>2, RecTypes DEF Rec!Busy
<1> QED
  BY <1>3, <1>5, <1>6 DEF Rec!IType

(* Once the end of the body has reached the raw transform, or the route     *)
(* resolved on an open socket, what is recorded is whole.                   *)
LEMMA TouchEntry ==
  ASSUME TouchInv, ShareInv, wire \in Seq(Piece), Current > 0,
         recorder[Current] \in {"on", "put"},
         \/ recorder[Current] = "put"
         \/ eof \in {"framer", "closed"} /\ framer = <<>>
         \/ Idle /\ Open /\ SendsBody(Current)
  PROVE  EntryOK(Now, Intercepted(Current), chunks[Current])
<1>1. /\ IType /\ HdrInv /\ Transforming /\ Sending
      /\ eof # "none" => state \in {"body", "finished"}
      /\ recorder[Current] = "put" => eof # "none"
      /\ Sound(Now) => /\ Phase
                       /\ recorder[Current] = "put" => framer = <<>> /\ eof \in {"framer", "closed"}
  BY DEF TouchInv, InTouch, HeadersInv
<1>2. Current \in Responses /\ routes \in Seq(Route)
  BY <1>1, MaxResponsesAssumption DEF IType, TypeOK, Responses, Current
<1>3. Idle => Left = {}
  BY DEF Idle, Left
<1>4. eof # "none"
  BY <1>1, <1>3 DEF Sending
<1>5. HeaderPieces(Intercepted(Current)) = Headers(Now)
  <2>1. AllHeaders
    BY <1>1, <1>4 DEF HdrInv
  <2>2. "header" \in {"header", "length", "chunked"}
    OBVIOUS
  <2>3. HeaderPieces(Intercepted(Current)) = Cardinality(Written("header"))
    BY <2>2, HeadersHeard DEF Intercepted, Written
  <2> QED
    BY <2>1, <2>3 DEF AllHeaders, Wanted, SetsOf, Headers
<1>6. ASSUME Sound(Now)
      PROVE  LET client == Reads(Part("status") \o Intercepted(Current) \o Part("blank")
                                   \o chunks[Current], {})
             IN  client.mode = "status" /\ client.got = Units(Now)
  <2>1. framer = <<>> /\ (Rec!Ending \/ Rec!Done)
    <3>1. Phase /\ eof # "none"
      BY <1>1, <1>4, <1>6
    <3>2. framer = <<>> /\ (eof \in {"framer", "closed"} \/ Rec!Done)
      <4>1. CASE recorder[Current] = "put"
        BY <1>1, <1>6, <4>1
      <4>2. CASE Idle /\ Open /\ SendsBody(Current)
        <5>1. ~Rec!Flows
          <6>1. ~Rec!At(5)
            BY <4>2 DEF Rec!At, Idle
          <6> QED
            BY <6>1 DEF Rec!Flows
        <5>2. Rec!Done
          BY <3>1, <4>2, <5>1 DEF Phase, Failed, Rec!Unsent, Rec!AtFraming, Rec!AtDefaults,
            Rec!AtEndHeaders, Rec!AtPipe, Rec!Heading
        <5> QED
          BY <5>2 DEF Rec!Done, Rec!Still
      <4>3. CASE eof \in {"framer", "closed"} /\ framer = <<>>
        BY <4>3
      <4> QED
        BY <4>1, <4>2, <4>3
    <3>3. Rec!Flows \/ Rec!Done
      BY <3>1 DEF Phase, Failed, Rec!Unsent, Rec!AtFraming, Rec!AtDefaults,
        Rec!AtEndHeaders, Rec!AtPipe, Rec!Heading
    <3> QED
      BY <3>2, <3>3 DEF Rec!Flows, Rec!Reading, Rec!Encoding
  <2>2. /\ Rec!Ahead.mode = "status" /\ Rec!Ahead.got = Rec!AllUnits /\ Rec!Ahead.who = Current
    <3>1. Rec!Current = Current
      BY <1>2, RecNow
    <3>2. Rec!Flows \/ Rec!Done
      BY <1>1, <1>4, <1>6 DEF Phase, Failed, Rec!Unsent, Rec!AtFraming, Rec!AtDefaults,
        Rec!AtEndHeaders, Rec!AtPipe, Rec!Heading
    <3> QED
      BY <2>1, <3>1, <3>2 DEF Rec!Flows, Rec!Ending, Rec!Done
  <2>3. Rec!Ahead = Reads(Heard(wire, Current, HeadParts) \o chunks[Current], {})
    <3>1. PICK s \in Seq(Piece) : s = Seen
      BY <1>1, RecType
    <3>2. s \o <<>> = s
      OBVIOUS
    <3>3. Rec!Ahead = Reads(Seen \o framer, {})
      BY <1>2, RecNow, RecReads DEF Rec!Ahead
    <3> QED
      BY <2>1, <3>1, <3>2, <3>3 DEF Seen
  <2>4. Rec!AllUnits = Units(Now)
    <3>1. Rec!Now.chunks = Now.chunks
      BY <1>2, RecNow
    <3>2. transform <=> Transforms(Now)
      BY <1>1, <1>4 DEF Transforming
    <3> QED
      BY <3>1, <3>2, RecTotal DEF Rec!AllUnits, Units
  <2>5. PICK b \in Seq(BodyPieces) : b = chunks[Current]
    BY <1>2 DEF ShareInv
  <2>6. Intercepted(Current) = Heard(wire, Current, HeardParts)
    BY DEF Intercepted, HeardParts
  <2> DEFINE c == Reads(Heard(wire, Current, HeadParts) \o b, {})
             d == Reads(Part("status") \o Heard(wire, Current, HeardParts) \o Part("blank") \o b, {})
  <2>7. c.mode = "status" /\ c.who = Current /\ c.got = Units(Now)
    BY <2>2, <2>3, <2>4, <2>5
  <2>8. d.mode = "status" /\ d.got = c.got
    BY <1>2, <2>7, EntryReads
  <2> QED
    BY <2>5, <2>6, <2>7, <2>8
<1> QED
  BY <1>5, <1>6 DEF EntryOK

--------------------------------------------------------------------------------
(* The calls of a route, as the cache sees them. *)
LEMMA RecWrites ==
  ASSUME NEW call
  PROVE  /\ Rec!Writes(call) = Writes(call)
         /\ Rec!Allowed(call) = Allowed(call)
BY DEF Rec!Writes, Writes, Rec!ShouldUseChunking, ShouldUseChunking, Rec!Allowed, Allowed

(* What a call writes is of the head, and is written before the body.       *)
LEMMA WritesHead ==
  ASSUME NEW call, state \in Allowed(call), Writes(call) # <<>>
  PROVE  state \in {"line", "headers"} /\ \A i \in 1..Len(Writes(call)) : Writes(call)[i] \in HeadParts
<1>1. call \in {"status", "header", "framing", "defaults", "endHeaders"}
  BY DEF Writes
<1>2. state \in {"line", "headers"}
  BY <1>1 DEF Allowed
<1>3. Writes(call) \in {<<"status">>, <<"header">>, <<"length">>, <<"default", "chunked">>,
                        <<"default">>, <<"blank">>}
  BY <1>1 DEF Writes
<1>4. \A w \in {<<"status">>, <<"header">>, <<"length">>, <<"default", "chunked">>,
                <<"default">>, <<"blank">>} : \A i \in 1..Len(w) : w[i] \in HeadParts
  BY DEF HeadParts, Parts
<1> QED
  BY <1>2, <1>3, <1>4

(* A call adds to what the cache sees what it sends.                        *)
LEMMA RecCall ==
  ASSUME IType, ShareInv, wire \in Seq(Piece), Current > 0, chunks' = chunks,
         state \in {"line", "headers"} => chunks[Current] = <<>>,
         NEW call, Call(call)
  PROVE  Rec!Call(call) /\ Current' = Current
<1>1. /\ Current \in Responses /\ routes \in Seq(Route) /\ bodySize \in Nat
      /\ Len(routes) \in Nat
  BY MaxResponsesAssumption DEF IType, TypeOK, Responses, Current
<1>2. /\ ~Idle /\ Head(plan) = call /\ state \in Allowed(call)
      /\ routes' = routes /\ Current' = Current
      /\ wire' = wire \o [i \in 1..Len(Writes(call)) |->
                            [who |-> Current, part |-> Writes(call)[i], n |-> bodySize]]
  BY DEF Call, Current
<1>3. Rec!Current = Current
  BY <1>1, RecNow
<1>4. PICK w \in Seq(Piece) :
               /\ w = [i \in 1..Len(Writes(call)) |->
                          [who |-> Current, part |-> Writes(call)[i], n |-> bodySize]]
               /\ \A i \in 1..Len(w) : w[i].who = Current /\ w[i].part \in HeadParts
               /\ w # <<>> => chunks[Current] = <<>>
  <2> DEFINE w == [i \in 1..Len(Writes(call)) |->
                     [who |-> Current, part |-> Writes(call)[i], n |-> bodySize]]
  <2>1. Writes(call) \in Seq(Parts)
    BY WritesType
  <2>2. Len(Writes(call)) \in Nat /\ \A i \in 1..Len(Writes(call)) : Writes(call)[i] \in Parts
    BY <2>1
  <2>3. \A i \in 1..Len(Writes(call)) :
          [who |-> Current, part |-> Writes(call)[i], n |-> bodySize] \in Piece
    BY <1>1, <2>2 DEF Piece
  <2>4. w \in Seq(Piece) /\ Len(w) = Len(Writes(call))
    BY <2>2, <2>3
  <2>5. \A i \in 1..Len(Writes(call)) : Writes(call)[i] \in HeadParts
    <3>1. CASE Writes(call) = <<>>
      BY <3>1
    <3>2. CASE Writes(call) # <<>>
      BY <1>2, <3>2, WritesHead
    <3> QED
      BY <3>1, <3>2
  <2>6. w # <<>> => chunks[Current] = <<>>
    <3>1. Writes(call) = <<>> => w = <<>>
      <4>1. Writes(call) = <<>> => Len(w) = 0
        BY <2>4
      <4> HIDE DEF w
      <4> QED
        BY <2>4, <4>1
    <3>2. Writes(call) # <<>> => state \in {"line", "headers"}
      BY <1>2, WritesHead
    <3> QED
      BY <3>1, <3>2
  <2>7. \A i \in 1..Len(w) : w[i].who = Current /\ w[i].part \in HeadParts
    BY <2>2, <2>4, <2>5
  <2> QED
    BY <2>4, <2>6, <2>7
<1>5. Heard(wire', Current, HeadParts) = Heard(wire, Current, HeadParts) \o w
  <2>1. Heard(w, Current, HeadParts) = w
    <3>1. \A i \in 1..Len(w) : w[i].who = Current /\ w[i].part \in HeadParts
      BY <1>4
    <3> QED
      BY <3>1, HeardAll
  <2>2. Heard(wire \o w, Current, HeadParts) = Heard(wire, Current, HeadParts) \o Heard(w, Current, HeadParts)
    BY HeardConcat
  <2> QED
    BY <1>2, <1>4, <2>1, <2>2
<1>6. Seen' = Seen \o w
  <2>1. PICK h \in Seq(Piece) : h = Heard(wire, Current, HeadParts)
    BY HeardType
  <2>2. PICK b \in Seq(Piece) : b = chunks[Current]
    <3>1. chunks[Current] \in Seq(BodyPieces)
      BY <1>1 DEF ShareInv
    <3>2. \A x \in Seq(BodyPieces) : x \in Seq(Piece)
      BY DEF BodyPieces
    <3> QED
      BY <3>1, <3>2
  <2>3. (w = <<>> \/ b = <<>>) => (h \o w) \o b = (h \o b) \o w
    <3>1. h \o <<>> = h /\ (h \o b) \o <<>> = h \o b /\ (h \o w) \o <<>> = h \o w
      OBVIOUS
    <3> QED
      BY <3>1
  <2>4. Seen' = (h \o w) \o b
    BY <1>2, <1>5, <2>1, <2>2 DEF Seen
  <2>5. Seen = h \o b
    BY <2>1, <2>2 DEF Seen
  <2> QED
    BY <1>4, <2>2, <2>3, <2>4, <2>5
<1>7. Seen' = Seen \o [i \in 1..Len(Rec!Writes(call)) |->
                         [who |-> Rec!Current, part |-> Rec!Writes(call)[i], n |-> bodySize]]
  BY <1>3, <1>4, <1>6, RecWrites
<1>8. UNCHANGED [r \in 1..Len(routes) |-> [routes[r] EXCEPT !.head = FALSE]]
  BY <1>2
<1> QED
  BY <1>2, <1>7, <1>8, RecWrites, RecTypes DEF Rec!Call, Rec!Open

(* So the steps of a route are steps that the cache sees.                   *)
LEMMA RecRouteStep ==
  ASSUME IType, ShareInv, wire \in Seq(Piece), Current > 0, chunks' = chunks,
         state \in {"line", "headers"} => chunks[Current] = <<>>,
         RouteStep, ~Fail
  PROVE  Rec!RouteStep /\ Rec!Open' /\ Current' = Current /\ routes' = routes
<1>1. \A call : Call(call) => Rec!Call(call) /\ Current' = Current /\ routes' = routes
  BY RecCall DEF Call
<1>2. /\ Rec!Now.chunks = Now.chunks /\ Rec!Now.size = Now.size
      /\ Rec!Now.chunks = [r \in 1..Len(routes) |-> [routes[r] EXCEPT !.head = FALSE]][Rec!Current].chunks
      /\ Rec!Now.size = [r \in 1..Len(routes) |-> [routes[r] EXCEPT !.head = FALSE]][Rec!Current].size
  BY RecNow DEF IType, TypeOK, Rec!Now
<1>3. UNCHANGED tail => UNCHANGED [r \in Responses |-> <<>>]
  OBVIOUS
<1>4. CASE AddBodyTransform
  BY <1>1, <1>3, <1>4 DEF AddBodyTransform, Rec!AddBodyTransform, Rec!RouteStep, Returns, Rec!Returns, streams, Rec!streams, Rec!Open
<1>5. CASE AddRawBodyTransform
  BY <1>1, <1>3, <1>5 DEF AddRawBodyTransform, Rec!AddRawBodyTransform, Rec!RouteStep, Returns, Rec!Returns, streams, Rec!streams, Rec!Open
<1>6. CASE Header
  BY <1>1, <1>3, <1>6 DEF Header, Rec!Header, Rec!RouteStep, Returns, Rec!Returns, streams, Rec!streams, Rec!Open
<1>7. CASE SetBodySize
  BY <1>1, <1>2, <1>3, <1>7 DEF SetBodySize, Rec!SetBodySize, Rec!RouteStep, Returns, Rec!Returns, streams, Rec!streams, Rec!Open, Now
<1>8. CASE Status
  BY <1>1, <1>3, <1>8 DEF Status, Rec!Status, Rec!RouteStep, streams, Rec!streams, Rec!Open
<1>9. CASE SendBody
  BY <1>1, <1>2, <1>3, <1>9 DEF SendBody, Rec!SendBody, Rec!RouteStep, streams, Rec!streams, Rec!Open, Now
<1>10. CASE SendEmptyBody
  BY <1>1, <1>3, <1>10 DEF SendEmptyBody, Rec!SendEmptyBody, Rec!RouteStep, response, Rec!response, streams, Rec!streams, Rec!Open
<1>11. CASE Framing
  BY <1>1, <1>3, <1>11 DEF Framing, Rec!Framing, Rec!ShouldUseChunking, ShouldUseChunking, Rec!RouteStep, Returns, Rec!Returns, streams, Rec!streams, Rec!Open
<1>12. CASE EndHeaders
  BY <1>1, <1>3, <1>12 DEF EndHeaders, Rec!EndHeaders, Rec!RouteStep, Returns, Rec!Returns, streams, Rec!streams, Rec!Open
<1>13. CASE EndBody
  BY <1>1, <1>3, <1>13 DEF EndBody, Rec!EndBody, Rec!RouteStep, Returns, Rec!Returns, streams, Rec!streams, Rec!Open
<1>14. CASE Pipe
  BY <1>1, <1>2, <1>3, <1>14 DEF Pipe, Rec!Pipe, Rec!RouteStep, Returns, Rec!Returns, response, Rec!response, Rec!Open, Now
<1>15. CASE FramerClosed
  BY <1>1, <1>3, <1>15 DEF FramerClosed, Rec!FramerClosed, Rec!RouteStep, Returns, Rec!Returns, response, Rec!response, streams, Rec!streams, Rec!Open
<1> QED
  BY <1>4, <1>5, <1>6, <1>7, <1>8, <1>9, <1>10, <1>11, <1>12, <1>13, <1>14, <1>15 DEF RouteStep

(* What the cache sees as assumptions of the connection.                    *)
LEMMA RecAssumptions ==
  /\ Routes \subseteq Rec!Route /\ MaxResponses \in Nat
  /\ HighWaterMark \in Nat \ {0} /\ PeerMayClose \in BOOLEAN
BY RecRoute, RoutesAssumption, MaxResponsesAssumption, HighWaterMarkAssumption, PeerAssumption

(* Nothing that is seen changes. *)
LEMMA PhaseStutters ==
  ASSUME Phase, Seen' = Seen, ~Open => ~Open',
         UNCHANGED <<routes, plan, state, chunked, transform, source, encoder, framer, eof>>
  PROVE  Phase'
<1>1. /\ Rec!Ahead' = Rec!Ahead /\ Rec!Current' = Rec!Current /\ Rec!Now' = Rec!Now
      /\ Rec!Left' = Rec!Left /\ Rec!InternalCalls' = Rec!InternalCalls
      /\ Idle' = Idle
  BY DEF Rec!Ahead, Rec!Heads, Rec!Current, Rec!Now, Rec!Left, Rec!InternalCalls, Idle
<1>2. \A k : Rec!At(k) => Rec!At(k)'
  BY DEF Rec!At, Rec!SendPlan, Rec!InternalCalls
<1>3. /\ Rec!Still => Rec!Still'
      /\ Rec!HasEmptyChunk' => Rec!HasEmptyChunk
      /\ Rec!AllUnits' = Rec!AllUnits
      /\ Rec!Known => Rec!Known'
  BY <1>1 DEF Rec!Still, Rec!HasEmptyChunk, Rec!AllUnits, Rec!Known
<1>4. Rec!Heading => Rec!Heading'
  BY <1>1, <1>3 DEF Rec!Heading
<1>5. CASE Rec!Unsent
  BY <1>1, <1>3, <1>5 DEF Rec!Unsent, Rec!Opened, Phase
<1>6. CASE Rec!AtFraming
  BY <1>1, <1>2, <1>4, <1>6 DEF Rec!AtFraming, Phase
<1>7. CASE Rec!AtDefaults
  BY <1>1, <1>2, <1>3, <1>4, <1>7 DEF Rec!AtDefaults, Phase
<1>8. CASE Rec!AtEndHeaders
  BY <1>1, <1>2, <1>3, <1>4, <1>8 DEF Rec!AtEndHeaders, Phase
<1>9. CASE Rec!AtPipe
  BY <1>1, <1>2, <1>3, <1>4, <1>9 DEF Rec!AtPipe, Phase
<1>10. CASE Rec!Flows
  <2>1. Rec!Reading => Rec!Reading'
    BY <1>1 DEF Rec!Reading
  <2>2. Rec!Encoding => Rec!Encoding'
    BY <1>1, <1>3 DEF Rec!Encoding
  <2>3. Rec!Ending => Rec!Ending'
    BY <1>1, <1>3 DEF Rec!Ending
  <2> QED
    BY <1>1, <1>2, <1>10, <2>1, <2>2, <2>3 DEF Rec!Flows, Phase
<1>11. CASE Rec!Done
  BY <1>1, <1>3, <1>11 DEF Rec!Done, Phase
<1>12. CASE Failed
  BY <1>1, <1>12 DEF Failed, Phase
<1> QED
  BY <1>5, <1>6, <1>7, <1>8, <1>9, <1>10, <1>11, <1>12 DEF Phase

(* A route that fails has not begun its body, or is done with it.           *)
LEMMA PhaseFails ==
  ASSUME IType, Phase, Fail, Seen' = Seen
  PROVE  Phase'
<1>1. /\ plan' = <<>> /\ ~Open' /\ Idle' /\ ~Idle
      /\ UNCHANGED <<routes, state, chunked, transform, source, encoder, framer, eof>>
  BY DEF Fail, Idle, Open, response, streams
<1>2. CASE Rec!Unsent \/ Rec!AtFraming \/ Rec!AtDefaults \/ Rec!AtEndHeaders \/ Rec!AtPipe
  BY <1>1, <1>2 DEF Phase, Failed, Rec!Unsent, Rec!AtFraming, Rec!AtDefaults, Rec!AtEndHeaders,
    Rec!AtPipe, Rec!Heading
<1>3. ~Rec!Flows
  <2> SUFFICES ASSUME Rec!Flows
               PROVE  FALSE
    OBVIOUS
  <2>1. Head(plan) = "closed"
    <3>1. Len(plan) >= 1 /\ plan[1] = "closed"
      <4>1. Rec!At(5)
        BY DEF Rec!Flows
      <4>2. Rec!SendPlan[5] = "closed"
        BY DEF Rec!SendPlan
      <4> QED
        BY <4>1, <4>2 DEF Rec!At
    <3> QED
      BY <3>1 DEF IType, TypeOK
  <2>2. state \in Allowed("closed") /\ Writes("closed") = <<>>
    BY DEF Allowed, Writes, IType, TypeOK
  <2> QED
    BY <2>1, <2>2 DEF Fail
<1>4. CASE Rec!Done
  <2>1. Rec!Left' = {}
    BY <1>1 DEF Rec!Left
  <2>2. Rec!Ahead' = Rec!Ahead /\ Rec!Current' = Rec!Current /\ Rec!AllUnits' = Rec!AllUnits
    BY <1>1 DEF Rec!Ahead, Rec!Heads, Rec!Current, Rec!AllUnits, Rec!Now
  <2> QED
    BY <1>1, <1>4, <2>1, <2>2 DEF Rec!Done, Rec!Still, Phase
<1> QED
  BY <1>1, <1>2, <1>3, <1>4 DEF Phase, Failed

(* The calls of a route that is sound, one phase after the other. *)
LEMMA PhaseRoute ==
  ASSUME IType, ShareInv, wire \in Seq(Piece), Current > 0, chunks' = chunks,
         state \in {"line", "headers"} => chunks[Current] = <<>>,
         RouteStep, ~Fail, Made, Transforming, Sound(Now), Phase
  PROVE  Phase'
<1>1. Rec!IType /\ Rec!RouteStep /\ Rec!Open' /\ Rec!Current \in Rec!Responses /\ ~Rec!Now.head
  <2>1. Current \in Responses /\ routes \in Seq(Route)
    BY MaxResponsesAssumption DEF IType, TypeOK, Responses, Current
  <2> QED
    BY <2>1, RecType, RecRouteStep, RecNow, RecTypes
<1>2. ~Idle /\ plan \in Seq(Calls) /\ plan # <<>>
  BY RouteStepBusy DEF Idle, IType, TypeOK
<1>3. CASE Rec!Unsent
  <2>1. /\ ~Rec!Sends => Rec!Unsent'
        /\ Rec!Quietly \/ Rec!Begins \/ Rec!Sends \/ Rec!SendsNone \/ Rec!HeadersEnd \/ Rec!BodyEnds
        /\ UNCHANGED <<Rec!streams, chunked>>
        /\ UNCHANGED [r \in 1..Len(routes) |-> [routes[r] EXCEPT !.head = FALSE]]
        /\ Head(plan) # "transform" => transform' = transform
    BY <1>1, <1>3, RecAssumptions, Rec!UnsentStep
  <2>2. CASE Rec!Sends
    <3>1. Head(plan) \in {"buffered", "streamed"} /\ state = "headers"
      BY <2>2 DEF Rec!Sends
    <3>2. Rec!HasEmptyChunk => transform'
      <4>1. transform' = transform
        BY <2>1, <3>1
      <4>2. Rec!HasEmptyChunk => Transforms(Now)
        <5>1. Rec!Now.chunks = Now.chunks
          BY RecNow DEF IType, TypeOK
        <5> QED
          BY <5>1 DEF Rec!HasEmptyChunk, Sound
      <4>3. ~TransformAhead(plan)
        BY <1>2, <3>1, TransformTail DEF Ends
      <4> QED
        BY <1>2, <3>1, <4>1, <4>2, <4>3 DEF Transforming
    <3>3. Rec!AtFraming'
      BY <1>1, <1>2, <1>3, <2>1, <2>2, <3>2, RecAssumptions, Rec!SendStarts
    <3> QED
      BY <3>3 DEF Phase
  <2> QED
    BY <2>1, <2>2 DEF Phase
<1>4. CASE Rec!AtFraming
  <2>1. bodySize # 0 => bodySize = Rec!Total(Rec!Now.chunks)
    <3>1. bodySize # 0 => bodySize = Now.size /\ (Makes(Current, "buffered") \/ Makes(Current, "size"))
      BY DEF Made
    <3>2. (Makes(Current, "buffered") \/ Makes(Current, "size")) => Now.size = Total(Now.chunks)
      BY DEF Sound, Does, Makes, Now
    <3>3. Rec!Now.chunks = Now.chunks
      BY RecNow DEF IType, TypeOK
    <3> QED
      BY <3>1, <3>2, <3>3, RecTotal
  <2>2. Rec!AtDefaults'
    BY <1>1, <1>4, <2>1, RecAssumptions, Rec!FramingStep
  <2> QED
    BY <2>2 DEF Phase
<1>5. CASE Rec!AtDefaults
  BY <1>1, <1>5, RecAssumptions, Rec!DefaultsStep DEF Phase
<1>6. CASE Rec!AtEndHeaders
  BY <1>1, <1>6, RecAssumptions, Rec!EndHeadersStep DEF Phase
<1>7. CASE Rec!AtPipe
  BY <1>1, <1>7, RecAssumptions, Rec!PipeStep DEF Phase
<1>8. CASE Rec!Flows
  BY <1>1, <1>8, RecAssumptions, Rec!ClosedStep DEF Phase
<1>9. CASE Rec!Done
  BY <1>1, <1>9, RecAssumptions, Rec!DoneStep DEF Phase
<1>10. ~Failed
  BY <1>2 DEF Failed
<1> QED
  BY <1>3, <1>4, <1>5, <1>6, <1>7, <1>8, <1>9, <1>10 DEF Phase

(* A body flows in one phase only.                                          *)
LEMMA PhaseFlowing ==
  ASSUME IType, Phase, Flowing
  PROVE  Rec!Flows
<1>1. ~Idle /\ plan \in Seq(Calls) /\ plan # <<>> /\ Head(plan) = "closed" /\ plan[1] = "closed"
  BY DEF Flowing, Idle, IType, TypeOK
<1>2. Rec!Left \cap Rec!InternalCalls # {}
  BY <1>1, LeftHead, RecTypes DEF InternalCalls
<1>3. ~Rec!At(1) /\ ~Rec!At(2) /\ ~Rec!At(3) /\ ~Rec!At(4)
  <2>1. /\ Rec!SendPlan[1] = "framing" /\ Rec!SendPlan[2] = "defaults"
        /\ Rec!SendPlan[3] = "endHeaders" /\ Rec!SendPlan[4] = "pipe"
    BY DEF Rec!SendPlan
  <2>2. \A k \in 1..4 : Rec!At(k) => plan[1] = Rec!SendPlan[k]
    <3> SUFFICES ASSUME NEW k \in 1..4, Rec!At(k)
                 PROVE  plan[1] = Rec!SendPlan[k]
      OBVIOUS
    <3>1. 1 \in 1..(6 - k) /\ 1 + k - 1 = k
      OBVIOUS
    <3> QED
      BY <3>1 DEF Rec!At
  <2> QED
    BY <1>1, <2>1, <2>2
<1> QED
  BY <1>1, <1>2, <1>3 DEF Phase, Failed, Rec!Unsent, Rec!Done, Rec!AtFraming, Rec!AtDefaults,
    Rec!AtEndHeaders, Rec!AtPipe

(* The streams before the raw transform are those that the cache sees.      *)
LEMMA RecStreams ==
  ASSUME routes \in Seq(Route), Current > 0, chunks' = chunks
  PROVE  /\ Read => Rec!Read
         /\ SourceEnds => Rec!SourceEnds
         /\ Encode => Rec!Encode
         /\ EncoderEnds => Rec!EncoderEnds
         /\ (FramerCloses \/ \E r \in Responses : FlushRaw(r)) =>
              UNCHANGED <<routes, plan, response, source, encoder, framer>>
<1>1. /\ UNCHANGED <<wire, routes>> => Seen' = Seen
      /\ UNCHANGED routes => UNCHANGED [r \in 1..Len(routes) |-> [routes[r] EXCEPT !.head = FALSE]]
      /\ UNCHANGED [r \in Responses |-> <<>>]
  BY DEF Seen, Current
<1>2. /\ Rec!Current = Current /\ \A size : Rec!Framed(size) = Framed(size)
      /\ Rec!ZeroChunk = ZeroChunk
  <2>1. Rec!Current = Current
    BY RecNow
  <2> QED
    BY <2>1 DEF Rec!Framed, Framed, Rec!ZeroChunk, ZeroChunk
<1>3. Streaming /\ UNCHANGED <<tail, wire>> => Rec!Streaming /\ UNCHANGED <<Seen, routes, [r \in Responses |-> <<>>]>>
  BY <1>1 DEF Streaming, Rec!Streaming
<1>4. Read => Rec!Read
  BY <1>2, <1>3 DEF Read, Rec!Read, Flowing, Rec!Flowing, Idle, Rec!Idle
<1>5. SourceEnds => Rec!SourceEnds
  BY <1>2, <1>3 DEF SourceEnds, Rec!SourceEnds, Final, Rec!Final, Flowing, Rec!Flowing, Idle, Rec!Idle
<1>6. Encode => Rec!Encode
  BY <1>2, <1>3 DEF Encode, Rec!Encode, Flowing, Rec!Flowing, Idle, Rec!Idle
<1>7. EncoderEnds => Rec!EncoderEnds
  BY <1>2, <1>3 DEF EncoderEnds, Rec!EncoderEnds, Final, Rec!Final, Flowing, Rec!Flowing, Idle, Rec!Idle
<1>8. FramerCloses => UNCHANGED <<routes, plan, response, source, encoder, framer>>
  BY DEF FramerCloses, Streaming, response
<1>9. ASSUME NEW r \in Responses, FlushRaw(r)
      PROVE  UNCHANGED <<routes, plan, response, source, encoder, framer>>
  BY <1>9 DEF FlushRaw
<1> QED
  BY <1>4, <1>5, <1>6, <1>7, <1>8, <1>9

(* The body flows to the cache.                                             *)
LEMMA PhaseStream ==
  ASSUME IType, ShareInv, wire \in Seq(Piece), Current > 0, chunks' = chunks,
         Read \/ SourceEnds \/ Encode \/ EncoderEnds \/ FramerCloses, Phase
  PROVE  Phase'
<1>1. /\ Rec!IType /\ Rec!Current \in Rec!Responses /\ routes \in Seq(Route)
      /\ Current \in Responses
  <2>1. Current \in Responses /\ routes \in Seq(Route)
    BY MaxResponsesAssumption DEF IType, TypeOK, Responses, Current
  <2> QED
    BY <2>1, RecType, RecNow, RecTypes
<1>2. Rec!Flows
  BY PhaseFlowing DEF Read, SourceEnds, Encode, EncoderEnds, FramerCloses
<1>3. /\ Read => Rec!Read
      /\ SourceEnds => Rec!SourceEnds
      /\ Encode => Rec!Encode
      /\ EncoderEnds => Rec!EncoderEnds
  BY <1>1, RecStreams
<1>4. CASE Read
  BY <1>1, <1>2, <1>3, <1>4, RecAssumptions, Rec!ReadStep DEF Phase
<1>5. CASE SourceEnds
  BY <1>1, <1>2, <1>3, <1>5, RecAssumptions, Rec!SourceEndsStep DEF Phase
<1>6. CASE Encode
  BY <1>1, <1>2, <1>3, <1>6, RecAssumptions, Rec!EncodeStep DEF Phase
<1>7. CASE EncoderEnds
  BY <1>1, <1>2, <1>3, <1>7, RecAssumptions, Rec!EncoderEndsStep DEF Phase
<1>8. CASE FramerCloses
  <2>1. /\ UNCHANGED <<routes, plan, transform, chunked, source, encoder, state, framer, wire>>
        /\ eof = "framer" /\ eof' = "closed" /\ framer = <<>>
    BY <1>8 DEF FramerCloses, Streaming
  <2>2. Rec!Ahead' = Rec!Ahead
    BY <2>1 DEF Rec!Ahead, Rec!Heads, Rec!Current, Seen, Current
  <2>3. Rec!Flows'
    BY <1>1, <1>2, <2>1, <2>2, RecAssumptions, Rec!FlowsKept
  <2> QED
    BY <2>3 DEF Phase
<1> QED
  BY <1>4, <1>5, <1>6, <1>7, <1>8

(* A chunk reaches the raw transform, which records it.                     *)
LEMMA PhaseRecord ==
  ASSUME IType, ShareInv, wire \in Seq(Piece), Current > 0, Record, raw,
         recorder[Current] = "on", Phase
  PROVE  Phase'
<1>1. /\ Rec!IType /\ Rec!Current \in Rec!Responses /\ routes \in Seq(Route)
      /\ Current \in Responses /\ Heard(wire, Current, HeadParts) \in Seq(Piece)
  <2>1. Current \in Responses /\ routes \in Seq(Route)
    BY MaxResponsesAssumption DEF IType, TypeOK, Responses, Current
  <2> QED
    BY <2>1, RecType, RecNow, RecTypes
<1>2. /\ framer # <<>> /\ framer' = Tail(framer) /\ Flowing
      /\ UNCHANGED <<routes, plan, transform, chunked, source, encoder, state, eof, wire>>
      /\ chunks' = [chunks EXCEPT ![Current] = Append(@, Head(framer))]
  BY DEF Record, Flush, Streaming
<1>3. Rec!Flows
  BY <1>2, PhaseFlowing
<1>4. Seen' = Append(Seen, Head(framer))
  <2>1. PICK b \in Seq(Piece) : b = chunks[Current]
    <3>1. chunks[Current] \in Seq(BodyPieces)
      BY <1>1 DEF ShareInv
    <3>2. \A x \in Seq(BodyPieces) : x \in Seq(Piece)
      BY DEF BodyPieces
    <3> QED
      BY <3>1, <3>2
  <2>2. PICK h \in Seq(Piece) : h = Heard(wire, Current, HeadParts)
    BY <1>1
  <2>3. Head(framer) \in Piece
    BY <1>2 DEF IType, TypeOK
  <2>4. h \o Append(b, Head(framer)) = Append(h \o b, Head(framer))
    BY <2>3, AppendBehind
  <2>5. chunks'[Current] = Append(b, Head(framer)) /\ Current' = Current
    BY <1>1, <1>2, <2>1 DEF ShareInv, Current
  <2>6. Seen' = h \o Append(b, Head(framer)) /\ Seen = h \o b
    BY <1>2, <2>1, <2>2, <2>5 DEF Seen
  <2> QED
    BY <2>4, <2>6
<1>5. Rec!Ahead' = Rec!Ahead
  BY <1>1, <1>2, <1>4, RecAssumptions, Rec!AheadFlushed
<1>6. Rec!Flows'
  BY <1>1, <1>2, <1>3, <1>5, RecAssumptions, Rec!FlowsKept
<1> QED
  BY <1>6 DEF Phase

--------------------------------------------------------------------------------
(* What a call of a route does to the plan.                                 *)
LEMMA RouteMoves ==
  ASSUME IType, RouteStep, ~Fail
  PROVE  /\ plan \in Seq(Calls) /\ plan # <<>>
         /\ UNCHANGED <<routes, eof, socket>>
         /\ \/ plan' = Tail(plan) /\ Head(plan) \notin {"status", "buffered", "streamed", "empty"}
            \/ Head(plan) = "status" /\ plan' = [i \in 1..enqueued |-> "header"] \o Tail(plan)
            \/ /\ Head(plan) \in {"buffered", "streamed"}
               /\ plan' = <<"framing", "defaults", "endHeaders", "pipe", "closed">> \o Tail(plan)
            \/ Head(plan) = "empty" /\ plan' = <<"defaults", "endHeaders", "endBody">> \o Tail(plan)
         /\ Head(plan) = "transform" => transform' = TRUE /\ state \in {"line", "headers"}
         /\ Head(plan) # "transform" => transform' = transform
         /\ Head(plan) = "closed" => eof = "closed"
         /\ Head(plan) # "endHeaders" =>
              (state \in {"line", "headers"} => state' \in {"line", "headers"})
         /\ state' \in {"line", "headers"} => state \in {"line", "headers"}
<1>1. plan \in Seq(Calls) /\ plan # <<>>
  BY RouteStepBusy DEF IType, TypeOK, Idle
<1>2. \A call : Call(call) => Head(plan) = call /\ state \in Allowed(call) /\ UNCHANGED <<routes, socket>>
  BY DEF Call
<1>3. CASE AddBodyTransform
  <2>1. Head(plan) = "transform" /\ UNCHANGED <<routes, socket, eof, state>>
    BY <1>2, <1>3 DEF AddBodyTransform, streams
  <2>2. state \in {"line", "headers"}
    BY <1>3 DEF AddBodyTransform, Call, Allowed
  <2>3. plan' = Tail(plan) /\ transform' = TRUE
    BY <1>3 DEF AddBodyTransform, Returns
  <2> QED
    BY <1>1, <2>1, <2>2, <2>3
<1>4. CASE AddRawBodyTransform
  BY <1>1, <1>2, <1>4 DEF AddRawBodyTransform, Returns, streams
<1>5. CASE Header
  <2>1. Head(plan) \in {"header", "defaults"} /\ UNCHANGED <<routes, socket, eof, state>>
    BY <1>2, <1>5 DEF Header, streams
  <2>2. plan' = Tail(plan) /\ transform' = transform
    BY <1>5 DEF Header, Returns
  <2> QED
    BY <1>1, <2>1, <2>2
<1>6. CASE SetBodySize
  BY <1>1, <1>2, <1>6 DEF SetBodySize, Returns, streams
<1>7. CASE Status
  <2>1. Head(plan) = "status" /\ UNCHANGED <<routes, socket, eof>> /\ state = "line"
    BY <1>7 DEF Status, Call, streams, Allowed
  <2>2. /\ plan' = [i \in 1..enqueued |-> "header"] \o Tail(plan)
        /\ transform' = transform /\ state' = "headers"
    BY <1>7 DEF Status
  <2> QED
    BY <1>1, <2>1, <2>2
<1>8. CASE SendBody
  BY <1>1, <1>2, <1>8 DEF SendBody, streams
<1>9. CASE SendEmptyBody
  BY <1>1, <1>2, <1>9 DEF SendEmptyBody, streams, response
<1>10. CASE Framing
  BY <1>1, <1>2, <1>10 DEF Framing, Returns, streams
<1>11. CASE EndHeaders
  BY <1>1, <1>2, <1>11 DEF EndHeaders, Returns, streams
<1>12. CASE EndBody
  <2>1. state = "body" /\ state' = "finished"
    BY <1>2, <1>12 DEF EndBody, Allowed
  <2> QED
    BY <1>1, <1>2, <1>12, <2>1 DEF EndBody, Returns, streams
<1>13. CASE Pipe
  BY <1>1, <1>2, <1>13 DEF Pipe, Returns, response
<1>14. CASE FramerClosed
  BY <1>1, <1>2, <1>14 DEF FramerClosed, Returns, streams, response
<1> QED
  BY <1>3, <1>4, <1>5, <1>6, <1>7, <1>8, <1>9, <1>10, <1>11, <1>12, <1>13, <1>14 DEF RouteStep

(* Whether a transform is ahead, when the plan loses its first call.        *)
LEMMA AheadTail ==
  ASSUME NEW p \in Seq(Calls), p # <<>>
  PROVE  /\ Head(p) \in Ends => ~TransformAhead(p)
         /\ Head(p) = "transform" => TransformAhead(p)
         /\ Head(p) \notin Ends \cup {"transform"} => (TransformAhead(p) <=> TransformAhead(Tail(p)))
<1>1. /\ Len(p) \in Nat /\ 1 \in 1..Len(p) /\ p[1] = Head(p)
      /\ InTime(p, 1) <=> Head(p) \notin Ends
      /\ \A i \in 1..Len(Tail(p)) :
           /\ i + 1 \in 1..Len(p) /\ Tail(p)[i] = p[i + 1]
           /\ InTime(p, i + 1) <=> Head(p) \notin Ends /\ InTime(Tail(p), i)
  BY InTimeTail
<1>2. TransformAhead(p) => Head(p) \notin Ends /\ (Head(p) = "transform" \/ TransformAhead(Tail(p)))
  BY TransformTail
<1>3. Head(p) = "transform" => TransformAhead(p)
  BY <1>1 DEF TransformAhead, Ends
<1>4. (Head(p) \notin Ends /\ TransformAhead(Tail(p))) => TransformAhead(p)
  BY <1>1 DEF TransformAhead
<1> QED
  BY <1>2, <1>3, <1>4

(* And when other calls are put in front.                                   *)
LEMMA AheadPut ==
  ASSUME NEW made \in Seq(Calls), NEW rest \in Seq(Calls),
         \A i \in 1..Len(made) : made[i] # "transform"
  PROVE  /\ (\E i \in 1..Len(made) : made[i] \in Ends) => ~TransformAhead(made \o rest)
         /\ (\A i \in 1..Len(made) : made[i] \notin Ends) =>
              (TransformAhead(made \o rest) <=> TransformAhead(rest))
<1>1. PICK p \in Seq(Calls) : p = made \o rest
  <2>1. made \o rest \in Seq(Calls)
    OBVIOUS
  <2> QED
    BY <2>1
<1>2. /\ Len(made) \in Nat /\ Len(rest) \in Nat /\ Len(p) = Len(made) + Len(rest)
      /\ \A j \in 1..Len(made) : p[j] = made[j]
      /\ \A j \in 1..Len(rest) : p[Len(made) + j] = rest[j]
  BY <1>1
<1>3. ASSUME NEW i \in 1..Len(p), p[i] = "transform", InTime(p, i)
      PROVE  /\ \A j \in 1..Len(made) : made[j] \notin Ends
             /\ TransformAhead(rest)
  <2>1. i \notin 1..Len(made)
    BY <1>2, <1>3
  <2>2. \A j \in 1..i : p[j] \notin Ends
    BY <1>3 DEF InTime
  <2>3. \A j \in 1..Len(made) : made[j] \notin Ends
    <3> SUFFICES ASSUME NEW j \in 1..Len(made)
                 PROVE  made[j] \notin Ends
      OBVIOUS
    <3>1. j \in 1..i /\ p[j] = made[j]
      BY <1>2, <2>1
    <3> QED
      BY <2>2, <3>1
  <2>4. PICK k \in 1..Len(rest) : i = Len(made) + k
    <3>1. i - Len(made) \in 1..Len(rest) /\ i = Len(made) + (i - Len(made))
      BY <1>2, <2>1
    <3> QED
      BY <3>1
  <2>5. rest[k] = "transform"
    BY <1>2, <1>3, <2>4
  <2>6. ASSUME NEW j \in 1..k
        PROVE  rest[j] \notin Ends
    <3>1. Len(made) + j \in 1..i /\ j \in 1..Len(rest)
      BY <1>2, <2>4
    <3>2. p[Len(made) + j] = rest[j]
      BY <1>2, <3>1
    <3> QED
      BY <2>2, <3>1, <3>2
  <2>7. TransformAhead(rest)
    BY <2>5, <2>6 DEF TransformAhead, InTime
  <2> QED
    BY <2>3, <2>7
<1>4. TransformAhead(p) => (\A j \in 1..Len(made) : made[j] \notin Ends) /\ TransformAhead(rest)
  BY <1>3 DEF TransformAhead
<1> QED
  BY <1>1, <1>4, TransformPut

(* Calls leave the transform that there is, or will be, in time.            *)
LEMMA TransformingRoute ==
  ASSUME IType, Current > 0, RouteStep, ~Fail, Transforming
  PROVE  Transforming'
<1>1. /\ plan \in Seq(Calls) /\ plan # <<>> /\ ~Idle /\ enqueued \in Nat
      /\ routes' = routes /\ (Transforms(Now)' <=> Transforms(Now))
      /\ transform \in BOOLEAN
      /\ Tail(plan) \in Seq(Calls)
  <2>1. UNCHANGED routes /\ plan \in Seq(Calls) /\ plan # <<>>
    BY RouteMoves
  <2> QED
    BY <2>1 DEF Idle, IType, TypeOK, Now, Current, Transforms
<1>2. CASE state \in {"line", "headers"}
  <2>1. (transform \/ TransformAhead(plan)) <=> Transforms(Now)
    BY <1>1, <1>2 DEF Transforming
  <2>2. CASE plan' = Tail(plan) /\ Head(plan) \notin {"status", "buffered", "streamed", "empty", "endHeaders"}
    <3>1. state' \in {"line", "headers"}
      BY <1>2, <2>2, RouteMoves
    <3>2. (transform' \/ TransformAhead(Tail(plan))) <=> (transform \/ TransformAhead(plan))
      <4>1. Head(plan) # "transform" => Head(plan) \notin Ends \cup {"transform"}
        BY <2>2 DEF Ends
      <4>2. /\ Head(plan) = "transform" => transform' = TRUE
            /\ Head(plan) # "transform" => transform' = transform
        BY RouteMoves
      <4> QED
        BY <1>1, <4>1, <4>2, AheadTail
    <3>3. TransformAhead(plan)' <=> TransformAhead(Tail(plan))
      BY <2>2 DEF TransformAhead
    <3> QED
      BY <1>1, <2>1, <3>1, <3>2, <3>3 DEF Transforming
  <2>3. CASE Head(plan) = "endHeaders"
    <3>1. transform' = transform
      BY <2>3, RouteMoves
    <3>2. ~TransformAhead(plan) /\ plan' = Tail(plan)
      <4>1. Head(plan) \in Ends
        BY <2>3 DEF Ends
      <4>2. plan' = Tail(plan)
        BY <2>3, RouteMoves
      <4> QED
        BY <1>1, <4>1, <4>2, AheadTail
    <3>3. state' = "body"
      <4>1. \A call : Call(call) => Head(plan) = call
        BY DEF Call
      <4>2. EndHeaders
        BY <2>3, <4>1 DEF RouteStep, AddBodyTransform, AddRawBodyTransform, Header, SetBodySize,
          Status, SendBody, SendEmptyBody, Framing, EndBody, Pipe, FramerClosed
      <4> QED
        BY <4>2 DEF EndHeaders
    <3> QED
      BY <1>1, <2>1, <3>1, <3>2, <3>3 DEF Transforming
  <2>4. CASE Head(plan) = "status"
    <3>1. state' \in {"line", "headers"} /\ transform' = transform
      BY <1>2, <2>4, RouteMoves
    <3>2. PICK made \in Seq(Calls) : made = [i \in 1..enqueued |-> "header"]
      <4>1. [i \in 1..enqueued |-> "header"] \in Seq(Calls)
        BY <1>1 DEF Calls
      <4> QED
        BY <4>1
    <3>3. plan' = made \o Tail(plan)
      BY <2>4, <3>2, RouteMoves
    <3>4. \A i \in 1..Len(made) : made[i] = "header"
      BY <1>1, <3>2
    <3>5. \A i \in 1..Len(made) : made[i] # "transform" /\ made[i] \notin Ends
      BY <3>4 DEF Ends
    <3>6. TransformAhead(made \o Tail(plan)) <=> TransformAhead(plan)
      <4>1. TransformAhead(made \o Tail(plan)) <=> TransformAhead(Tail(plan))
        BY <1>1, <3>5, AheadPut
      <4>2. Head(plan) \notin Ends \cup {"transform"}
        BY <2>4 DEF Ends
      <4> QED
        BY <1>1, <4>1, <4>2, AheadTail
    <3>7. TransformAhead(plan)' <=> TransformAhead(made \o Tail(plan))
      BY <3>3 DEF TransformAhead
    <3> QED
      BY <1>1, <2>1, <3>1, <3>6, <3>7 DEF Transforming
  <2>5. CASE Head(plan) \in {"buffered", "streamed", "empty"}
    <3>1. state' \in {"line", "headers"} /\ transform' = transform
      BY <1>2, <2>5, RouteMoves
    <3>2. PICK made \in Seq(Calls) :
            /\ plan' = made \o Tail(plan)
            /\ \A i \in 1..Len(made) : made[i] # "transform"
            /\ \E i \in 1..Len(made) : made[i] \in Ends
      <4>1. \A made \in {<<"framing", "defaults", "endHeaders", "pipe", "closed">>,
                         <<"defaults", "endHeaders", "endBody">>} :
              /\ made \in Seq(Calls)
              /\ \A i \in 1..Len(made) : made[i] # "transform"
              /\ \E i \in 1..Len(made) : made[i] \in Ends
        <5>1. ASSUME NEW made, made = <<"framing", "defaults", "endHeaders", "pipe", "closed">>
              PROVE  /\ made \in Seq(Calls)
                     /\ \A i \in 1..Len(made) : made[i] # "transform"
                     /\ 3 \in 1..Len(made) /\ made[3] \in Ends
          BY <5>1 DEF Calls, Ends
        <5>2. ASSUME NEW made, made = <<"defaults", "endHeaders", "endBody">>
              PROVE  /\ made \in Seq(Calls)
                     /\ \A i \in 1..Len(made) : made[i] # "transform"
                     /\ 2 \in 1..Len(made) /\ made[2] \in Ends
          BY <5>2 DEF Calls, Ends
        <5> QED
          BY <5>1, <5>2
      <4>2. \E made \in {<<"framing", "defaults", "endHeaders", "pipe", "closed">>,
                         <<"defaults", "endHeaders", "endBody">>} : plan' = made \o Tail(plan)
        BY <2>5, RouteMoves
      <4> QED
        BY <4>1, <4>2
    <3>3. ~TransformAhead(plan) /\ ~TransformAhead(made \o Tail(plan))
      <4>1. Head(plan) \in Ends
        BY <2>5 DEF Ends
      <4> QED
        BY <1>1, <3>2, <4>1, AheadTail, AheadPut
    <3>4. TransformAhead(plan)' <=> TransformAhead(made \o Tail(plan))
      BY <3>2 DEF TransformAhead
    <3> QED
      BY <1>1, <2>1, <3>1, <3>3, <3>4 DEF Transforming
  <2>6. plan' = Tail(plan) \/ Head(plan) \in {"status", "buffered", "streamed", "empty"}
    BY RouteMoves
  <2> QED
    BY <2>2, <2>3, <2>4, <2>5, <2>6
<1>3. CASE state \notin {"line", "headers"}
  <2>1. state' \notin {"line", "headers"} /\ transform' = transform
    BY <1>3, RouteMoves
  <2> QED
    BY <1>1, <1>3, <2>1 DEF Transforming
<1> QED
  BY <1>2, <1>3

(* So does all that is no call.                                             *)
LEMMA TransformingKept ==
  ASSUME Transforming, UNCHANGED <<routes, transform>>, plan' = plan \/ plan' = <<>>,
         state' = state \/ (state \notin {"line", "headers"} /\ state' \notin {"line", "headers"})
  PROVE  Transforming'
<1>1. Transforms(Now)' <=> Transforms(Now)
  BY DEF Now, Current, Transforms
<1>2. plan' = plan => (TransformAhead(plan)' <=> TransformAhead(plan))
  BY DEF TransformAhead
<1> QED
  BY <1>1, <1>2 DEF Transforming, Idle

(* A body that is planned is sent.                                          *)
LEMMA SendingRoute ==
  ASSUME IType, RouteStep, ~Fail, Sending
  PROVE  Sending'
<1>1. /\ plan \in Seq(Calls) /\ plan # <<>> /\ enqueued \in Nat
      /\ (SendsBody(Current)' <=> SendsBody(Current)) /\ Open' = Open /\ eof' = eof
  <2>1. UNCHANGED <<routes, eof, socket>> /\ plan \in Seq(Calls) /\ plan # <<>>
    BY RouteMoves
  <2> QED
    BY <2>1 DEF Current, SendsBody, Makes, Open, IType, TypeOK
<1>2. Left \subseteq {Head(plan)} \cup Left' /\ (Head(plan) \in {"buffered", "streamed"} => "closed" \in Left')
  <2>1. CASE plan' = Tail(plan) /\ Head(plan) \notin {"buffered", "streamed"}
    BY <1>1, <2>1, LeftReturns
  <2>2. CASE Head(plan) = "status" /\ plan' = [i \in 1..enqueued |-> "header"] \o Tail(plan)
    <3>1. PICK made \in Seq(Calls) : made = [i \in 1..enqueued |-> "header"]
      <4>1. [i \in 1..enqueued |-> "header"] \in Seq(Calls)
        BY <1>1 DEF Calls
      <4> QED
        BY <4>1
    <3>2. \A i \in 1..Len(made) : made[i] \in Calls
      OBVIOUS
    <3>3. plan' = made \o Tail(plan)
      BY <2>2, <3>1
    <3>4. Left \subseteq {Head(plan)} \cup Left'
      BY <1>1, <3>2, <3>3, LeftReplaced
    <3> QED
      BY <2>2, <3>4
  <2>3. CASE plan' = <<"framing", "defaults", "endHeaders", "pipe", "closed">> \o Tail(plan)
    <3>1. PICK made \in Seq(Calls) :
            /\ made = <<"framing", "defaults", "endHeaders", "pipe", "closed">>
            /\ 5 \in 1..Len(made) /\ made[5] = "closed"
      <4>1. ASSUME NEW made, made = <<"framing", "defaults", "endHeaders", "pipe", "closed">>
            PROVE  made \in Seq(Calls) /\ 5 \in 1..Len(made) /\ made[5] = "closed"
        BY <4>1 DEF Calls
      <4> QED
        BY <4>1
    <3>2. \A i \in 1..Len(made) : made[i] \in Calls
      OBVIOUS
    <3>3. plan' = made \o Tail(plan)
      BY <2>3, <3>1
    <3>4. Left \subseteq {Head(plan)} \cup Left' /\ \A i \in 1..Len(made) : made[i] \in Left'
      BY <1>1, <3>2, <3>3, LeftReplaced
    <3> QED
      BY <3>1, <3>4
  <2>4. CASE Head(plan) = "empty" /\ plan' = <<"defaults", "endHeaders", "endBody">> \o Tail(plan)
    <3>1. PICK made \in Seq(Calls) : made = <<"defaults", "endHeaders", "endBody">>
      <4>1. <<"defaults", "endHeaders", "endBody">> \in Seq(Calls)
        BY DEF Calls
      <4> QED
        BY <4>1
    <3>2. \A i \in 1..Len(made) : made[i] \in Calls
      OBVIOUS
    <3>3. plan' = made \o Tail(plan)
      BY <2>4, <3>1
    <3>4. Left \subseteq {Head(plan)} \cup Left'
      BY <1>1, <3>2, <3>3, LeftReplaced
    <3> QED
      BY <2>4, <3>4
  <2> QED
    BY <2>1, <2>2, <2>3, <2>4, RouteMoves
<1>3. Head(plan) = "closed" => eof = "closed"
  BY RouteMoves
<1> QED
  BY <1>1, <1>2, <1>3 DEF Sending

(* And the end of a body stays its end.                                     *)
LEMMA SendingKept ==
  ASSUME Sending, UNCHANGED <<routes, plan>>, eof = "closed" => eof' = "closed", Open' => Open
  PROVE  Sending'
<1>1. Left' = Left /\ (SendsBody(Current)' <=> SendsBody(Current))
  BY DEF Left, SendsBody, Makes, Current
<1> QED
  BY <1>1 DEF Sending

--------------------------------------------------------------------------------
(* The steps of a hit, which are no steps of a response.                    *)
Replayed == Hit \/ ReplayHeader \/ ReplayFails \/ WriteBodyImmediate

(* All others are, or leave responses and streams alone.                    *)
LEMMA CacheSteps ==
  ASSUME [CacheNext]_allVars, ~Replayed
  PROVE  [Next]_vars
<1>1. CASE Uncached
  BY <1>1 DEF Uncached, Next, Step, RouteStep, StreamStep
<1>2. CASE Miss \/ Record
  BY <1>2 DEF Miss, Record, Next, Step, RouteStep, StreamStep
<1>3. CASE \E r \in Responses : RawFinal(r) \/ Elsewhere(r)
  BY <1>3 DEF RawFinal, Elsewhere
<1>4. CASE (\E k \in Keys : Expiring(k)) \/ Tick \/ UNCHANGED allVars
  BY <1>4 DEF Expiring, Expire, Tick, allVars
<1> QED
  BY <1>1, <1>2, <1>3, <1>4 DEF CacheNext, Caching, Replayed

(* What a hit sends is of the response it answers with.                     *)
LEMMA ReplayedSends ==
  ASSUME KeysOwn, CType, Replayed
  PROVE  /\ ~Idle /\ Current \in Responses
         /\ UNCHANGED <<routes, response, streams, chunks>>
         /\ socket' \in {socket, "destroyed"}
         /\ \E b \in Seq(Piece) :
              wire' = wire \o b /\ \A i \in 1..Len(b) : b[i].who = Current
<1>1. /\ ~Idle /\ UNCHANGED <<routes, response, streams, chunks>>
      /\ socket' \in {socket, "destroyed"}
  BY DEF Replayed, Hit, UseCache, ReplayHeader, ReplayFails, WriteBodyImmediate, Replaying
<1>2. Current \in Responses
  BY <1>1, MaxResponsesAssumption DEF KeysOwn, CType, Current, Responses
<1>3. ASSUME NEW p \in Piece
      PROVE  [p EXCEPT !.who = Current] \in Piece /\ [p EXCEPT !.who = Current].who = Current
  BY <1>2 DEF Piece
<1>4. wire \in Seq(Piece)
  BY DEF CType, PiecesInv
<1>5. CASE Hit \/ ReplayFails
  <2>0. <<>> \in Seq(Piece)
    OBVIOUS
  <2>1. PICK b \in Seq(Piece) : b = <<>>
    BY <2>0, Zenon
  <2>2. wire' = wire \o b /\ \A i \in 1..Len(b) : b[i].who = Current
    BY <1>4, <1>5, <2>1 DEF Hit, ReplayFails
  <2> QED
    BY <1>1, <1>2, <2>2
<1>6. CASE ReplayHeader
  <2>1. PICK h \in Seq(Piece) : h = replay.headers
    BY DEF CType, RecordInv
  <2>2. h # <<>>
    <3>1. Replays(plan, Len(h)) /\ Len(h) \in Nat /\ plan # <<>> /\ Head(plan) = "replay"
      BY <1>6, <2>1 DEF ReplayHeader, Replaying, CType, ReplayInv, Idle
    <3>2. Len(h) # 0
      BY <3>1, ReplaysTaken
    <3> QED
      BY <3>2
  <2>3. PICK p \in Piece : p = [Head(h) EXCEPT !.who = Current] /\ p.who = Current
    <3>1. Head(h) \in Piece
      BY <2>2
    <3> QED
      BY <1>3, <3>1
  <2>4. wire' = Append(wire, p)
    BY <1>6, <2>1, <2>3 DEF ReplayHeader
  <2>5. PICK b \in Seq(Piece) : b = <<p>>
    <3>1. <<p>> \in Seq(Piece)
      OBVIOUS
    <3> QED
      BY <3>1, Zenon
  <2>6. wire' = wire \o b /\ \A i \in 1..Len(b) : b[i].who = Current
    <3>1. Len(b) = 1 /\ b[1] = p /\ p.who = Current
      BY <2>3, <2>5
    <3>2. Append(wire, p) = wire \o b
      BY <1>4, <2>5
    <3> QED
      BY <2>4, <3>1, <3>2
  <2> QED
    BY <1>1, <1>2, <2>6
<1>7. CASE WriteBodyImmediate
  <2>1. PICK b \in Seq(Piece) : b = replay.body
    BY DEF CType, RecordInv
  <2>2. DOMAIN b = 1..Len(b) /\ Len(b) \in Nat /\ \A i \in 1..Len(b) : b[i] \in Piece
    OBVIOUS
  <2>3. PICK d \in Seq(Piece) : d = [i \in 1..Len(b) |-> [b[i] EXCEPT !.who = Current]]
    <3>1. \A i \in 1..Len(b) : [b[i] EXCEPT !.who = Current] \in Piece
      BY <1>3, <2>2
    <3>2. [i \in 1..Len(b) |-> [b[i] EXCEPT !.who = Current]] \in Seq(Piece)
      BY <2>2, <3>1
    <3> QED
      BY <3>2, Zenon
  <2>4. \A i \in 1..Len(d) : d[i].who = Current
    <3>1. Len(d) = Len(b)
      BY <2>2, <2>3
    <3> QED
      BY <1>3, <2>2, <2>3, <3>1
  <2>0. <<>> \in Seq(Piece)
    OBVIOUS
  <2>5. PICK e \in Seq(Piece) : e = <<>>
    BY <2>0, Zenon
  <2>6. wire' = wire \o d \/ wire' = wire \o e
    BY <1>4, <1>7, <2>1, <2>2, <2>3, <2>5 DEF WriteBodyImmediate
  <2>7. \A i \in 1..Len(e) : e[i].who = Current
    BY <2>5
  <2> QED
    BY <1>1, <1>2, <2>4, <2>6, <2>7
<1> QED
  BY <1>5, <1>6, <1>7 DEF Replayed

(* Everything belongs to a response that has begun, and streams hold bodies.*)
LEMMA WhoKept ==
  ASSUME KeysOwn, CType, WhoInv, PartsInv, [CacheNext]_allVars
  PROVE  WhoInv' /\ PartsInv'
<1>1. CASE ~Replayed
  <2>1. Counts
    BY MaxResponsesAssumption DEF KeysOwn, CType, PiecesInv, Counts, Busy, Current, Responses
  <2> QED
    BY <1>1, <2>1, CacheSteps, WhoNext, PartsNext
<1>2. CASE Replayed
  <2>1. /\ Current \in Responses /\ UNCHANGED <<routes, framer, tail>>
        /\ \E b \in Seq(Piece) : wire' = wire \o b /\ \A i \in 1..Len(b) : b[i].who = Current
    BY <1>2, ReplayedSends DEF streams
  <2>2. PICK b \in Seq(Piece) : wire' = wire \o b /\ \A i \in 1..Len(b) : b[i].who = Current
    BY <2>1
  <2>3. Begun' = Begun /\ BodyPieces' = BodyPieces
    BY <2>1 DEF Begun, Current, BodyPieces
  <2>4. b \in Seq(Begun)
    <3>1. \A i \in 1..Len(b) : b[i] \in Piece /\ b[i].who = Current
      BY <2>2
    <3>2. Current <= Current
      BY <2>1 DEF Responses
    <3>3. \A i \in 1..Len(b) : b[i] \in Begun
      BY <3>1, <3>2 DEF Begun
    <3> QED
      BY <3>3
  <2>5. wire' \in Seq(Begun)
    BY <2>2, <2>4 DEF WhoInv
  <2> QED
    BY <2>1, <2>3, <2>5 DEF WhoInv, PartsInv
<1> QED
  BY <1>1, <1>2

(* What a call that sends anything calls itself. *)
Inserted == {"header", "framing", "defaults", "endHeaders", "pipe", "closed", "endBody"}

(* What becomes of the plan of a route that has begun.                      *)
LEMMA PlanMoves ==
  ASSUME KeysOwn, CType, [CacheNext]_allVars, ~Begin, ~Hit
  PROVE  \/ plan' = plan \/ (plan' = <<>> /\ socket' = "destroyed")
         \/ /\ plan # <<>> /\ (Head(plan) = "immediate" => state = "body")
            /\ \E made \in Seq(Inserted) : plan' = made \o Tail(plan)
<1>0. plan \in Seq(AllCalls) /\ enqueued \in Nat /\ <<>> \in Seq(Inserted)
      /\ (plan # <<>> => Tail(plan) = <<>> \o Tail(plan))
  BY DEF CType, ReplayInv, Replays, PiecesInv
<1>1. ASSUME NEW call \in Calls, Call(call)
      PROVE  plan # <<>> /\ (Head(plan) = "immediate" => state = "body")
  BY <1>1 DEF Call, Idle, Calls
<1>c. {"transform", "raw", "header", "defaults", "size", "status", "buffered", "streamed",
       "empty", "framing", "endHeaders", "endBody", "pipe", "closed"} \subseteq Calls
  BY DEF Calls
<1>2. CASE \/ AddBodyTransform \/ AddRawBodyTransform \/ Header \/ SetBodySize \/ Framing
           \/ EndHeaders \/ EndBody \/ Pipe \/ FramerClosed
  <2>1. plan' = Tail(plan) /\ \E call \in Calls : Call(call)
    BY <1>2, <1>c DEF AddBodyTransform, AddRawBodyTransform, Header, SetBodySize, Framing,
                EndHeaders, EndBody, Pipe, FramerClosed, Returns
  <2> QED
    BY <1>0, <1>1, <2>1
<1>3. CASE Status
  <2>1. [i \in 1..enqueued |-> "header"] \in Seq(Inserted)
    BY <1>0 DEF Inserted
  <2> QED
    BY <1>1, <1>3, <1>c, <2>1 DEF Status
<1>4. CASE SendBody
  <2>1. <<"framing", "defaults", "endHeaders", "pipe", "closed">> \in Seq(Inserted)
    BY DEF Inserted
  <2>2. \E call \in Calls : Call(call)
    BY <1>4, <1>c DEF SendBody
  <2> QED
    BY <1>1, <1>4, <2>1, <2>2 DEF SendBody
<1>5. CASE SendEmptyBody
  <2>1. <<"defaults", "endHeaders", "endBody">> \in Seq(Inserted)
    BY DEF Inserted
  <2> QED
    BY <1>1, <1>5, <1>c, <2>1 DEF SendEmptyBody
<1>6. CASE Fail \/ ReplayFails
  BY <1>6 DEF Fail, ReplayFails
<1>7. CASE ReplayHeader \/ WriteBodyImmediate
  <2>1. plan # <<>> /\ plan' = Tail(plan) /\ (Head(plan) = "immediate" => state = "body")
    BY <1>7 DEF ReplayHeader, WriteBodyImmediate, Replaying, Returns, Idle
  <2> QED
    BY <1>0, <2>1
<1>8. CASE StreamStep \/ PeerCloses \/ UNCHANGED vars
  BY <1>8 DEF StreamStep, PeerCloses, vars, Read, SourceEnds, Encode, EncoderEnds,
     Flush, FramerCloses, FlushRaw, Streaming
<1>9. CASE ~Replayed
  BY <1>2, <1>3, <1>4, <1>5, <1>6, <1>8, <1>9, CacheSteps DEF Next, Step, RouteStep
<1> QED
  BY <1>6, <1>7, <1>9 DEF Replayed

(* And of the calls that are left.                                          *)
LEMMA LeftMoves ==
  ASSUME KeysOwn, CType, [CacheNext]_allVars, ~Begin, ~Hit
  PROVE  /\ Left' \subseteq Left \cup Inserted
         /\ "immediate" \in Left => "immediate" \in Left' \/ plan' = <<>> \/ state = "body"
         /\ Idle => Idle'
<1>1. CASE plan' = plan \/ plan' = <<>>
  BY <1>1 DEF Left, Idle
<1>2. ASSUME plan # <<>>, Head(plan) = "immediate" => state = "body",
             NEW made \in Seq(Inserted), plan' = made \o Tail(plan)
      PROVE  /\ Left' \subseteq Left \cup Inserted
             /\ "immediate" \in Left => "immediate" \in Left' \/ state = "body"
  <2>1. PICK C : plan \in Seq(C)
    BY DEF CType, ReplayInv, Replays
  <2>2. PICK t \in Seq(C) : t = Tail(plan)
    <3>1. Tail(plan) \in Seq(C)
      BY <1>2, <2>1
    <3> QED
      BY <3>1, Zenon
  <2>3. /\ Len(t) \in Nat /\ Len(t) = Len(plan) - 1 /\ Len(plan) \in Nat
        /\ \A i \in 1..Len(t) : t[i] = plan[i + 1] /\ i + 1 \in 1..Len(plan)
        /\ Head(plan) = plan[1] /\ 1 \in 1..Len(plan)
    BY <1>2, <2>1, <2>2
  <2>4. /\ Len(made) \in Nat /\ Len(plan') = Len(made) + Len(t)
        /\ \A i \in 1..Len(made) : plan'[i] = made[i] /\ made[i] \in Inserted
        /\ \A i \in 1..Len(t) : plan'[i + Len(made)] = t[i]
    BY <1>2, <2>2
  <2>5. ASSUME NEW i \in 1..Len(plan')
        PROVE  plan'[i] \in Left \cup Inserted
    <3>1. CASE i \in 1..Len(made)
      BY <2>4, <3>1
    <3>2. CASE i \notin 1..Len(made)
      <4>1. i - Len(made) \in 1..Len(t) /\ i = (i - Len(made)) + Len(made)
        BY <2>3, <2>4, <2>5, <3>2
      <4>2. plan'[i] = t[i - Len(made)]
        BY <2>4, <4>1
      <4> QED
        BY <2>3, <4>1, <4>2 DEF Left
    <3> QED
      BY <3>1, <3>2
  <2>6. ASSUME NEW i \in 1..Len(plan), plan[i] = "immediate", state # "body"
        PROVE  "immediate" \in Left'
    <3>1. i # 1
      BY <1>2, <2>3, <2>6
    <3>2. i - 1 \in 1..Len(t) /\ (i - 1) + 1 = i
      BY <2>3, <3>1
    <3>3. t[i - 1] = "immediate"
      BY <2>3, <2>6, <3>2
    <3>4. (i - 1) + Len(made) \in 1..Len(plan') /\ plan'[(i - 1) + Len(made)] = "immediate"
      BY <2>3, <2>4, <3>2, <3>3
    <3> QED
      BY <3>4 DEF Left
  <2> QED
    BY <2>5, <2>6 DEF Left
<1>3. plan' = plan \/ plan' = <<>> \/ plan # <<>>
  BY PlanMoves
<1> QED
  BY <1>1, <1>2, <1>3, PlanMoves DEF Idle

(* A hit leaves no useCache of its route to be called.                      *)
LEMMA HitLeaves ==
  ASSUME CType, KeysOwn, Hit
  PROVE  "raw" \notin Left' /\ "immediate" \in Left'
<1>1. PICK n \in Nat : plan' = <<"status">> \o [i \in 1..n |-> "replay"]
                         \o <<"defaults", "endHeaders", "immediate", "endBody">>
  <2>1. PICK h \in Seq(Piece) : h = cache[Key(Current)].headers
    BY DEF Hit, CType, RecordInv
  <2>2. DOMAIN h = 1..Len(h) /\ Len(h) \in Nat
    OBVIOUS
  <2> QED
    BY <2>1, <2>2 DEF Hit
<1>2. PICK S : S = {"status", "replay", "defaults", "endHeaders", "immediate", "endBody"}
  OBVIOUS
<1>3. PICK a \in Seq(S), b \in Seq(S), c \in Seq(S) :
        /\ a = <<"status">> /\ b = [i \in 1..n |-> "replay"]
        /\ c = <<"defaults", "endHeaders", "immediate", "endBody">>
  <2>1. <<"status">> \in Seq(S) /\ [i \in 1..n |-> "replay"] \in Seq(S)
        /\ <<"defaults", "endHeaders", "immediate", "endBody">> \in Seq(S)
    BY <1>2
  <2> QED
    BY <2>1
<1>4. plan' = (a \o b) \o c /\ a \o b \in Seq(S) /\ plan' \in Seq(S)
  BY <1>1, <1>3
<1>5. \A i \in 1..Len(plan') : plan'[i] # "raw"
  <2>1. \A i \in 1..Len(plan') : plan'[i] \in S
    BY <1>4
  <2> QED
    BY <1>2, <2>1
<1>6. /\ Len(a \o b) \in Nat /\ Len(c) = 4 /\ c[3] = "immediate"
      /\ Len(plan') = Len(a \o b) + 4
  BY <1>3, <1>4
<1>7. Len(a \o b) + 3 \in 1..Len(plan') /\ plan'[Len(a \o b) + 3] = "immediate"
  BY <1>4, <1>6
<1> QED
  BY <1>5, <1>7 DEF Left

(* A raw transform holds no more than it may, a plan that has a hit's calls *)
(* has no useCache, and a response that has not begun has no chunks.        *)
LEMMA ShareNext ==
  ASSUME KeysOwn, CType, ShareInv, [CacheNext]_allVars
  PROVE  ShareInv'
<1>1. WhoInv' /\ PartsInv'
  BY WhoKept DEF ShareInv
<1>2. socket' \in {"open", "destroyed"}
  <2>1. socket' \in {socket, "destroyed"}
    <3>1. CASE Replayed
      BY <3>1, ReplayedSends
    <3>2. CASE ~Replayed
      BY <3>2, CacheSteps DEF Next, Step, RouteStep, StreamStep, Begin, PeerCloses, vars,
         AddBodyTransform, AddRawBodyTransform, Header, SetBodySize, Status, SendBody,
         SendEmptyBody, Framing, EndHeaders, EndBody, Pipe, FramerClosed, Fail, Call,
         Read, SourceEnds, Encode, EncoderEnds, Flush, FramerCloses, FlushRaw, Streaming
    <3> QED
      BY <3>1, <3>2
  <2> QED
    BY <2>1 DEF ShareInv
<1>3. \A r \in Responses : Len(tail'[r]) <= HighWaterMark
  <2>0. /\ \A r \in Responses : Len(tail[r]) <= HighWaterMark
        /\ tail \in [Responses -> Seq(Piece)]
    BY DEF ShareInv, CType, PiecesInv
  <2>1. CASE tail' = tail
    BY <2>0, <2>1
  <2>2. CASE Flush
    <3>1. CASE raw
      <4>1. /\ Len(tail[Current]) < HighWaterMark /\ framer # <<>>
            /\ tail' = [tail EXCEPT ![Current] = Append(@, Head(framer))]
        BY <2>2, <3>1 DEF Flush
      <4>2. Current \in Responses
        BY <2>2, MaxResponsesAssumption DEF Flush, Flowing, KeysOwn, CType, Current, Responses
      <4>3. Len(Append(tail[Current], Head(framer))) = Len(tail[Current]) + 1
            /\ Len(tail[Current]) \in Nat
        BY <2>0, <4>2
      <4>4. Len(Append(tail[Current], Head(framer))) <= HighWaterMark
        BY <4>1, <4>3, HighWaterMarkAssumption
      <4> QED
        BY <2>0, <4>1, <4>2, <4>4
    <3>2. CASE ~raw
      BY <2>0, <2>2, <3>2 DEF Flush
    <3> QED
      BY <3>1, <3>2
  <2>3. ASSUME NEW q \in Responses, FlushRaw(q)
        PROVE  \A r \in Responses : Len(tail'[r]) <= HighWaterMark
    <3>1. tail[q] # <<>> /\ tail' = [tail EXCEPT ![q] = Tail(tail[q])]
      BY <2>3 DEF FlushRaw
    <3>2. Len(Tail(tail[q])) <= Len(tail[q]) /\ Len(Tail(tail[q])) \in Nat /\ Len(tail[q]) \in Nat
      BY <2>0, <3>1
    <3>3. Len(Tail(tail[q])) <= HighWaterMark
      BY <2>0, <3>2, HighWaterMarkAssumption
    <3> QED
      BY <2>0, <3>1, <3>3
  <2>4. CASE Replayed
    BY <2>1, <2>4, ReplayedSends DEF streams
  <2>5. tail' = tail \/ Flush \/ (\E q \in Responses : FlushRaw(q)) \/ Replayed
    BY CacheSteps DEF Next, Step, RouteStep, StreamStep, Begin, PeerCloses, vars, streams,
       AddBodyTransform, AddRawBodyTransform, Header, SetBodySize, Status, SendBody,
       SendEmptyBody, Framing, EndHeaders, EndBody, Pipe, FramerClosed, Fail,
       Read, SourceEnds, Encode, EncoderEnds, FramerCloses
  <2> QED
    BY <2>1, <2>2, <2>3, <2>4, <2>5
<1>4. "immediate" \in Left' => "raw" \notin Left'
  <2>1. CASE Begin
    <3>1. PICK route \in Routes : plan' = route.calls
      BY <2>1 DEF Begin
    <3>2. plan' \in Seq(Calls)
      BY <3>1, RoutesAssumption DEF Route
    <3>3. Left' \subseteq Calls
      BY <3>2 DEF Left
    <3> QED
      BY <3>3 DEF Calls
  <2>2. CASE Hit
    BY <2>2, HitLeaves
  <2>3. CASE ~Begin /\ ~Hit
    <3>1. Left' \subseteq Left \cup Inserted
      BY <2>3, LeftMoves
    <3> QED
      BY <3>1 DEF ShareInv, Inserted
  <2> QED
    BY <2>1, <2>2, <2>3
<1>5. /\ chunks' \in [Responses -> Seq(BodyPieces)]
      /\ \A r \in Responses : r > Current' => chunks'[r] = <<>>
  <2>0. /\ chunks \in [Responses -> Seq(BodyPieces)]
        /\ \A r \in Responses : r > Current => chunks[r] = <<>>
    BY DEF ShareInv
  <2>1. CASE Record /\ recorder[Current] \in {"on", "late"}
    <3>1. /\ framer # <<>> /\ ~Idle /\ routes' = routes
          /\ chunks' = [chunks EXCEPT ![Current] = Append(chunks[Current], Head(framer))]
      BY <2>1 DEF Record, Flush, Flowing, Streaming
    <3>2. Current \in Responses /\ Current' = Current /\ Current \in Nat
      BY <3>1, MaxResponsesAssumption DEF KeysOwn, CType, Current, Responses
    <3>3. Head(framer) \in BodyPieces
      BY <3>1 DEF ShareInv, PartsInv
    <3>4. Append(chunks[Current], Head(framer)) \in Seq(BodyPieces)
      BY <2>0, <3>2, <3>3
    <3>5. \A r \in Responses : r > Current => r # Current
      BY <3>2
    <3> QED
      BY <2>0, <3>1, <3>2, <3>4, <3>5
  <2>2. CASE ~(Record /\ recorder[Current] \in {"on", "late"})
    <3>1. chunks' = chunks
      BY <2>2 DEF CacheNext, Caching, cacheVars, allVars, Hit, Miss, ReplayHeader, ReplayFails,
         WriteBodyImmediate, Replaying, Record, RawFinal, Elsewhere, Expiring, Expire, Tick
    <3>2. \A r \in Responses : r > Current' => r > Current
      <4>1. routes' = routes \/ \E route \in Routes : routes' = Append(routes, route)
        <5>1. CASE Replayed
          BY <5>1, ReplayedSends
        <5>2. CASE ~Replayed
          BY <5>2, CacheSteps DEF Next, Step, RouteStep, StreamStep, Begin, PeerCloses, vars,
             AddBodyTransform, AddRawBodyTransform, Header, SetBodySize, Status, SendBody,
             SendEmptyBody, Framing, EndHeaders, EndBody, Pipe, FramerClosed, Fail, Call,
             Read, SourceEnds, Encode, EncoderEnds, Flush, FramerCloses, FlushRaw, Streaming
        <5> QED
          BY <5>1, <5>2
      <4>2. Current' \in Nat /\ Current \in Nat /\ Current' >= Current
        BY <4>1 DEF KeysOwn, Current
      <4> QED
        BY <4>2, MaxResponsesAssumption DEF Responses
    <3> QED
      BY <2>0, <3>1, <3>2
  <2> QED
    BY <2>1, <2>2
<1>6. BodyPieces' = BodyPieces
  BY DEF BodyPieces
<1> QED
  BY <1>1, <1>2, <1>3, <1>4, <1>5, <1>6 DEF ShareInv

(* All of this holds at first. *)
LEMMA ShareInit == CacheInit => ShareInv
<1> SUFFICES ASSUME CacheInit PROVE ShareInv
  OBVIOUS
<1>1. HeadersInv
  BY HeadersInit DEF CacheInit
<1>2. chunks = [r \in Responses |-> <<>>] /\ plan = <<>>
  BY DEF CacheInit, Init
<1>3. <<>> \in Seq(BodyPieces)
  OBVIOUS
<1>4. Left = {}
  BY <1>2 DEF Left
<1> QED
  BY <1>1, <1>2, <1>3, <1>4 DEF HeadersInv, IType, TypeOK, ShareInv

--------------------------------------------------------------------------------
(* The steps of a response that has begun and is no hit.                    *)
LEMMA CacheCases ==
  ASSUME [CacheNext]_allVars, ~Begin, ~Replayed
  PROVE  \/ RouteStep /\ ~Fail /\ UNCHANGED chunks /\ (recorder' = recorder \/ Miss)
         \/ Fail /\ UNCHANGED cacheVars
         \/ (Read \/ SourceEnds \/ Encode \/ EncoderEnds \/ FramerCloses) /\ UNCHANGED cacheVars
         \/ (PeerCloses \/ \E r \in Responses : FlushRaw(r)) /\ UNCHANGED cacheVars
         \/ Record
         \/ \E r \in Responses : RawFinal(r)
         \/ UNCHANGED <<vars, chunks, recorder>>
<1>1. CASE Uncached /\ UNCHANGED cacheVars
  <2>1. UNCHANGED <<chunks, recorder>>
    BY <1>1 DEF cacheVars
  <2> QED
    BY <1>1, <2>1 DEF Uncached, RouteStep
<1>2. CASE Miss
  <2>1. AddRawBodyTransform /\ UNCHANGED chunks
    BY <1>2 DEF Miss
  <2>2. ~Fail
    <3>1. Head(plan) = "raw" /\ state \in Allowed("raw") /\ Writes("raw") = <<>>
      BY <2>1 DEF AddRawBodyTransform, Call, Writes
    <3> QED
      BY <3>1 DEF Fail
  <2> QED
    BY <1>2, <2>1, <2>2 DEF RouteStep
<1>3. CASE \E r \in Responses : Elsewhere(r)
  BY <1>3 DEF Elsewhere
<1>4. CASE (\E k \in Keys : Expiring(k)) \/ Tick \/ UNCHANGED allVars
  BY <1>4 DEF Expiring, Expire, Tick, allVars, cacheVars
<1> QED
  BY <1>1, <1>2, <1>3, <1>4 DEF CacheNext, Caching, Replayed

(* They take no route.                                                      *)
LEMMA SameRoute ==
  ASSUME KeysOwn, CType, [CacheNext]_allVars, ~Begin
  PROVE  routes' = routes /\ Current' = Current
<1>1. CASE Replayed
  BY <1>1, ReplayedSends DEF Current
<1>2. CASE ~Replayed
  BY <1>2, CacheSteps DEF Next, Step, RouteStep, StreamStep, PeerCloses, vars,
     AddBodyTransform, AddRawBodyTransform, Header, SetBodySize, Status, SendBody,
     SendEmptyBody, Framing, EndHeaders, EndBody, Pipe, FramerClosed, Fail, Call,
     Read, SourceEnds, Encode, EncoderEnds, Flush, FramerCloses, FlushRaw, Streaming, Current
<1> QED
  BY <1>1, <1>2

(* A response that begins is no matter of the cache.                        *)
LEMMA BeginAlone ==
  ASSUME KeysOwn, CType, [CacheNext]_allVars, Begin
  PROVE  UNCHANGED cacheVars
<1>1. PICK route \in Routes : routes' = Append(routes, route)
  BY DEF Begin
<1>2. routes' # routes
  <2>1. Len(routes') = Len(routes) + 1 /\ Len(routes) \in Nat
    BY <1>1 DEF KeysOwn
  <2> QED
    BY <2>1
<1>3. ~Replayed
  BY <1>2, ReplayedSends
<1>4. ~Miss /\ ~Record
  BY <1>2 DEF Miss, AddRawBodyTransform, Call, Record, Flush, Streaming
<1>5. \A r \in Responses : ~RawFinal(r) /\ ~Elsewhere(r)
  BY <1>2 DEF RawFinal, Elsewhere, vars
<1>6. (\A k \in Keys : ~Expiring(k)) /\ ~Tick /\ ~UNCHANGED allVars
  BY <1>2 DEF Expiring, Expire, Tick, allVars, vars
<1> QED
  BY <1>3, <1>4, <1>5, <1>6 DEF CacheNext, Caching, Replayed

(* Only a response that was in touch with the cache can still be.           *)
LEMMA TouchBack ==
  ASSUME KeysOwn, CType, ShareInv, [CacheNext]_allVars, ~Begin, InTouch'
  PROVE  InTouch /\ ~Hit
<1>1. routes' = routes /\ Current' = Current
  BY SameRoute
<1>2. Current > 0 /\ Current \in Responses
  BY <1>1, MaxResponsesAssumption DEF InTouch, KeysOwn, CType, Current, Responses
<1>3. ~Hit
  <2> SUFFICES ASSUME Hit
               PROVE  FALSE
    OBVIOUS
  <2>1. recorder'[Current] = "off"
    BY <1>2 DEF Hit, KeysOwn
  <2> QED
    BY <1>1, <2>1, HitLeaves DEF InTouch
<1>4. CASE state' = "line" /\ ~Idle' /\ "immediate" \notin Left'
  <2>1. ~Idle /\ ("immediate" \notin Left \/ state = "body")
    BY <1>3, <1>4, LeftMoves DEF Idle
  <2>2. state = "line"
    <3>1. CASE Replayed
      BY <1>4, <3>1, ReplayedSends DEF response
    <3>2. CASE ~Replayed
      BY <1>4, <3>2, CacheSteps DEF Next, Step, RouteStep, StreamStep, PeerCloses, vars, response,
         AddBodyTransform, AddRawBodyTransform, Header, SetBodySize, Status, SendBody,
         SendEmptyBody, Framing, EndHeaders, EndBody, Pipe, FramerClosed, Fail,
         Read, SourceEnds, Encode, EncoderEnds, Flush, FramerCloses, FlushRaw, Final
    <3> QED
      BY <3>1, <3>2
  <2> QED
    BY <1>2, <1>3, <2>1, <2>2 DEF InTouch
<1>5. CASE recorder'[Current] \in {"on", "put"} /\ recorder[Current] \notin {"on", "put"}
  <2>1. Miss /\ state = "line"
    <3>1. recorder' = recorder \/ (\E r \in Responses : RawFinal(r)) \/ Miss
      BY <1>3 DEF CacheNext, Caching, cacheVars, allVars, ReplayHeader, ReplayFails,
         WriteBodyImmediate, Replaying, Record, Elsewhere, Expiring, Expire, Tick
    <3>2. ASSUME NEW r \in Responses, RawFinal(r)
          PROVE  FALSE
      BY <1>2, <1>5, <3>2 DEF RawFinal, KeysOwn
    <3>3. Miss
      BY <1>5, <3>1, <3>2
    <3> QED
      BY <1>2, <1>5, <3>3 DEF Miss, KeysOwn
  <2>2. plan # <<>> /\ Head(plan) = "raw"
    BY <2>1 DEF Miss, UseCache, Idle
  <2>3. "raw" \in Left
    <3>1. Len(plan) \in Nat /\ Len(plan) > 0 /\ plan[1] = "raw"
      BY <2>2 DEF CType, ReplayInv, Replays
    <3> QED
      BY <3>1 DEF Left
  <2> QED
    BY <1>2, <1>3, <2>1, <2>2, <2>3 DEF InTouch, ShareInv, Idle
<1> QED
  BY <1>1, <1>2, <1>3, <1>4, <1>5 DEF InTouch

(* While it is, none of its calls writes what was recorded.                 *)
LEMMA TouchCalls ==
  ASSUME TouchInv, InTouch, ~Hit
  PROVE  ~Replayed /\ HeadersInv /\ IType /\ PlanInv /\ MadeInv
<1>1. HeadersInv /\ MadeInv
  BY DEF TouchInv
<1>2. IType /\ PlanInv
  BY <1>1 DEF HeadersInv
<1>3. ASSUME plan # <<>>
      PROVE  Head(plan) \in Calls
  BY <1>2, <1>3 DEF IType, TypeOK
<1> QED
  BY <1>1, <1>2, <1>3 DEF Replayed, ReplayHeader, ReplayFails, WriteBodyImmediate, Replaying, Idle, Calls

(* Chunks are recorded, and the end of the body is known, only after the    *)
(* headers; and what records is the raw transform.                          *)
LEMMA TouchKeeps ==
  ASSUME KeysOwn, CType, TouchInv, InTouch, [CacheNext]_allVars, ~Begin, ~Hit
  PROVE  /\ eof' # "none" => state' \in {"body", "finished"}
         /\ state' \in {"line", "headers"} => chunks'[Current] = <<>>
         /\ recorder'[Current] \in {"on", "put"} => raw'
         /\ recorder'[Current] = "put" => eof' # "none"
<1>1. /\ IType /\ PlanInv /\ ~Replayed /\ Current \in Responses
      /\ eof # "none" => state \in {"body", "finished"}
      /\ state \in {"line", "headers"} => chunks[Current] = <<>>
      /\ recorder[Current] \in {"on", "put"} => raw
      /\ recorder[Current] = "put" => eof # "none"
  <2>1. Current \in Responses
    BY MaxResponsesAssumption DEF InTouch, KeysOwn, CType, Current, Responses
  <2> QED
    BY <2>1, TouchCalls DEF TouchInv
<1>2. Flowing => state \in {"body", "finished"}
  BY <1>1, FlowingSent
<1>3. CASE RouteStep /\ ~Fail /\ UNCHANGED chunks /\ (recorder' = recorder \/ Miss)
  <2>1. eof' = eof /\ (state' \in {"line", "headers"} => state \in {"line", "headers"})
    BY <1>1, <1>3, RouteMoves
  <2>2. state \in {"body", "finished"} => state' \in {"body", "finished"}
    BY <1>1, <1>3, SentRoute
  <2>3. raw => raw'
    BY <1>3 DEF RouteStep, response, AddBodyTransform, AddRawBodyTransform, Header, SetBodySize,
       Status, SendBody, SendEmptyBody, Framing, EndHeaders, EndBody, Pipe, FramerClosed
  <2>4. CASE recorder' = recorder
    BY <1>1, <1>3, <2>1, <2>2, <2>3, <2>4
  <2>5. CASE Miss
    <3>1. raw' /\ recorder'[Current] \in {"on", "late"}
      BY <1>1, <2>5 DEF Miss, AddRawBodyTransform, KeysOwn
    <3> QED
      BY <1>1, <1>3, <2>1, <2>2, <3>1
  <2> QED
    BY <1>3, <2>4, <2>5
<1>4. CASE Fail /\ UNCHANGED cacheVars
  BY <1>1, <1>4 DEF Fail, response, streams, cacheVars
<1>5. CASE (Read \/ SourceEnds \/ Encode \/ EncoderEnds \/ FramerCloses) /\ UNCHANGED cacheVars
  <2>1. Flowing /\ state' \in {state, "finished"} /\ raw' = raw /\ UNCHANGED <<chunks, recorder>>
        /\ (eof # "none" => eof' # "none")
    BY <1>5 DEF Read, SourceEnds, Encode, EncoderEnds, FramerCloses, Final, Streaming, cacheVars
  <2> QED
    BY <1>1, <1>2, <2>1
<1>6. CASE (PeerCloses \/ \E r \in Responses : FlushRaw(r)) /\ UNCHANGED cacheVars
  BY <1>1, <1>6 DEF PeerCloses, FlushRaw, response, streams, cacheVars
<1>7. CASE Record
  <2>1. Flowing /\ UNCHANGED <<state, raw, eof, recorder>>
    BY <1>7 DEF Record, Flush, Streaming
  <2> QED
    BY <1>1, <1>2, <2>1
<1>8. ASSUME NEW r \in Responses, RawFinal(r)
      PROVE  /\ eof' # "none" => state' \in {"body", "finished"}
             /\ state' \in {"line", "headers"} => chunks'[Current] = <<>>
             /\ recorder'[Current] \in {"on", "put"} => raw'
             /\ recorder'[Current] = "put" => eof' # "none"
  <2>1. UNCHANGED <<state, raw, eof, chunks>> /\ recorder' = [recorder EXCEPT ![r] = "put"]
        /\ recorder[r] = "on" /\ Ended(r)
    BY <1>8 DEF RawFinal, vars, response, streams
  <2>2. CASE r = Current
    BY <1>1, <2>1, <2>2 DEF Ended, KeysOwn
  <2>3. CASE r # Current
    BY <1>1, <2>1, <2>3 DEF KeysOwn
  <2> QED
    BY <2>2, <2>3
<1>9. CASE UNCHANGED <<vars, chunks, recorder>>
  BY <1>1, <1>9 DEF vars, response, streams
<1> QED
  BY <1>1, <1>3, <1>4, <1>5, <1>6, <1>7, <1>8, <1>9, CacheCases

(* The transform of the route and its body come in time.                    *)
LEMMA TouchSends ==
  ASSUME KeysOwn, CType, TouchInv, InTouch, [CacheNext]_allVars, ~Begin, ~Hit
  PROVE  Transforming' /\ Sending'
<1>1. /\ IType /\ PlanInv /\ ~Replayed /\ Transforming /\ Sending /\ Current > 0
      /\ routes' = routes
  BY TouchCalls, SameRoute DEF TouchInv, InTouch
<1>2. Flowing => state \in {"body", "finished"}
  BY <1>1, FlowingSent
<1>3. CASE RouteStep /\ ~Fail
  BY <1>1, <1>3, TransformingRoute, SendingRoute
<1>4. CASE Fail
  <2>1. plan' = <<>> /\ transform' = transform /\ state' = state /\ ~Open'
    BY <1>4 DEF Fail, response, Open
  <2> QED
    BY <1>1, <2>1, TransformingKept DEF Sending
<1>5. ASSUME UNCHANGED <<plan, transform>>, state' = state \/ (Flowing /\ state' = "finished"),
             eof = "closed" => eof' = "closed", Open' => Open
      PROVE  Transforming' /\ Sending'
  BY <1>1, <1>2, <1>5, TransformingKept, SendingKept
<1>6. CASE Read \/ SourceEnds \/ Encode \/ EncoderEnds \/ FramerCloses \/ Record
  <2>1. UNCHANGED <<plan, transform, socket>> /\ (eof = "closed" => eof' = "closed")
        /\ (state' = state \/ (Flowing /\ state' = "finished"))
    BY <1>6 DEF Read, SourceEnds, Encode, EncoderEnds, FramerCloses, Record, Flush, Final, Streaming
  <2> QED
    BY <1>5, <2>1 DEF Open
<1>7. CASE PeerCloses \/ \E r \in Responses : FlushRaw(r)
  BY <1>5, <1>7 DEF PeerCloses, FlushRaw, response, streams, Open
<1>8. CASE UNCHANGED vars
  BY <1>5, <1>8 DEF vars, response, streams, Open
<1>9. CASE \E r \in Responses : RawFinal(r)
  BY <1>8, <1>9 DEF RawFinal
<1> QED
  BY <1>1, <1>3, <1>4, <1>6, <1>7, <1>8, <1>9, CacheCases

(* What is flushed of a body is not of the head that the cache sees.        *)
LEMMA SeenKept ==
  ASSUME wire \in Seq(Piece), PartsInv, routes' = routes, chunks' = chunks,
         wire' = wire \/ \E r \in Responses : FlushRaw(r)
  PROVE  Seen' = Seen
<1>1. Current' = Current
  BY DEF Current
<1>2. CASE wire' = wire
  BY <1>1, <1>2 DEF Seen
<1>3. ASSUME NEW r \in Responses, FlushRaw(r), wire' # wire
      PROVE  Seen' = Seen
  <2>1. tail[r] \in Seq(BodyPieces) /\ tail[r] # <<>>
    BY <1>3 DEF PartsInv, FlushRaw
  <2>2. PICK p \in BodyPieces : p = Head(tail[r])
    BY <2>1
  <2>3. wire' = Append(wire, p) /\ p \in Piece /\ p.part \notin HeadParts
    BY <1>3, <2>2 DEF FlushRaw, Sent, BodyPieces, HeadParts
  <2>4. Heard(Append(wire, p), Current, HeadParts) = Heard(wire, Current, HeadParts)
    BY <2>3, HeardAppend
  <2> QED
    BY <1>1, <2>3, <2>4 DEF Seen
<1> QED
  BY <1>2, <1>3

(* The cache, as a client, is where the response is.                        *)
LEMMA TouchPhase ==
  ASSUME KeysOwn, CType, ShareInv, TouchInv, InTouch, [CacheNext]_allVars, ~Begin, ~Hit,
         Sound(Now)
  PROVE  Phase'
<1>1. /\ IType /\ PlanInv /\ ~Replayed /\ Transforming /\ Phase /\ Made /\ PartsInv
      /\ Current > 0 /\ wire \in Seq(Piece) /\ routes' = routes
      /\ state \in {"line", "headers"} => chunks[Current] = <<>>
  BY TouchCalls, SameRoute DEF TouchInv, InTouch, MadeInv, HeadersInv, CType, PiecesInv
<1>2. CASE RouteStep /\ ~Fail /\ UNCHANGED chunks
  BY <1>1, <1>2, PhaseRoute
<1>3. CASE Fail /\ UNCHANGED cacheVars
  <2>1. wire' = wire /\ chunks' = chunks
    BY <1>3 DEF Fail, cacheVars
  <2> QED
    BY <1>1, <1>3, <2>1, SeenKept, PhaseFails
<1>4. CASE (Read \/ SourceEnds \/ Encode \/ EncoderEnds \/ FramerCloses) /\ UNCHANGED cacheVars
  <2>1. chunks' = chunks
    BY <1>4 DEF cacheVars
  <2> QED
    BY <1>1, <1>4, <2>1, PhaseStream
<1>5. ASSUME Seen' = Seen, UNCHANGED <<plan, response, source, encoder, framer, eof>>, ~Open => ~Open'
      PROVE  Phase'
  BY <1>1, <1>5, PhaseStutters DEF response
<1>6. CASE (PeerCloses \/ \E r \in Responses : FlushRaw(r)) /\ UNCHANGED cacheVars
  <2>1. /\ UNCHANGED <<plan, response, source, encoder, framer, eof, chunks>> /\ (~Open => ~Open')
        /\ (wire' = wire \/ \E r \in Responses : FlushRaw(r))
    BY <1>6 DEF PeerCloses, FlushRaw, streams, cacheVars, Open
  <2> QED
    BY <1>1, <1>5, <2>1, SeenKept
<1>7. CASE Record
  <2>1. Flowing /\ framer # <<>>
    BY <1>7 DEF Record, Flush
  <2>2. state \in {"body", "finished"}
    BY <1>1, <2>1, FlowingSent
  <2>3. recorder[Current] = "on" /\ raw
    BY <2>1, <2>2 DEF TouchInv, InTouch
  <2> QED
    BY <1>1, <1>7, <2>3, PhaseRecord
<1>8. CASE UNCHANGED <<vars, chunks>>
  BY <1>1, <1>5, <1>8, SeenKept DEF vars, streams, Open
<1>9. CASE \E r \in Responses : RawFinal(r)
  BY <1>8, <1>9 DEF RawFinal
<1> QED
  BY <1>1, <1>2, <1>3, <1>4, <1>6, <1>7, <1>8, <1>9, CacheCases

(* What was put is all that is recorded of a response.                      *)
LEMMA TouchPut ==
  ASSUME KeysOwn, CType, TouchInv, InTouch, [CacheNext]_allVars, ~Begin, ~Hit,
         Sound(Now), recorder'[Current] = "put"
  PROVE  framer' = <<>> /\ eof' \in {"framer", "closed"}
<1>1. /\ IType /\ ~Replayed /\ Phase /\ Current \in Responses
      /\ recorder[Current] = "put" => framer = <<>> /\ eof \in {"framer", "closed"}
  <2>1. Current \in Responses
    BY MaxResponsesAssumption DEF InTouch, KeysOwn, CType, Current, Responses
  <2> QED
    BY <2>1, TouchCalls DEF TouchInv
<1>2. CASE recorder[Current] = "put"
  <2>1. framer = <<>> /\ eof \in {"framer", "closed"}
    BY <1>1, <1>2
  <2>2. Flowing => source = <<>> /\ encoder = <<>>
    <3>1. Flowing => Rec!Flows
      BY <1>1, PhaseFlowing
    <3> QED
      BY <2>1, <3>1 DEF Rec!Flows, Rec!Reading, Rec!Encoding, Rec!Ending
  <2>3. CASE RouteStep
    BY <2>1, <2>3 DEF RouteStep, streams, AddBodyTransform, AddRawBodyTransform, Header,
       SetBodySize, Status, SendBody, SendEmptyBody, Framing, EndHeaders, EndBody, Pipe,
       FramerClosed, Fail
  <2>4. CASE Read \/ SourceEnds \/ Encode \/ EncoderEnds \/ FramerCloses \/ Record
    BY <2>1, <2>2, <2>4 DEF Read, SourceEnds, Encode, EncoderEnds, FramerCloses, Record, Flush
  <2>5. CASE PeerCloses \/ \E r \in Responses : FlushRaw(r)
    BY <2>1, <2>5 DEF PeerCloses, FlushRaw, streams
  <2>6. CASE UNCHANGED vars
    BY <2>1, <2>6 DEF vars, streams
  <2>7. CASE \E r \in Responses : RawFinal(r)
    BY <2>6, <2>7 DEF RawFinal
  <2> QED
    BY <1>1, <2>3, <2>4, <2>5, <2>6, <2>7, CacheCases DEF RouteStep
<1>3. CASE recorder[Current] # "put"
  <2>1. RawFinal(Current)
    <3>1. recorder' = recorder \/ (\E r \in Responses : RawFinal(r)) \/ Miss
      BY <1>1 DEF CacheNext, Caching, cacheVars, allVars, Replayed, Record, Elsewhere,
         Expiring, Expire, Tick
    <3>2. ~Miss
      BY <1>1 DEF Miss, KeysOwn
    <3>3. PICK r \in Responses : RawFinal(r)
      BY <1>3, <3>1, <3>2
    <3>4. r = Current
      BY <1>1, <1>3, <3>3 DEF RawFinal, KeysOwn
    <3> QED
      BY <3>3, <3>4
  <2> QED
    BY <2>1 DEF RawFinal, Ended, vars, streams
<1> QED
  BY <1>2, <1>3

(* A response that begins has sent nothing, and nothing of it is recorded.  *)
LEMMA TouchBegin ==
  ASSUME KeysOwn, CType, ShareInv, ShareInv', Begin, UNCHANGED cacheVars
  PROVE  TouchInv'
<1>1. /\ routes \in Seq(Route) /\ Current \in Nat /\ Current < MaxResponses
      /\ wire' = wire /\ wire \in Seq(Piece) /\ tail' = tail /\ socket' = socket
      /\ state' = "line" /\ enqueued' = 0 /\ bodySize' = 0
      /\ transform' = FALSE /\ raw' = FALSE /\ chunked' = FALSE
      /\ source' = <<>> /\ encoder' = <<>> /\ framer' = <<>> /\ eof' = "none"
      /\ chunks' = chunks /\ recorder' = recorder
  <2>1. routes \in Seq(Route)
    BY RoutesAssumption DEF KeysOwn
  <2> QED
    BY <2>1 DEF Begin, CType, PiecesInv, cacheVars, Current
<1>2. PICK route \in Routes : routes' = Append(routes, route) /\ plan' = route.calls
  BY DEF Begin
<1>3. /\ Current' = Current + 1 /\ Now' = route /\ route \in Route
      /\ routes' \in Seq(Route) /\ Current' \in Responses /\ Current' <= MaxResponses
  <2>1. /\ route \in Route /\ routes' \in Seq(Route)
        /\ Len(routes') = Len(routes) + 1 /\ routes'[Len(routes) + 1] = route
    BY <1>1, <1>2, RoutesAssumption
  <2> QED
    BY <1>1, <2>1, MaxResponsesAssumption DEF Current, Now, Responses
<1>4. MadeInv' /\ PlanInv' /\ HdrInv' /\ plan' \in Seq(Calls) /\ WhoInv' /\ PartsInv'
  BY <1>1, MadeBegin, PlanBegin, HdrBegin DEF ShareInv
<1>5. IType'
  <2>1. /\ tail' \in [Responses -> Seq(Piece)] /\ wire' \in Seq(Piece)
        /\ \A r \in Responses : Len(tail'[r]) <= HighWaterMark
        /\ socket' \in {"open", "destroyed"}
    BY <1>1 DEF CType, PiecesInv, ShareInv
  <2>2. <<>> \in Seq(Nat) /\ <<>> \in Seq(Piece) /\ 0 \in Nat
    OBVIOUS
  <2>3. Responses' = Responses /\ Piece' = Piece /\ Route' = Route /\ Calls' = Calls
    BY DEF Responses, Piece, Parts, Route, Calls, InternalCalls
  <2>4. TypeOK'
    BY <1>1, <1>3, <1>4, <2>1, <2>2, <2>3 DEF TypeOK
  <2> QED
    BY <1>3, <2>3, <2>4 DEF IType, Busy
<1>6. HeadersInv'
  BY <1>4, <1>5 DEF HeadersInv
<1>7. chunks'[Current'] = <<>> /\ recorder'[Current'] = "off"
  BY <1>1, <1>3 DEF ShareInv, KeysOwn
<1>8. Transforming'
  <2>1. Transforms(Now)' <=> TransformAhead(plan)'
    BY <1>2, <1>3 DEF Transforms, TransformAhead
  <2> QED
    BY <1>1, <2>1 DEF Transforming
<1>9. Sending'
  <2>1. SendsBody(Current)' => Left' \cap {"buffered", "streamed", "closed"} # {}
    BY <1>2, <1>3 DEF SendsBody, Makes, Now, Left
  <2> QED
    BY <2>1 DEF Sending
<1>10. Phase'
  <2>1. Seen' = <<>>
    <3>1. \A i \in 1..Len(wire) : wire[i] \in Begun
      BY DEF ShareInv, WhoInv
    <3>2. \A p \in Begun : p.who \in Nat /\ p.who <= Current
      BY MaxResponsesAssumption DEF Begun, Piece, Responses
    <3>3. \A i \in 1..Len(wire) : wire[i].who # Current'
      BY <1>1, <1>3, <3>1, <3>2
    <3>4. Heard(wire, Current', HeadParts) = <<>>
      BY <1>1, <3>3, HeardNone
    <3> QED
      BY <1>1, <1>7, <3>4 DEF Seen
  <2>2. Rec!Ahead' = Fresh
    <3>1. Rec!Ahead' = Rec!Reads(Seen' \o framer', Rec!Heads')
      BY DEF Rec!Ahead
    <3>2. <<>> \o <<>> = <<>>
      OBVIOUS
    <3>3. Rec!Reads(<<>>, Rec!Heads') = Reads(<<>>, Rec!Heads')
      BY RecReads
    <3> QED
      BY <1>1, <2>1, <3>1, <3>2, <3>3, ReadsEmpty
  <2>3. Rec!Current' = Current'
    <3>1. Len(routes') \in Nat
      BY <1>3
    <3> QED
      BY <3>1 DEF Rec!Current, Current
  <2>4. Rec!Left' \cap Rec!InternalCalls = {}
    <3>1. Left' \cap InternalCalls = {}
      BY <1>1, <1>4 DEF PlanInv
    <3> QED
      BY <3>1 DEF Rec!Left, Left, Rec!InternalCalls, InternalCalls
  <2>5. Current' > 0 /\ Current' \in Nat
    BY <1>1, <1>3
  <2>6. Rec!Unsent'
    BY <1>1, <2>2, <2>3, <2>4, <2>5 DEF Rec!Unsent, Rec!Still, Rec!Opened, Fresh, Rec!InternalCalls
  <2> QED
    BY <2>6 DEF Phase
<1> QED
  BY <1>1, <1>4, <1>6, <1>7, <1>8, <1>9, <1>10 DEF TouchInv

(* TouchInv is inductive, with the invariants before it.                    *)
LEMMA TouchNext ==
  ASSUME KeysOwn, CType, ShareInv, ShareInv', TouchInv, [CacheNext]_allVars
  PROVE  TouchInv'
<1>1. CASE Begin
  BY <1>1, BeginAlone, TouchBegin
<1>2. CASE ~Begin
  <2> SUFFICES ASSUME InTouch'
               PROVE  TouchInv'
    BY DEF TouchInv
  <2>1. InTouch /\ ~Hit
    BY <1>2, TouchBack
  <2>2. /\ HeadersInv /\ IType /\ MadeInv /\ [Next]_vars
        /\ routes' = routes /\ Current' = Current /\ Now' = Now
    BY <1>2, <2>1, TouchCalls, CacheSteps, SameRoute DEF Now
  <2>3. HeadersInv' /\ MadeInv'
    BY <2>2, HeadersNext, MadeNext
  <2>4. /\ eof' # "none" => state' \in {"body", "finished"}
        /\ state' \in {"line", "headers"} => chunks'[Current] = <<>>
        /\ recorder'[Current] \in {"on", "put"} => raw'
        /\ recorder'[Current] = "put" => eof' # "none"
    BY <1>2, <2>1, TouchKeeps
  <2>5. Transforming' /\ Sending'
    BY <1>2, <2>1, TouchSends
  <2>6. ASSUME Sound(Now)'
        PROVE  /\ Phase'
               /\ recorder'[Current] = "put" => framer' = <<>> /\ eof' \in {"framer", "closed"}
    <3>1. Sound(Now)
      BY <2>2, <2>6 DEF Sound, Does, Transforms, InTime
    <3> QED
      BY <1>2, <2>1, <3>1, TouchPhase, TouchPut
  <2> QED
    BY <2>2, <2>3, <2>4, <2>5, <2>6 DEF TouchInv
<1> QED
  BY <1>1, <1>2

(* There is no response at first.                                           *)
LEMMA TouchInit == CacheInit => TouchInv
BY DEF CacheInit, Init, TouchInv, InTouch, Current

--------------------------------------------------------------------------------
(* Whatever is sent is of the current response, or of a body.               *)
LEMMA WireGrows ==
  ASSUME KeysOwn, CType, ShareInv, [CacheNext]_allVars
  PROVE  \E b \in Seq(Piece) :
           /\ wire' = wire \o b
           /\ \A i \in 1..Len(b) : b[i].who = Current \/ b[i].part \in {"data", "chunk", "last"}
<1> DEFINE Fits(b) == \A i \in 1..Len(b) :
                        b[i].who = Current \/ b[i].part \in {"data", "chunk", "last"}
<1>1. wire \in Seq(Piece)
  BY DEF CType, PiecesInv
<1>2. CASE Replayed
  BY <1>2, ReplayedSends
<1>3. CASE wire' = wire
  <2>1. <<>> \in Seq(Piece) /\ wire = wire \o <<>> /\ Fits(<<>>)
    BY <1>1
  <2> QED
    BY <1>3, <2>1
<1>4. ASSUME NEW p \in BodyPieces, wire' = Append(wire, p)
      PROVE  \E b \in Seq(Piece) : wire' = wire \o b /\ Fits(b)
  <2>1. <<p>> \in Seq(Piece) /\ p.part \in {"data", "chunk", "last"}
    BY DEF BodyPieces
  <2>2. PICK b \in Seq(Piece) : b = <<p>>
    BY <2>1, Zenon
  <2>3. Append(wire, p) = wire \o b /\ Len(b) = 1 /\ b[1] = p
    BY <1>1, <2>2
  <2>4. Fits(b)
    BY <2>1, <2>3
  <2> QED
    BY <1>4, <2>3, <2>4
<1>5. ASSUME NEW call, Call(call)
      PROVE  \E b \in Seq(Piece) : wire' = wire \o b /\ Fits(b)
  <2>1. Current \in Responses
    BY <1>5, MaxResponsesAssumption DEF Call, KeysOwn, CType, Current, Responses
  <2>2. PICK w \in Seq(Parts) : w = Writes(call)
    BY WritesType
  <2>3. PICK b : b = [i \in 1..Len(w) |-> [who |-> Current, part |-> w[i], n |-> bodySize]]
    OBVIOUS
  <2>4. b \in Seq(Piece) /\ Len(b) = Len(w)
    BY <2>1, <2>3 DEF Piece, CType, PiecesInv
  <2>5. \A i \in 1..Len(b) : b[i].who = Current
    BY <2>3, <2>4
  <2> QED
    BY <1>5, <2>2, <2>3, <2>4, <2>5 DEF Call
<1>6. CASE Flush
  <2>1. framer \in Seq(BodyPieces) /\ framer # <<>> /\ (wire' = wire \/ wire' = Append(wire, Head(framer)))
    BY <1>6 DEF Flush, Sent, ShareInv, PartsInv
  <2>2. Head(framer) \in BodyPieces
    BY <2>1
  <2> QED
    BY <1>3, <1>4, <2>1, <2>2
<1>7. ASSUME NEW r \in Responses, FlushRaw(r)
      PROVE  \E b \in Seq(Piece) : wire' = wire \o b /\ Fits(b)
  <2>1. tail[r] \in Seq(BodyPieces) /\ tail[r] # <<>> /\ (wire' = wire \/ wire' = Append(wire, Head(tail[r])))
    BY <1>7 DEF FlushRaw, Sent, ShareInv, PartsInv
  <2>2. Head(tail[r]) \in BodyPieces
    BY <2>1
  <2> QED
    BY <1>3, <1>4, <2>1, <2>2
<1>8. CASE RouteStep /\ ~Fail
  BY <1>5, <1>8 DEF RouteStep, AddBodyTransform, AddRawBodyTransform, Header, SetBodySize,
     Status, SendBody, SendEmptyBody, Framing, EndHeaders, EndBody, Pipe, FramerClosed
<1>9. CASE \/ Begin \/ Fail \/ PeerCloses \/ UNCHANGED vars
           \/ Read \/ SourceEnds \/ Encode \/ EncoderEnds \/ FramerCloses
  BY <1>3, <1>9 DEF Begin, Fail, PeerCloses, vars, Read, SourceEnds, Encode, EncoderEnds, FramerCloses
<1>10. CASE [Next]_vars
  BY <1>6, <1>7, <1>8, <1>9, <1>10 DEF Next, Step, StreamStep
<1> QED
  BY <1>2, <1>10, CacheSteps

(* So what was recorded of the other responses stays as it is.              *)
LEMMA OthersKept ==
  ASSUME KeysOwn, CType, ShareInv, [CacheNext]_allVars, NEW r \in Responses, r # Current
  PROVE  /\ Intercepted(r)' = Intercepted(r) /\ chunks'[r] = chunks[r]
         /\ recorder'[r] = recorder[r] \/ (recorder[r] = "on" /\ RawFinal(r))
<1>1. Intercepted(r)' = Intercepted(r)
  <2>1. PICK b \in Seq(Piece) :
          /\ wire' = wire \o b
          /\ \A i \in 1..Len(b) : b[i].who = Current \/ b[i].part \in {"data", "chunk", "last"}
    BY WireGrows
  <2>2. wire \in Seq(Piece)
    BY DEF CType, PiecesInv
  <2>3. PICK parts : parts = {"header", "length", "chunked"}
    OBVIOUS
  <2>4. Heard(b, r, parts) = <<>>
    <3>1. \A i \in 1..Len(b) : b[i].who # r \/ b[i].part \notin parts
      BY <2>1, <2>3
    <3> QED
      BY <3>1, HeardNone
  <2>5. Heard(wire \o b, r, parts) = Heard(wire, r, parts) \o Heard(b, r, parts)
    BY <2>2, HeardConcat
  <2>6. Heard(wire, r, parts) \in Seq(Piece)
    BY <2>2, HeardType
  <2>7. Heard(wire', r, parts) = Heard(wire, r, parts)
    BY <2>1, <2>4, <2>5, <2>6
  <2> QED
    BY <2>3, <2>7 DEF Intercepted
<1>2. chunks'[r] = chunks[r]
  <2>1. chunks' = chunks \/ chunks' = [chunks EXCEPT ![Current] = Append(@, Head(framer))]
    BY DEF CacheNext, Caching, cacheVars, allVars, Hit, Miss, ReplayHeader, ReplayFails,
       WriteBodyImmediate, Replaying, Record, RawFinal, Elsewhere, Expiring, Expire, Tick
  <2> QED
    BY <2>1 DEF ShareInv
<1>3. recorder'[r] = recorder[r] \/ (recorder[r] = "on" /\ RawFinal(r))
  <2>1. \/ recorder' = recorder \/ (\E q \in Responses : RawFinal(q))
        \/ \E x \in {"on", "late", "off"} : recorder' = [recorder EXCEPT ![Current] = x]
    BY DEF CacheNext, Caching, cacheVars, allVars, Hit, Miss, ReplayHeader, ReplayFails,
       WriteBodyImmediate, Replaying, Record, Elsewhere, Expiring, Expire, Tick
  <2>2. ASSUME NEW q \in Responses, RawFinal(q)
        PROVE  recorder'[r] = recorder[r] \/ (recorder[r] = "on" /\ RawFinal(r))
    BY <2>2 DEF RawFinal, KeysOwn
  <2>3. ASSUME NEW x \in {"on", "late", "off"}, recorder' = [recorder EXCEPT ![Current] = x]
        PROVE  recorder'[r] = recorder[r]
    BY <2>3 DEF KeysOwn
  <2> QED
    BY <2>1, <2>2, <2>3
<1> QED
  BY <1>1, <1>2, <1>3

(* What is put is whole.                                                    *)
LEMMA PutWhole ==
  ASSUME KeysOwn, CType, ShareInv, TouchInv, PutsInv, NEW r \in Responses,
         RawFinal(r) \/ Elsewhere(r)
  PROVE  EntryOK(routes[r], Intercepted(r), chunks[r])
<1>1. r <= Current /\ Current \in Nat /\ wire \in Seq(Piece) /\ recorder[r] \in {"on", "put"}
  BY DEF RawFinal, Elsewhere, KeysOwn, CType, PiecesInv, Current
<1>2. CASE r = Current
  <2>1. Current > 0 /\ (recorder[Current] = "put" \/ (eof \in {"framer", "closed"} /\ framer = <<>>))
    BY <1>2, MaxResponsesAssumption DEF RawFinal, Elsewhere, Ended, Responses
  <2> QED
    BY <1>1, <1>2, <2>1, TouchEntry DEF Now
<1>3. CASE r # Current
  <2>1. r \in 1..(Current - 1)
    BY <1>1, <1>3, MaxResponsesAssumption DEF Responses
  <2>2. recorder[r] = "put" \/ (recorder[r] = "on" /\ Streams(r))
    BY <1>3 DEF RawFinal, Elsewhere, Ended
  <2> QED
    BY <2>1, <2>2 DEF PutsInv
<1> QED
  BY <1>2, <1>3

(* So whatever becomes of the cache, it holds whole responses.              *)
LEMMA CacheWhole ==
  ASSUME TimeoutsMatch, KeysOwn, CType, ShareInv, TouchInv, PutsInv, [CacheNext]_allVars
  PROVE  \A k \in DOMAIN cache' : EntryOK(cache'[k].route, cache'[k].headers, cache'[k].body)
<1>0. \A k \in DOMAIN cache : EntryOK(cache[k].route, cache[k].headers, cache[k].body)
  BY DEF PutsInv
<1>1. ASSUME NEW r \in Responses, RawFinal(r) \/ Elsewhere(r)
      PROVE  \A k \in DOMAIN cache' : EntryOK(cache'[k].route, cache'[k].headers, cache'[k].body)
  <2>1. EntryOK(routes[r], Intercepted(r), chunks[r])
    BY <1>1, PutWhole
  <2>2. /\ DOMAIN cache' = DOMAIN cache \cup {Key(r)}
        /\ \A k \in DOMAIN cache' : cache'[k] = IF k = Key(r) THEN Recorded(r) ELSE cache[k]
    BY <1>1 DEF RawFinal, Elsewhere, Put
  <2>3. /\ Recorded(r).route = routes[r] /\ Recorded(r).headers = Intercepted(r)
        /\ Recorded(r).body = chunks[r]
    BY DEF Recorded
  <2>4. EntryOK(Recorded(r).route, Recorded(r).headers, Recorded(r).body)
    BY <2>1, <2>3
  <2> QED
    BY <1>0, <2>2, <2>4
<1>2. ASSUME NEW t, Expire(t)
      PROVE  \A k \in DOMAIN cache' : EntryOK(cache'[k].route, cache'[k].headers, cache'[k].body)
  <2>1. \A k \in DOMAIN cache' : k \in DOMAIN cache /\ cache'[k] = cache[k]
    BY <1>2 DEF Expire
  <2> QED
    BY <1>0, <2>1
<1>3. CASE Tick
  <2>1. ASSUME NEW k \in DOMAIN cache'
        PROVE  /\ k \in DOMAIN cache /\ cache'[k].route = cache[k].route
               /\ cache'[k].headers = cache[k].headers /\ cache'[k].body = cache[k].body
    <3>1. k \in DOMAIN cache /\ cache'[k] = [cache[k] EXCEPT !.age = IF @ < TTL THEN @ + 1 ELSE TTL]
      BY <1>3 DEF Tick
    <3>2. IsEntry(cache[k])
      BY <3>1 DEF TimeoutsMatch
    <3> QED
      BY <3>1, <3>2 DEF IsEntry
  <2> QED
    BY <1>0, <2>1
<1>4. CASE cache' = cache
  BY <1>0, <1>4
<1> QED
  BY <1>1, <1>2, <1>3, <1>4 DEF CacheNext, Caching, cacheVars, allVars, Hit, Miss, ReplayHeader,
     ReplayFails, WriteBodyImmediate, Replaying, Record, Expiring

(* PutsInv is inductive, with the invariants before it.                     *)
LEMMA PutsNext ==
  ASSUME TimeoutsMatch, KeysOwn, CType, ShareInv, TouchInv, PutsInv, [CacheNext]_allVars
  PROVE  PutsInv'
<1>1. Current \in Nat /\ Current <= MaxResponses /\ wire \in Seq(Piece)
  BY DEF KeysOwn, CType, PiecesInv, Current
<1>2. ASSUME NEW r \in 1..(Current - 1), routes'[r] = routes[r],
             recorder'[r] = "put" \/ (recorder'[r] = "on" /\ Streams(r)')
      PROVE  EntryOK(routes'[r], Intercepted(r)', chunks'[r])
  <2>1. r \in Responses /\ r # Current
    BY <1>1, MaxResponsesAssumption DEF Responses
  <2>2. /\ Intercepted(r)' = Intercepted(r) /\ chunks'[r] = chunks[r]
        /\ recorder'[r] = recorder[r] \/ (recorder[r] = "on" /\ RawFinal(r))
    BY <2>1, OthersKept
  <2>3. Streams(r)' <=> Streams(r)
    BY <1>2 DEF Streams, Makes
  <2>4. recorder[r] = "put" \/ (recorder[r] = "on" /\ Streams(r))
    BY <1>2, <2>1, <2>2, <2>3 DEF RawFinal, Ended
  <2>5. EntryOK(routes[r], Intercepted(r), chunks[r])
    BY <1>2, <2>4 DEF PutsInv
  <2> QED
    BY <1>2, <2>2, <2>5
<1>3. CASE ~Begin
  <2>1. routes' = routes /\ Current' = Current
    BY <1>3, SameRoute
  <2> QED
    BY <1>2, <2>1, CacheWhole DEF PutsInv
<1>4. CASE Begin
  <2>1. /\ Current' = Current + 1 /\ \A r \in 1..Current : routes'[r] = routes[r]
        /\ Open /\ Idle /\ wire' = wire /\ UNCHANGED cacheVars
    <3>1. PICK route \in Routes : routes' = Append(routes, route)
      BY <1>4 DEF Begin
    <3>2. Open /\ Idle /\ wire' = wire /\ UNCHANGED cacheVars
      BY <1>4, BeginAlone DEF Begin
    <3>3. routes \in Seq(Routes)
      BY DEF KeysOwn
    <3>4. Len(routes') = Len(routes) + 1 /\ \A r \in 1..Len(routes) : routes'[r] = routes[r]
      BY <3>1, <3>3
    <3> QED
      BY <3>2, <3>4 DEF Current
  <2>2. ASSUME NEW r \in 1..Current, r \notin 1..(Current - 1),
               recorder'[r] = "put" \/ (recorder'[r] = "on" /\ Streams(r)')
        PROVE  EntryOK(routes'[r], Intercepted(r)', chunks'[r])
    <3>1. r = Current /\ Current > 0
      BY <1>1, <2>2
    <3>2. /\ routes'[r] = Now /\ Intercepted(r)' = Intercepted(Current) /\ chunks'[r] = chunks[Current]
          /\ recorder' = recorder
      BY <2>1, <3>1 DEF Now, Intercepted, cacheVars
    <3>3. Streams(r)' <=> SendsBody(Current)
      BY <2>1, <3>1 DEF Streams, SendsBody, Makes
    <3>4. EntryOK(Now, Intercepted(Current), chunks[Current])
      BY <1>1, <2>1, <2>2, <3>1, <3>2, <3>3, TouchEntry
    <3> QED
      BY <3>2, <3>4
  <2>3. 1..(Current' - 1) = 1..Current
    BY <1>1, <2>1
  <2> QED
    BY <1>2, <2>1, <2>2, <2>3, CacheWhole DEF PutsInv
<1> QED
  BY <1>3, <1>4

(* Nothing is recorded at first.                                            *)
LEMMA PutsInit == CacheInit => PutsInv
<1> SUFFICES ASSUME CacheInit PROVE PutsInv
  OBVIOUS
<1>1. Current = 0 /\ DOMAIN cache = {}
  BY DEF CacheInit, Init, Current
<1>2. 1..(Current - 1) = {}
  BY <1>1
<1> QED
  BY <1>1, <1>2 DEF PutsInv

(* What is in the cache is always a whole response: all the headers that    *)
(* its route set in time and, if the route is sound, a body with every unit *)
(* of the route's that ends where the stored headers say it does; whichever *)
(* responses record and replay, fail or lose their peer while others are    *)
(* flushed, and whenever entries are put, overwritten and deleted           *)
(* (cache.ts:171-256).                                                      *)
THEOREM EntriesWholeCorrect ==
  ASSUME Routes # {}
  PROVE  CacheSpec => []EntriesWhole
<1>1. CacheInit => TimeoutsMatch /\ KeysOwn /\ CType /\ ShareInv /\ TouchInv /\ PutsInv
  BY InitMatches, OwnInit, CTypeInit, ShareInit, TouchInit, PutsInit
<1>2. TimeoutsMatch /\ KeysOwn /\ CType /\ ShareInv /\ TouchInv /\ PutsInv /\ [CacheNext]_allVars
        => (TimeoutsMatch /\ KeysOwn /\ CType /\ ShareInv /\ TouchInv /\ PutsInv)'
  BY NextMatches, OwnNext, CTypeNext, ShareNext, TouchNext, PutsNext
<1>3. PutsInv => EntriesWhole
  BY DEF PutsInv, EntriesWhole, EntryOK
<1> QED
  BY <1>1, <1>2, <1>3, PTL DEF CacheSpec

--------------------------------------------------------------------------------
(* What is heard is of the parts that are listened for.                     *)
LEMMA HeardOnly ==
  ASSUME NEW pieces \in Seq(Piece), NEW r, NEW parts
  PROVE  Heard(pieces, r, parts) \in Seq({p \in Piece : p.part \in parts})
<1> DEFINE T == {p \in Piece : p.part \in parts}
<1>1. PICK f : Hears(f, pieces, r, parts) /\ Heard(pieces, r, parts) = f[Len(pieces)]
  BY HeardIs
<1>2. PICK n \in Nat : n = Len(pieces)
  OBVIOUS
<1> DEFINE F == [i \in 0..n |-> f[i] \in Seq(T)]
           G == [i \in 0..n |-> TRUE]
<1>3. F[0] = G[0]
  <2>1. <<>> \in Seq(T) /\ 0 \in 0..n
    OBVIOUS
  <2> QED
    BY <1>1, <2>1 DEF Hears
<1>4. ASSUME NEW i \in 1..n, F[i - 1] = G[i - 1]
      PROVE  F[i] = G[i]
  <2>1. i \in 0..n /\ i - 1 \in 0..n /\ pieces[i] \in Piece
    BY <1>2
  <2>2. PICK h \in Seq(T) : h = f[i - 1]
    <3>1. f[i - 1] \in Seq(T)
      BY <1>4, <2>1
    <3> QED
      BY <3>1, Zenon
  <2>3. f[i] = IF pieces[i].who = r /\ pieces[i].part \in parts THEN Append(h, pieces[i]) ELSE h
    BY <1>1, <1>2, <2>2 DEF Hears
  <2>4. pieces[i].part \in parts => Append(h, pieces[i]) \in Seq(T)
    <3>1. pieces[i].part \in parts => pieces[i] \in T
      BY <2>1
    <3> HIDE DEF T
    <3> QED
      BY <3>1
  <2>5. f[i] \in Seq(T)
    <3> HIDE DEF T
    <3> QED
      BY <2>2, <2>3, <2>4, Zenon
  <2> QED
    BY <2>1, <2>5
<1>5. F[n] = G[n]
  <2> HIDE DEF F, G
  <2> QED
    BY <1>3, <1>4, ComputationUnique
<1>6. n \in 0..n
  OBVIOUS
<1> QED
  BY <1>1, <1>2, <1>5, <1>6

(* The elements of two sequences are counted each by itself.                *)
LEMMA CountConcat ==
  ASSUME NEW S, NEW a \in Seq(S), NEW b \in Seq(S), NEW H
  PROVE  CountIn(a \o b, H) = CountIn(a, H) + CountIn(b, H)
<1> DEFINE s(i) == SubSeq(b, 1, i)
           f == [i \in 0..Len(b) |-> CountIn(a \o s(i), H)]
           g == [i \in 0..Len(b) |-> CountIn(a, H) + CountIn(s(i), H)]
<1>1. /\ Len(b) \in Nat /\ s(0) = <<>> /\ s(Len(b)) = b
      /\ \A i \in 0..Len(b) : s(i) \in Seq(S)
      /\ \A i \in 1..Len(b) : b[i] \in S /\ s(i) = Append(s(i - 1), b[i])
  BY Prefixes
<1> HIDE DEF s
<1>2. CountIn(<<>>, H) = 0
  <2>1. {i \in 1..Len(<<>>) : <<>>[i] \in H} = {}
    OBVIOUS
  <2> QED
    BY <2>1, FS_EmptySet DEF CountIn
<1>3. CountIn(a, H) \in Nat
  <2>1. IsFiniteSet(1..Len(a))
    BY FS_Interval
  <2>2. IsFiniteSet({i \in 1..Len(a) : a[i] \in H})
    BY <2>1, FS_Subset
  <2> QED
    BY <2>2, FS_CardinalityType DEF CountIn
<1>4. f[0] = g[0]
  <2>1. 0 \in 0..Len(b) /\ a \o s(0) = a
    BY <1>1
  <2>2. f[0] = CountIn(a \o s(0), H) /\ g[0] = CountIn(a, H) + CountIn(s(0), H)
    BY <2>1
  <2>3. CountIn(a \o s(0), H) = CountIn(a, H) /\ CountIn(s(0), H) = 0
    BY <1>1, <1>2, <2>1, Zenon
  <2> QED
    BY <1>3, <2>2, <2>3
<1>5. ASSUME NEW i \in 1..Len(b), f[i - 1] = g[i - 1]
      PROVE  f[i] = g[i]
  <2>1. i \in 0..Len(b) /\ i - 1 \in 0..Len(b)
    BY <1>1
  <2>2. PICK c \in Seq(S), x \in S : c = s(i - 1) /\ x = b[i] /\ s(i) = Append(c, x)
    BY <1>1, <2>1
  <2>3. PICK d \in Seq(S) : d = a \o c /\ a \o Append(c, x) = Append(d, x)
    <3>1. a \o c \in Seq(S) /\ a \o Append(c, x) = Append(a \o c, x)
      BY AppendBehind
    <3> QED
      BY <3>1
  <2>4. CountIn(d, H) \in Nat /\ CountIn(Append(d, x), H) = CountIn(d, H) + (IF x \in H THEN 1 ELSE 0)
    BY CountAppend
  <2>5. CountIn(c, H) \in Nat /\ CountIn(Append(c, x), H) = CountIn(c, H) + (IF x \in H THEN 1 ELSE 0)
    BY CountAppend
  <2>6. CountIn(d, H) = CountIn(a, H) + CountIn(c, H)
    BY <1>5, <2>1, <2>2, <2>3
  <2>7. f[i] = CountIn(Append(d, x), H) /\ g[i] = CountIn(a, H) + CountIn(Append(c, x), H)
    BY <2>1, <2>2, <2>3
  <2> QED
    BY <1>3, <2>4, <2>5, <2>6, <2>7
<1>6. f[Len(b)] = g[Len(b)]
  <2> HIDE DEF f, g
  <2> QED
    BY <1>1, <1>4, <1>5, ComputationUnique
<1>7. Len(b) \in 0..Len(b)
  BY <1>1
<1> QED
  BY <1>1, <1>6, <1>7

(* The headers of two sequences of pieces.                                  *)
LEMMA HeaderPiecesConcat ==
  ASSUME NEW a \in Seq(AnyPiece), NEW b \in Seq(AnyPiece)
  PROVE  /\ HeaderPieces(a) \in Nat
         /\ HeaderPieces(a \o b) = HeaderPieces(a) + HeaderPieces(b)
<1> DEFINE H == {p \in AnyPiece : p.part = "header"}
<1>1. ASSUME NEW s \in Seq(AnyPiece)
      PROVE  HeaderPieces(s) = CountIn(s, H)
  <2>1. \A i \in 1..Len(s) : s[i] \in AnyPiece
    OBVIOUS
  <2>2. {i \in 1..Len(s) : s[i].part = "header"} = {i \in 1..Len(s) : s[i] \in H}
    BY <2>1
  <2> QED
    BY <2>2 DEF HeaderPieces, CountIn
<1> HIDE DEF H
<1>2. PICK c \in Seq(AnyPiece) : c = a \o b
  <2>1. a \o b \in Seq(AnyPiece)
    OBVIOUS
  <2> QED
    BY <2>1
<1>3. CountIn(a \o b, H) = CountIn(a, H) + CountIn(b, H)
  BY CountConcat
<1>4. HeaderPieces(a) \in Nat
  <2>1. IsFiniteSet(1..Len(a))
    BY FS_Interval
  <2>2. IsFiniteSet({i \in 1..Len(a) : a[i].part = "header"})
    BY <2>1, FS_Subset
  <2> QED
    BY <2>2, FS_CardinalityType DEF HeaderPieces
<1>5. HeaderPieces(a \o b) = CountIn(a \o b, H)
  BY <1>1, <1>2
<1> QED
  BY <1>1, <1>3, <1>4, <1>5

(* Pieces without a header, and one piece.                                  *)
LEMMA HeaderPiecesNone ==
  ASSUME NEW a, \A i \in 1..Len(a) : a[i].part # "header"
  PROVE  HeaderPieces(a) = 0
<1>1. {i \in 1..Len(a) : a[i].part = "header"} = {}
  OBVIOUS
<1> QED
  BY <1>1, FS_EmptySet DEF HeaderPieces

LEMMA HeaderPiecesOne ==
  ASSUME NEW p, p.part = "header"
  PROVE  HeaderPieces(<<p>>) = 1
<1>1. {i \in 1..Len(<<p>>) : <<p>>[i].part = "header"} = {1}
  OBVIOUS
<1> QED
  BY <1>1, FS_Singleton DEF HeaderPieces

(* As many pieces of the same parts have as many headers.                   *)
LEMMA HeaderPiecesSame ==
  ASSUME NEW a, NEW b, Len(a) = Len(b), \A i \in 1..Len(a) : a[i].part = b[i].part
  PROVE  HeaderPieces(a) = HeaderPieces(b)
<1>1. {i \in 1..Len(a) : a[i].part = "header"} = {i \in 1..Len(b) : b[i].part = "header"}
  OBVIOUS
<1> QED
  BY <1>1 DEF HeaderPieces

--------------------------------------------------------------------------------
(* The headers of a plan that are set before useCache. *)
BeforeOf(p) ==
  {i \in 1..Len(p) : p[i] \in {"header", "defaults"} /\ \A j \in 1..i : p[j] # "raw"}

(* How many there are when the first call of the plan returned.             *)
LEMMA BeforeTail ==
  ASSUME NEW p \in Seq(Calls), p # <<>>
  PROVE  /\ Cardinality(BeforeOf(p)) \in Nat
         /\ Head(p) = "raw" => Cardinality(BeforeOf(p)) = 0
         /\ Head(p) \in {"header", "defaults"} =>
              Cardinality(BeforeOf(p)) = Cardinality(BeforeOf(Tail(p))) + 1
         /\ Head(p) \notin {"raw", "header", "defaults"} =>
              Cardinality(BeforeOf(p)) = Cardinality(BeforeOf(Tail(p)))
<1>1. PICK q \in Seq(Calls) : q = Tail(p)
  <2>1. Tail(p) \in Seq(Calls)
    OBVIOUS
  <2> QED
    BY <2>1
<1>2. /\ Len(p) \in Nat /\ Len(q) \in Nat /\ Len(p) = Len(q) + 1 /\ p[1] = Head(p)
      /\ \A i \in 1..Len(q) : q[i] = p[i + 1]
  BY <1>1
<1>3. BeforeOf(q) \subseteq Nat \ {0} /\ BeforeOf(q) \subseteq 1..Len(q) /\ IsFiniteSet(BeforeOf(q))
  <2>1. BeforeOf(q) \subseteq 1..Len(q) /\ 1..Len(q) \subseteq Nat \ {0}
    BY <1>2 DEF BeforeOf
  <2>2. IsFiniteSet(1..Len(q))
    BY <1>2, FS_Interval
  <2>3. IsFiniteSet(BeforeOf(q))
    BY <2>1, <2>2, FS_Subset
  <2> QED
    BY <2>1, <2>3
<1>4. Cardinality(BeforeOf(p)) \in Nat
  <2>1. IsFiniteSet(1..Len(p)) /\ BeforeOf(p) \subseteq 1..Len(p)
    BY <1>2, FS_Interval DEF BeforeOf
  <2> QED
    BY <2>1, FS_Subset, FS_CardinalityType
<1>5. ASSUME Head(p) = "raw"
      PROVE  BeforeOf(p) = {}
  <2>1. \A i \in 1..Len(p) : 1 \in 1..i
    BY <1>2
  <2> QED
    BY <1>2, <1>5, <2>1 DEF BeforeOf
<1>6. ASSUME Head(p) # "raw", NEW i \in 1..Len(q)
      PROVE  i + 1 \in BeforeOf(p) <=> i \in BeforeOf(q)
  <2>1. i + 1 \in 1..Len(p) /\ q[i] = p[i + 1]
    BY <1>2
  <2>2. (\A j \in 1..(i + 1) : p[j] # "raw") <=> (\A j \in 1..i : q[j] # "raw")
    <3>1. ASSUME \A j \in 1..i : q[j] # "raw", NEW j \in 1..(i + 1)
          PROVE  p[j] # "raw"
      <4>1. CASE j = 1
        BY <1>2, <1>6, <4>1
      <4>2. CASE j # 1
        <5>1. j - 1 \in 1..i /\ j - 1 \in 1..Len(q) /\ (j - 1) + 1 = j
          BY <1>2, <4>2
        <5> QED
          BY <1>2, <3>1, <5>1
      <4> QED
        BY <4>1, <4>2
    <3>2. ASSUME \A j \in 1..(i + 1) : p[j] # "raw", NEW j \in 1..i
          PROVE  q[j] # "raw"
      <4>1. j + 1 \in 1..(i + 1) /\ j \in 1..Len(q)
        BY <1>2
      <4> QED
        BY <1>2, <3>2, <4>1
    <3> QED
      BY <3>1, <3>2
  <2> QED
    BY <2>1, <2>2 DEF BeforeOf
<1>7. ASSUME Head(p) # "raw"
      PROVE  /\ Head(p) \in {"header", "defaults"} =>
                  BeforeOf(p) = {1} \cup {i + 1 : i \in BeforeOf(q)}
             /\ Head(p) \notin {"header", "defaults"} => BeforeOf(p) = {i + 1 : i \in BeforeOf(q)}
  <2>1. \A i \in 1..Len(p) : i # 1 => (i \in BeforeOf(p) <=> i \in {j + 1 : j \in BeforeOf(q)})
    <3> SUFFICES ASSUME NEW i \in 1..Len(p), i # 1
                 PROVE  i \in BeforeOf(p) <=> i \in {j + 1 : j \in BeforeOf(q)}
      OBVIOUS
    <3>1. PICK j \in 1..Len(q) : i = j + 1
      <4>1. i - 1 \in 1..Len(q) /\ i = (i - 1) + 1
        BY <1>2
      <4> QED
        BY <4>1
    <3>2. i \in BeforeOf(p) <=> j \in BeforeOf(q)
      BY <1>6, <1>7, <3>1
    <3>3. i \in {k + 1 : k \in BeforeOf(q)} <=> j \in BeforeOf(q)
      BY <1>3, <3>1
    <3> QED
      BY <3>2, <3>3
  <2>2. {j + 1 : j \in BeforeOf(q)} \subseteq 1..Len(p) /\ 1 \notin {j + 1 : j \in BeforeOf(q)}
    BY <1>2, <1>3
  <2>3. BeforeOf(p) \subseteq 1..Len(p) /\ (1 \in BeforeOf(p) <=> Head(p) \in {"header", "defaults"})
    BY <1>2, <1>7 DEF BeforeOf
  <2> QED
    BY <2>1, <2>2, <2>3
<1>8. /\ Cardinality({i + 1 : i \in BeforeOf(q)}) = Cardinality(BeforeOf(q))
      /\ Cardinality({1} \cup {i + 1 : i \in BeforeOf(q)}) = Cardinality(BeforeOf(q)) + 1
  <2>1. BeforeOf(q) \subseteq Nat /\ 1 \in Nat
    BY <1>3
  <2> QED
    BY <1>3, <2>1, Shifted, OneShifted
<1> QED
  BY <1>1, <1>4, <1>5, <1>7, <1>8, FS_EmptySet

--------------------------------------------------------------------------------
(* What the framer and each raw transform hold is of their own response,    *)
(* and a response that has no raw transform has nothing in one.             *)
Of(r) == {p \in Piece : p.who = r}

BelongInv ==
  /\ framer \in Seq(Of(Current))
  /\ \A r \in Responses : tail[r] \in Seq(Of(r))
  /\ (Current > 0 /\ ~raw) => tail[Current] = <<>>

(* A response that begins holds nothing.                                    *)
LEMMA BelongBegin ==
  ASSUME Counts, WhoInv, BelongInv, Begin
  PROVE  BelongInv'
<1>1. /\ tail' = tail /\ framer' = <<>> /\ Current \in Nat /\ Current' = Current + 1
      /\ Current' \in Responses
  <2>1. Len(routes) \in Nat /\ Current' = Current + 1 /\ UNCHANGED <<tail, wire>> /\ framer' = <<>>
        /\ Current < MaxResponses
    BY DEF Begin, Counts, Current
  <2> QED
    BY <2>1, MaxResponsesAssumption DEF Responses, Current
<1>2. \A r \in Responses : Of(r)' = Of(r)
  BY DEF Of, Piece
<1>3. framer' \in Seq(Of(Current)')
  BY <1>1
<1>4. tail[Current'] = <<>>
  <2>1. tail[Current'] \in Seq(Begun) /\ tail[Current'] \in Seq(Of(Current'))
    BY <1>1 DEF WhoInv, BelongInv
  <2>2. SUFFICES ASSUME tail[Current'] # <<>> PROVE FALSE
    OBVIOUS
  <2>3. Head(tail[Current']) \in Begun /\ Head(tail[Current']) \in Of(Current')
    BY <2>1, <2>2
  <2>4. Current' <= Current
    BY <2>3 DEF Begun, Of
  <2> QED
    BY <1>1, <2>4
<1> QED
  BY <1>1, <1>2, <1>3, <1>4 DEF BelongInv

(* Each stream passes on what is of the response.                           *)
LEMMA BelongNext ==
  ASSUME Counts, WhoInv, BelongInv, [Next]_vars
  PROVE  BelongInv'
<1>1. PICK B : B = Of(Current)
  OBVIOUS
<1>2. /\ framer \in Seq(B) /\ tail \in [Responses -> Seq(Begun)]
      /\ \A r \in Responses : tail[r] \in Seq(Of(r))
  BY <1>1 DEF BelongInv, WhoInv
<1>3. ASSUME routes' = routes, framer' \in Seq(B), raw' = raw \/ raw',
             \A r \in Responses : tail'[r] \in Seq(Of(r)), raw' \/ tail'[Current] = <<>> \/ tail' = tail
      PROVE  BelongInv'
  <2>1. Current' = Current /\ \A r \in Responses : Of(r)' = Of(r)
    BY <1>3 DEF Of, Piece, Current
  <2>2. Of(Current)' = B
    BY <1>1, <2>1 DEF Of, Piece
  <2> QED
    BY <1>3, <2>1, <2>2 DEF BelongInv
<1>4. ASSUME Current \in Responses, NEW part \in {"data", "chunk", "last"}, NEW n \in Nat
      PROVE  [who |-> Current, part |-> part, n |-> n] \in B
  <2>1. part \in Parts
    BY DEF Parts
  <2> QED
    BY <1>1, <1>4, <2>1 DEF Of, Piece
<1>5. ASSUME Current \in Responses, NEW size \in Nat
      PROVE  framer \o Framed(size) \in Seq(B)
  <2>1. \A p \in B : <<p>> \in Seq(B)
    OBVIOUS
  <2>2. <<>> \in Seq(B) /\ "chunk" \in {"data", "chunk", "last"} /\ "data" \in {"data", "chunk", "last"}
    OBVIOUS
  <2>3. Framed(size) \in Seq(B)
    BY <1>4, <1>5, <2>1, <2>2, Zenon DEF Framed
  <2> QED
    BY <1>2, <2>3
<1>6. ASSUME Current \in Responses, Final
      PROVE  framer' \in Seq(B)
  <2>1. ZeroChunk \in B
    BY <1>4, <1>6 DEF ZeroChunk
  <2> QED
    BY <1>2, <1>6, <2>1 DEF Final
<1>7. Flowing => Current \in Responses
  BY DEF Flowing, Counts, Busy
<1>8. CASE Begin
  BY <1>8, BelongBegin
<1>9. CASE RouteStep \/ PeerCloses \/ UNCHANGED vars
  <2>1. framer' = framer /\ tail' = tail /\ routes' = routes
    BY <1>9 DEF RouteStep, AddBodyTransform, AddRawBodyTransform, Header, SetBodySize,
         Status, SendBody, SendEmptyBody, Framing, EndHeaders, EndBody, Pipe, FramerClosed, Fail,
         PeerCloses, vars, streams, Call
  <2>2. raw' = raw \/ raw'
    BY <1>9 DEF RouteStep, AddBodyTransform, AddRawBodyTransform, Header, SetBodySize,
         Status, SendBody, SendEmptyBody, Framing, EndHeaders, EndBody, Pipe, FramerClosed, Fail,
         PeerCloses, vars, response
  <2> QED
    BY <1>2, <1>3, <2>1, <2>2
<1>10. CASE Read
  <2>1. Head(source) \in Nat
    BY <1>10 DEF Read, Counts
  <2>2. framer' \in Seq(B)
    BY <1>2, <1>5, <1>7, <1>10, <2>1 DEF Read
  <2> QED
    BY <1>2, <1>3, <1>10, <2>2 DEF Read, Streaming
<1>11. CASE SourceEnds \/ EncoderEnds
  <2>1. framer' \in Seq(B) /\ tail' = tail /\ routes' = routes /\ raw' = raw
    BY <1>2, <1>6, <1>7, <1>11 DEF SourceEnds, EncoderEnds, Streaming
  <2> QED
    BY <1>2, <1>3, <2>1
<1>12. CASE Encode
  <2>1. Head(encoder) \in Nat
    BY <1>12 DEF Encode, Counts
  <2>2. framer' \in Seq(B)
    BY <1>5, <1>7, <1>12, <2>1 DEF Encode
  <2> QED
    BY <1>2, <1>3, <1>12, <2>2 DEF Encode, Streaming
<1>13. CASE Flush
  <2>1. /\ Current \in Responses /\ framer # <<>> /\ framer' = Tail(framer)
        /\ routes' = routes /\ raw' = raw
    BY <1>7, <1>13 DEF Flush, Streaming
  <2>2. framer' \in Seq(B) /\ Head(framer) \in B
    BY <1>2, <2>1
  <2>3. CASE raw
    <3>1. tail' = [tail EXCEPT ![Current] = Append(@, Head(framer))]
      BY <1>13, <2>3 DEF Flush
    <3>2. Append(tail[Current], Head(framer)) \in Seq(Of(Current))
      BY <1>1, <1>2, <2>1, <2>2
    <3>3. \A r \in Responses : tail'[r] = IF r = Current THEN Append(tail[Current], Head(framer)) ELSE tail[r]
      BY <1>2, <2>1, <3>1
    <3>4. \A r \in Responses : tail'[r] \in Seq(Of(r))
      BY <1>2, <3>2, <3>3
    <3> QED
      BY <1>3, <2>1, <2>2, <2>3, <3>4
  <2>4. CASE ~raw
    BY <1>2, <1>3, <1>13, <2>1, <2>2, <2>4 DEF Flush
  <2> QED
    BY <2>3, <2>4
<1>14. CASE FramerCloses
  BY <1>2, <1>3, <1>14 DEF FramerCloses, Streaming
<1>15. ASSUME NEW r \in Responses, FlushRaw(r)
       PROVE  BelongInv'
  <2>1. /\ tail[r] # <<>> /\ tail' = [tail EXCEPT ![r] = Tail(@)] /\ framer' = framer
        /\ routes' = routes /\ raw' = raw
    BY <1>15 DEF FlushRaw, response
  <2>2. Tail(tail[r]) \in Seq(Of(r))
    BY <1>2, <2>1
  <2>3. \A q \in Responses : tail'[q] = IF q = r THEN Tail(tail[r]) ELSE tail[q]
    BY <1>2, <2>1
  <2>4. \A q \in Responses : tail'[q] \in Seq(Of(q))
    BY <1>2, <2>2, <2>3
  <2>5. raw' \/ tail'[Current] = <<>> \/ Current = 0
    <3>1. CASE r = Current
      BY <2>1, <3>1 DEF BelongInv, Responses
    <3>2. CASE r # Current
      <4>1. tail'[Current] = tail[Current]
        BY <1>2, <2>1, <3>2
      <4> QED
        BY <2>1, <4>1 DEF BelongInv, Counts
    <3> QED
      BY <3>1, <3>2
  <2>6. CASE Current = 0
    <3>1. Current' = Current /\ \A q \in Responses : Of(q)' = Of(q)
      BY <2>1 DEF Of, Piece, Current
    <3>2. Of(Current)' = B
      BY <1>1, <3>1 DEF Of, Piece
    <3> QED
      BY <1>2, <2>1, <2>4, <2>6, <3>1, <3>2 DEF BelongInv
  <2> QED
    BY <1>2, <1>3, <2>1, <2>4, <2>5, <2>6
<1> QED
  BY <1>8, <1>9, <1>10, <1>11, <1>12, <1>13, <1>14, <1>15 DEF Next, Step, StreamStep

(* So it is with a cache.                                                   *)
LEMMA BelongKept ==
  ASSUME KeysOwn, CType, WhoInv, BelongInv, [CacheNext]_allVars
  PROVE  BelongInv'
<1>1. CASE ~Replayed
  <2>1. Counts
    BY MaxResponsesAssumption DEF KeysOwn, CType, PiecesInv, Counts, Busy, Current, Responses
  <2> QED
    BY <1>1, <2>1, CacheSteps, BelongNext
<1>2. CASE Replayed
  <2>1. UNCHANGED <<routes, framer, tail, raw>>
    BY <1>2, ReplayedSends DEF streams, response
  <2>2. Current' = Current /\ Of(Current)' = Of(Current) /\ \A r \in Responses : Of(r)' = Of(r)
    BY <2>1 DEF Of, Piece, Current
  <2> QED
    BY <2>1, <2>2 DEF BelongInv
<1> QED
  BY <1>1, <1>2

(* Nothing is held at first.                                                *)
LEMMA BelongInit == CacheInit => BelongInv
<1> SUFFICES ASSUME CacheInit PROVE BelongInv
  OBVIOUS
<1>1. framer = <<>> /\ tail = [r \in Responses |-> <<>>] /\ Current = 0
  BY DEF CacheInit, Init, Current
<1> QED
  BY <1>1 DEF BelongInv

--------------------------------------------------------------------------------
(* What is cached is of heads, as they are heard, and of bodies. *)
HeadPieces == {p \in Piece : p.part \in HeardParts}

PartsCached ==
  \A k \in DOMAIN cache :
    cache[k].headers \in Seq(HeadPieces) /\ cache[k].body \in Seq(BodyPieces)

(* PartsCached is inductive, with the invariants before it.                 *)
LEMMA CachedNext ==
  ASSUME TimeoutsMatch, CType, ShareInv, PartsCached, [CacheNext]_allVars
  PROVE  PartsCached'
<1>1. PICK H, B : H = HeadPieces /\ B = BodyPieces
  OBVIOUS
<1>2. /\ \A k \in DOMAIN cache : cache[k].headers \in Seq(H) /\ cache[k].body \in Seq(B)
      /\ HeadPieces' = H /\ BodyPieces' = B
  BY <1>1 DEF PartsCached, HeadPieces, BodyPieces, Piece, HeardParts
<1>3. ASSUME \A k \in DOMAIN cache' : cache'[k].headers \in Seq(H) /\ cache'[k].body \in Seq(B)
      PROVE  PartsCached'
  BY <1>2, <1>3 DEF PartsCached
<1>4. ASSUME NEW r \in Responses, RawFinal(r) \/ Elsewhere(r)
      PROVE  PartsCached'
  <2>1. Intercepted(r) \in Seq(H) /\ chunks[r] \in Seq(B)
    <3>1. Intercepted(r) \in Seq({p \in Piece : p.part \in HeardParts})
      BY HeardOnly DEF Intercepted, HeardParts, CType, PiecesInv
    <3> QED
      BY <1>1, <3>1 DEF ShareInv, HeadPieces
  <2>2. /\ DOMAIN cache' = DOMAIN cache \cup {Key(r)}
        /\ \A k \in DOMAIN cache' : cache'[k] = IF k = Key(r) THEN Recorded(r) ELSE cache[k]
    BY <1>4 DEF RawFinal, Elsewhere, Put
  <2>3. Recorded(r).headers = Intercepted(r) /\ Recorded(r).body = chunks[r]
    BY DEF Recorded
  <2> QED
    BY <1>2, <1>3, <2>1, <2>2, <2>3
<1>5. ASSUME NEW t, Expire(t)
      PROVE  PartsCached'
  <2>1. \A k \in DOMAIN cache' : k \in DOMAIN cache /\ cache'[k] = cache[k]
    BY <1>5 DEF Expire
  <2> QED
    BY <1>2, <1>3, <2>1
<1>6. CASE Tick
  <2>1. ASSUME NEW k \in DOMAIN cache'
        PROVE  /\ k \in DOMAIN cache
               /\ cache'[k].headers = cache[k].headers /\ cache'[k].body = cache[k].body
    <3>1. k \in DOMAIN cache /\ cache'[k] = [cache[k] EXCEPT !.age = IF @ < TTL THEN @ + 1 ELSE TTL]
      BY <1>6 DEF Tick
    <3>2. IsEntry(cache[k])
      BY <3>1 DEF TimeoutsMatch
    <3> QED
      BY <3>1, <3>2 DEF IsEntry
  <2> QED
    BY <1>2, <1>3, <2>1
<1>7. CASE cache' = cache
  BY <1>2, <1>3, <1>7
<1> QED
  BY <1>4, <1>5, <1>6, <1>7 DEF CacheNext, Caching, cacheVars, allVars, Hit, Miss, ReplayHeader,
     ReplayFails, WriteBodyImmediate, Replaying, Record, Expiring

(* Nothing is cached at first.                                              *)
LEMMA CachedInit == CacheInit => PartsCached
BY DEF CacheInit, PartsCached

--------------------------------------------------------------------------------
(* What was sent of the current response. *)
Own == Heard(wire, Current, Parts)

(* Its route calls useCache, which has not added a raw transform. *)
Asking == Current > 0 /\ Open /\ ~raw /\ Makes(Current, "raw")

(* useCache was not called yet, and what its route has enqueued is counted. *)
Awaiting ==
  /\ "raw" \in Left /\ plan \in Seq(Calls)
  /\ state = "line" =>
       Own = <<>> /\ enqueued + Cardinality(BeforeOf(plan)) = HeadersBefore(Now)

(* The next call fails, or the one after it: the status line is sent        *)
(* already, or an empty body has been put before it.                        *)
Doomed ==
  /\ ~Idle
  /\ \/ state # "line" /\ Head(plan) = "status"
     \/ state = "line" /\ Head(plan) = "endHeaders"
     \/ state = "line" /\ Head(plan) = "defaults" /\ Len(plan) > 1 /\ plan[2] = "endHeaders"

(* One of these as soon as the response begins.                             *)
Seeking == (state = "line" => ~chunked) /\ (Awaiting \/ Doomed)

(* A step that neither calls anything nor moves anything but what a raw     *)
(* transform holds.                                                         *)
Rests ==
  /\ UNCHANGED <<routes, plan, response, source, encoder, framer, eof, replay>>
  /\ UNCHANGED <<wire, tail>> \/ \E r \in Responses : FlushRaw(r)

(* The calls that are told apart here. *)
ToldApart == {"status", "header", "defaults", "endHeaders", "endBody", "replay", "immediate", "raw"}

(* What a step is, by the call that is next.                                *)
LEMMA StepOf ==
  ASSUME [CacheNext]_allVars, ~Begin, Open'
  PROVE  \/ Rests
         \/ ~Idle /\ Head(plan) \notin ToldApart
         \/ ~Idle /\ Head(plan) = "raw" /\ (raw' \/ Hit)
         \/ ~Idle /\ Head(plan) = "status" /\ Status /\ replay' = replay
         \/ ~Idle /\ Head(plan) = "header" /\ Header /\ Call("header") /\ replay' = replay
         \/ ~Idle /\ Head(plan) = "defaults" /\ Header /\ Call("defaults") /\ replay' = replay
         \/ ~Idle /\ Head(plan) = "endHeaders" /\ EndHeaders /\ replay' = replay
         \/ ~Idle /\ Head(plan) = "endBody" /\ EndBody /\ replay' = replay
         \/ ReplayHeader \/ WriteBodyImmediate
<1>1. CASE Uncached /\ UNCHANGED cacheVars
  <2>0. replay' = replay
    BY <1>1 DEF cacheVars
  <2>1. CASE AddBodyTransform \/ SetBodySize \/ SendBody \/ SendEmptyBody \/ Framing \/ Pipe \/ FramerClosed
    <3>1. ~Idle /\ Head(plan) \in {"transform", "size", "buffered", "streamed", "empty", "framing",
                                   "pipe", "closed"}
      BY <2>1 DEF AddBodyTransform, SetBodySize, SendBody, SendEmptyBody, Framing, Pipe,
         FramerClosed, Call
    <3> QED
      BY <3>1 DEF ToldApart
  <2>2. CASE Header
    BY <2>0, <2>2 DEF Header, Call
  <2>3. CASE Status \/ EndHeaders \/ EndBody
    BY <2>0, <2>3 DEF Status, EndHeaders, EndBody, Call
  <2>4. CASE Read \/ SourceEnds \/ Encode \/ EncoderEnds \/ FramerCloses
    <3>1. ~Idle /\ Head(plan) = "closed"
      BY <2>4 DEF Read, SourceEnds, Encode, EncoderEnds, FramerCloses, Flowing
    <3> QED
      BY <3>1 DEF ToldApart
  <2>5. ASSUME NEW r \in Responses, FlushRaw(r)
        PROVE  Rests
    BY <2>0, <2>5 DEF FlushRaw, Rests
  <2>6. ~PeerCloses /\ ~Fail
    BY DEF PeerCloses, Fail, Open
  <2> QED
    BY <1>1, <2>1, <2>2, <2>3, <2>4, <2>5, <2>6 DEF Uncached
<1>2. CASE Hit \/ Miss
  <2>1. ~Idle /\ Head(plan) = "raw" /\ (raw' \/ Hit)
    BY <1>2 DEF Hit, Miss, UseCache, AddRawBodyTransform
  <2> QED
    BY <2>1
<1>3. CASE ReplayFails
  BY <1>3 DEF ReplayFails, Open
<1>4. CASE Record
  <2>1. ~Idle /\ Head(plan) = "closed"
    BY <1>4 DEF Record, Flush, Flowing
  <2> QED
    BY <2>1 DEF ToldApart
<1>5. CASE \/ \E r \in Responses : RawFinal(r) \/ Elsewhere(r)
           \/ \E k \in Keys : Expiring(k)
           \/ Tick \/ UNCHANGED allVars
  <2>1. UNCHANGED <<vars, replay>>
    BY <1>5 DEF RawFinal, Elsewhere, Expiring, Expire, Tick, allVars, cacheVars
  <2> QED
    BY <2>1 DEF Rests, vars, streams
<1> QED
  BY <1>1, <1>2, <1>3, <1>4, <1>5 DEF CacheNext, Caching

(* A route that asks has asked before, unless it begins.                    *)
LEMMA AskedBefore ==
  ASSUME KeysOwn, CType, [CacheNext]_allVars, ~Begin, Asking'
  PROVE  /\ Asking /\ Open' /\ routes' = routes /\ Current' = Current /\ Now' = Now
         /\ Current \in Responses
         /\ HeadersBefore(Now)' = HeadersBefore(Now)
<1>1. routes' = routes /\ Current' = Current
  BY SameRoute
<1>2. Now' = Now /\ (Makes(Current, "raw")' <=> Makes(Current, "raw"))
  BY <1>1 DEF Now, Makes
<1>3. (raw' = raw \/ raw' = TRUE) /\ socket' \in {socket, "destroyed"}
  <2>1. CASE Replayed
    BY <2>1, ReplayedSends DEF response
  <2>2. CASE [Next]_vars
    <3>1. CASE RouteStep \/ PeerCloses \/ UNCHANGED vars
      <4>1. raw' = raw \/ raw' = TRUE
        BY <3>1 DEF RouteStep, AddBodyTransform, AddRawBodyTransform, Header, SetBodySize, Status,
           SendBody, SendEmptyBody, Framing, EndHeaders, EndBody, Pipe, FramerClosed, Fail,
           PeerCloses, vars, response
      <4>2. socket' \in {socket, "destroyed"}
        BY <3>1 DEF RouteStep, AddBodyTransform, AddRawBodyTransform, Header, SetBodySize, Status,
           SendBody, SendEmptyBody, Framing, EndHeaders, EndBody, Pipe, FramerClosed, Fail,
           PeerCloses, vars, Call
      <4> QED
        BY <4>1, <4>2
    <3>2. CASE StreamStep
      BY <3>2 DEF StreamStep, Read, SourceEnds, Encode, EncoderEnds, Flush, FramerCloses, FlushRaw,
         Streaming, response
    <3> QED
      BY <2>2, <3>1, <3>2 DEF Next, Step
  <2> QED
    BY <2>1, <2>2, CacheSteps
<1>4. Open' /\ Asking
  BY <1>1, <1>2, <1>3 DEF Asking, Open
<1>5. Current \in Responses
  BY <1>4, MaxResponsesAssumption DEF Asking, Responses, Current, CType, KeysOwn
<1> QED
  BY <1>1, <1>2, <1>4, <1>5

(* What was sent is pieces, and what is sent of the response is added.      *)
LEMMA OwnType ==
  ASSUME CType
  PROVE  Own \in Seq(Piece) /\ Own \in Seq(AnyPiece) /\ wire \in Seq(Piece) /\ Piece \subseteq AnyPiece
<1>1. Piece \subseteq AnyPiece
  BY MaxResponsesAssumption DEF Piece, AnyPiece, Responses
<1>2. wire \in Seq(Piece) /\ Own \in Seq(Piece)
  BY HeardType DEF Own, CType, PiecesInv
<1> QED
  BY <1>1, <1>2

LEMMA OwnMore ==
  ASSUME CType, Current' = Current, NEW b \in Seq(Piece), wire' = wire \o b,
         \A i \in 1..Len(b) : b[i].who = Current
  PROVE  Own' = Own \o b
<1>1. wire \in Seq(Piece)
  BY OwnType
<1>2. \A i \in 1..Len(b) : b[i].part \in Parts
  <2>1. \A i \in 1..Len(b) : b[i] \in Piece
    OBVIOUS
  <2> QED
    BY <2>1 DEF Piece
<1>3. Heard(b, Current, Parts) = b
  BY <1>2, HeardAll
<1>4. Heard(wire \o b, Current, Parts) = Heard(wire, Current, Parts) \o Heard(b, Current, Parts)
  BY <1>1, HeardConcat
<1>5. Parts' = Parts
  BY DEF Parts
<1> QED
  BY <1>3, <1>4, <1>5, Zenon DEF Own

LEMMA OwnSame ==
  ASSUME UNCHANGED <<wire, routes>>
  PROVE  Own' = Own
BY DEF Own, Current, Parts

(* What raw transforms still hold of other responses is not of this one.    *)
LEMMA OwnRests ==
  ASSUME CType, WhoInv, BelongInv, Asking, Rests
  PROVE  Own' = Own
<1>1. Current' = Current /\ routes' = routes /\ wire \in Seq(Piece)
  BY OwnType DEF Rests, Current
<1>2. CASE wire' = wire
  BY <1>1, <1>2, OwnSame
<1>3. ASSUME NEW r \in Responses, FlushRaw(r), wire' # wire
      PROVE  Own' = Own
  <2>1. tail[r] # <<>> /\ tail[r] \in Seq(Of(r)) /\ r # Current
    BY <1>3 DEF FlushRaw, BelongInv, Asking
  <2>2. PICK p \in Of(r) : p = Head(tail[r])
    <3>1. Head(tail[r]) \in Of(r)
      BY <2>1
    <3> QED
      BY <3>1
  <2>3. wire' = Append(wire, p) /\ p \in Piece /\ p.who # Current
    BY <1>3, <2>1, <2>2 DEF FlushRaw, Sent, Of
  <2>4. Heard(Append(wire, p), Current, Parts) = Heard(wire, Current, Parts)
    BY <1>1, <2>3, HeardAppend
  <2>5. Parts' = Parts
    BY DEF Parts
  <2> QED
    BY <1>1, <2>3, <2>4, <2>5, Zenon DEF Own
<1> QED
  BY <1>2, <1>3 DEF Rests

--------------------------------------------------------------------------------
(* A response that has sent its status line has sent it for good, and what  *)
(* is chunked is known only after it.                                       *)
LEMMA LineStays ==
  ASSUME KeysOwn, CType, [CacheNext]_allVars, ~Begin, state' = "line"
  PROVE  state = "line" /\ chunked' = chunked
<1>1. CASE Replayed
  BY <1>1, ReplayedSends DEF response
<1>2. CASE [Next]_vars
  <2>1. CASE \/ AddBodyTransform \/ AddRawBodyTransform \/ Header \/ SetBodySize \/ SendBody
             \/ SendEmptyBody \/ Pipe \/ FramerClosed \/ Fail \/ PeerCloses \/ UNCHANGED vars
    BY <2>1 DEF AddBodyTransform, AddRawBodyTransform, Header, SetBodySize, SendBody,
       SendEmptyBody, Pipe, FramerClosed, Fail, PeerCloses, vars, response
  <2>2. CASE Status \/ EndHeaders \/ EndBody
    BY <2>2 DEF Status, EndHeaders, EndBody
  <2>3. CASE Framing
    <3>1. state' = state /\ state \in Allowed("framing")
      BY <2>3 DEF Framing, Call
    <3> QED
      BY <3>1 DEF Allowed
  <2>4. CASE StreamStep
    BY <2>4 DEF StreamStep, Read, SourceEnds, Encode, EncoderEnds, Flush, FramerCloses, FlushRaw,
       Streaming, Final, response
  <2> QED
    BY <1>2, <2>1, <2>2, <2>3, <2>4 DEF Next, Step, RouteStep
<1> QED
  BY <1>1, <1>2, CacheSteps

(* A response that begins asks first.                                       *)
LEMMA SeekBegins ==
  ASSUME KeysOwn, CType, ShareInv, Begin, Asking'
  PROVE  Seeking'
<1>1. PICK route \in Routes : routes' = Append(routes, route) /\ plan' = route.calls
  BY DEF Begin
<1>2. /\ Current \in Nat /\ Current' = Current + 1 /\ Now' = route
      /\ route.calls \in Seq(Calls) /\ wire' = wire /\ wire \in Seq(Piece)
      /\ state' = "line" /\ enqueued' = 0 /\ chunked' = FALSE
  <2>1. routes \in Seq(Route) /\ route \in Route
    BY RoutesAssumption DEF KeysOwn
  <2>2. Len(routes) \in Nat /\ Len(routes') = Len(routes) + 1 /\ routes'[Len(routes) + 1] = route
    BY <1>1, <2>1
  <2>3. route.calls \in Seq(Calls)
    BY <2>1 DEF Route
  <2> QED
    BY <2>2, <2>3 DEF Begin, Current, Now, CType, PiecesInv
<1>3. "raw" \in Left'
  <2>1. PICK i \in 1..Len(route.calls) : route.calls[i] = "raw"
    BY <1>2 DEF Asking, Makes, Now
  <2> QED
    BY <1>1, <2>1 DEF Left
<1>4. Own' = <<>>
  <2>1. \A i \in 1..Len(wire) : wire[i].who <= Current /\ wire[i].who \in Nat
    <3>1. wire \in Seq(Begun)
      BY DEF ShareInv, WhoInv
    <3>2. \A i \in 1..Len(wire) : wire[i] \in Begun
      BY <3>1
    <3> QED
      BY <3>2, MaxResponsesAssumption DEF Begun, Piece, Responses
  <2>2. \A i \in 1..Len(wire) : wire[i].who # Current'
    BY <1>2, <2>1
  <2>3. Heard(wire, Current', Parts) = <<>>
    BY <1>2, <2>2, HeardNone
  <2>4. Parts' = Parts
    BY DEF Parts
  <2> QED
    BY <1>2, <2>3, <2>4, Zenon DEF Own
<1>5. enqueued' + Cardinality(BeforeOf(plan))' = HeadersBefore(Now)'
  <2>1. Cardinality(BeforeOf(route.calls)) \in Nat
    <3>1. IsFiniteSet(1..Len(route.calls)) /\ BeforeOf(route.calls) \subseteq 1..Len(route.calls)
      BY <1>2, FS_Interval DEF BeforeOf
    <3> QED
      BY <3>1, FS_Subset, FS_CardinalityType
  <2>2. HeadersBefore(Now)' = Cardinality(BeforeOf(route.calls))
    BY <1>2 DEF HeadersBefore, BeforeOf
  <2>3. BeforeOf(plan)' = BeforeOf(route.calls)
    BY <1>1 DEF BeforeOf
  <2> QED
    BY <1>2, <2>1, <2>2, <2>3
<1>6. plan' \in Seq(Calls)' /\ Calls' = Calls
  BY <1>1, <1>2 DEF Calls
<1> QED
  BY <1>2, <1>3, <1>4, <1>5, <1>6 DEF Seeking, Awaiting

(* Until it is called useCache is still to be called.                       *)
LEMMA AwaitKeeps ==
  ASSUME KeysOwn, CType, Awaiting, Asking', [CacheNext]_allVars, ~Begin, ~Hit
  PROVE  "raw" \in Left' /\ plan' \in Seq(Calls)
<1>1. "raw" \in Left /\ plan \in Seq(Calls) /\ Open' /\ ~raw'
  BY DEF Awaiting, Asking
<1>2. CASE plan' = plan
  BY <1>1, <1>2 DEF Left
<1>3. CASE plan' # plan
  <2>1. plan # <<>> /\ \E made \in Seq(Inserted) : plan' = made \o Tail(plan)
    BY <1>1, <1>3, PlanMoves DEF Open
  <2>2. PICK made \in Seq(Inserted) : plan' = made \o Tail(plan)
    BY <2>1
  <2>3. made \in Seq(Calls)
    BY DEF Inserted, Calls
  <2>4. Left \subseteq {Head(plan)} \cup Left'
    <3>1. \A i \in 1..Len(made) : made[i] \in Calls
      BY <2>3
    <3> QED
      BY <1>1, <2>1, <2>2, <2>3, <3>1, LeftReplaced
  <2>5. Head(plan) # "raw"
    <3> SUFFICES ASSUME Head(plan) = "raw" PROVE FALSE
      OBVIOUS
    <3>1. ~Rests
      BY <1>3 DEF Rests
    <3>2. ~ReplayHeader /\ ~WriteBodyImmediate
      BY DEF ReplayHeader, WriteBodyImmediate, Replaying
    <3> QED
      BY <1>1, <3>1, <3>2, StepOf DEF ToldApart
  <2>6. Tail(plan) \in Seq(Calls)
    BY <1>1, <2>1
  <2>7. plan' \in Seq(Calls)
    BY <2>2, <2>3, <2>6
  <2>8. "raw" \in Left'
    BY <1>1, <2>4, <2>5
  <2> QED
    BY <2>7, <2>8
<1> QED
  BY <1>2, <1>3

(* What is enqueued meanwhile is counted.                                   *)
LEMMA AwaitCounts ==
  ASSUME IType, PlanInv, Awaiting, state = "line", RouteStep, ~Fail, ~raw', state' = "line"
  PROVE  \/ Doomed'
         \/ /\ wire' = wire /\ routes' = routes
            /\ enqueued' + Cardinality(BeforeOf(plan))' = HeadersBefore(Now)
<1>1. /\ plan \in Seq(Calls) /\ enqueued \in Nat /\ wire \in Seq(Piece)
      /\ enqueued + Cardinality(BeforeOf(plan)) = HeadersBefore(Now)
      /\ Left \cap InternalCalls = {}
  BY DEF Awaiting, IType, TypeOK, PlanInv
<1>2. BeforeOf(plan)' = BeforeOf(plan')
  BY DEF BeforeOf
<1>3. PICK n \in Nat : n = Cardinality(BeforeOf(Tail(plan)))
  <2>1. Tail(plan) \in Seq(Calls) \/ plan = <<>>
    BY <1>1
  <2>2. plan # <<>>
    BY RouteStepBusy DEF Idle
  <2>3. PICK q \in Seq(Calls) : q = Tail(plan)
    BY <2>1, <2>2
  <2>4. IsFiniteSet(1..Len(q)) /\ BeforeOf(q) \subseteq 1..Len(q)
    BY FS_Interval DEF BeforeOf
  <2> QED
    BY <2>3, <2>4, FS_Subset, FS_CardinalityType
<1>4. ASSUME NEW call \in {"transform", "size", "header", "defaults", "empty"}, Call(call)
      PROVE  wire' = wire /\ routes' = routes /\ plan # <<>> /\ Head(plan) = call
  <2>1. Writes(call) = <<>>
    BY <1>4 DEF Writes
  <2> QED
    BY <1>1, <1>4, <2>1, CallWrites DEF Call, Idle
<1>5. CASE AddBodyTransform \/ SetBodySize
  <2>1. /\ wire' = wire /\ routes' = routes /\ plan # <<>> /\ Head(plan) \in {"transform", "size"}
        /\ plan' = Tail(plan) /\ enqueued' = enqueued
    BY <1>4, <1>5 DEF AddBodyTransform, SetBodySize, Returns
  <2>2. Cardinality(BeforeOf(plan)) = Cardinality(BeforeOf(Tail(plan)))
    BY <1>1, <2>1, BeforeTail
  <2> QED
    BY <1>1, <1>2, <2>1, <2>2
<1>6. CASE Header
  <2>1. /\ wire' = wire /\ routes' = routes /\ plan # <<>> /\ Head(plan) \in {"header", "defaults"}
        /\ plan' = Tail(plan) /\ enqueued' = enqueued + 1
    BY <1>4, <1>6 DEF Header, Returns
  <2>2. Cardinality(BeforeOf(plan)) = Cardinality(BeforeOf(Tail(plan))) + 1
    BY <1>1, <2>1, BeforeTail
  <2> QED
    BY <1>1, <1>2, <1>3, <2>1, <2>2
<1>7. CASE SendEmptyBody
  <2>1. plan' = <<"defaults", "endHeaders", "endBody">> \o Tail(plan) /\ plan # <<>>
    BY <1>7 DEF SendEmptyBody, Call, Idle
  <2>2. Tail(plan) \in Seq(Calls)
    BY <1>1, <2>1
  <2>3. plan' # <<>> /\ plan'[1] = "defaults" /\ plan'[2] = "endHeaders" /\ Len(plan') > 1
        /\ Head(plan') = plan'[1]
    BY <2>1, <2>2
  <2> QED
    BY <2>3 DEF Doomed, Idle
<1>8. CASE AddRawBodyTransform
  BY <1>8 DEF AddRawBodyTransform
<1>9. CASE Status \/ EndHeaders \/ EndBody
  BY <1>9 DEF Status, EndHeaders, EndBody
<1>10. CASE SendBody \/ Framing
  <2>1. state \in Allowed("buffered") \/ state \in Allowed("streamed") \/ state \in Allowed("framing")
    BY <1>10 DEF SendBody, Framing, Call
  <2> QED
    BY <2>1 DEF Allowed
<1>11. CASE Pipe \/ FramerClosed
  <2>1. plan # <<>> /\ Head(plan) \in InternalCalls
    BY <1>11 DEF Pipe, FramerClosed, Call, InternalCalls, Idle
  <2>2. Head(plan) \in Left
    BY <1>1, <2>1, LeftHead
  <2> QED
    BY <1>1, <2>1, <2>2
<1> QED
  BY <1>5, <1>6, <1>7, <1>8, <1>9, <1>10, <1>11 DEF RouteStep

(* What is doomed fails.                                                    *)
LEMMA DoomedStays ==
  ASSUME CType, Doomed, Open', [CacheNext]_allVars, ~Begin
  PROVE  ~Hit /\ Doomed'
<1>1. plan \in Seq(AllCalls) /\ plan # <<>> /\ Head(plan) \in {"status", "endHeaders", "defaults"}
  BY DEF CType, ReplayInv, Replays, Doomed, Idle
<1>2. ~Hit
  BY <1>1 DEF Hit, UseCache
<1>3. CASE Rests
  <2>1. plan' = plan /\ state' = state
    BY <1>3 DEF Rests, response
  <2> QED
    BY <1>2, <2>1 DEF Doomed, Idle
<1>4. CASE Head(plan) = "status" /\ Status
  <2>1. state \in Allowed("status")
    BY <1>4 DEF Status, Call
  <2> QED
    BY <1>4, <2>1 DEF Doomed, Allowed
<1>5. CASE Head(plan) = "endHeaders" /\ EndHeaders
  <2>1. state \in Allowed("endHeaders")
    BY <1>5 DEF EndHeaders, Call
  <2> QED
    BY <1>5, <2>1 DEF Doomed, Allowed
<1>6. CASE Head(plan) = "defaults" /\ Header
  <2>1. plan' = Tail(plan) /\ state' = state
    BY <1>6 DEF Header, Returns
  <2>2. state = "line" /\ Len(plan) > 1 /\ plan[2] = "endHeaders"
    BY <1>6 DEF Doomed
  <2>3. Tail(plan) # <<>> /\ Head(Tail(plan)) = plan[2]
    <3>1. PICK p \in Seq(AllCalls) : p = plan
      BY <1>1
    <3>2. Len(p) \in Nat /\ Len(p) > 1 /\ Tail(p) \in Seq(AllCalls) /\ Len(Tail(p)) = Len(p) - 1
      BY <1>1, <2>2, <3>1
    <3>3. 1 \in 1..Len(Tail(p)) /\ Tail(p)[1] = p[1 + 1] /\ 1 + 1 = 2
      BY <3>2
    <3>4. PICK q \in Seq(AllCalls) : q = Tail(p)
      BY <3>2
    <3>5. q # <<>> /\ Head(q) = q[1]
      BY <3>2, <3>4
    <3> QED
      BY <3>1, <3>3, <3>4, <3>5
  <2>4. ~Idle' /\ state' = "line" /\ Head(plan)' = "endHeaders"
    BY <2>1, <2>2, <2>3 DEF Idle
  <2> QED
    BY <1>2, <2>4 DEF Doomed
<1>7. ~ReplayHeader /\ ~WriteBodyImmediate
  BY <1>1 DEF ReplayHeader, WriteBodyImmediate, Replaying
<1> QED
  BY <1>1, <1>2, <1>3, <1>4, <1>5, <1>6, <1>7, StepOf DEF ToldApart

(* So a route that asks goes on to, or fails, unless it hits.               *)
LEMMA SeekNext ==
  ASSUME KeysOwn, CType, ShareInv, TouchInv, BelongInv, Asking', Seeking,
         [CacheNext]_allVars, ~Begin, ~Hit
  PROVE  Seeking'
<1>1. /\ Asking /\ Open' /\ ~raw' /\ routes' = routes /\ Current' = Current /\ Now' = Now
      /\ HeadersBefore(Now)' = HeadersBefore(Now)
  BY AskedBefore DEF Asking
<1>2. state' = "line" => ~chunked'
  BY LineStays DEF Seeking
<1>3. CASE Doomed
  BY <1>1, <1>2, <1>3, DoomedStays DEF Seeking
<1>4. CASE Awaiting
  <2>1. "raw" \in Left' /\ plan' \in Seq(Calls) /\ Calls' = Calls
    BY <1>4, AwaitKeeps DEF Calls
  <2>2. ASSUME state' = "line"
        PROVE  Doomed' \/ (/\ Own' = <<>>
                           /\ enqueued' + Cardinality(BeforeOf(plan))' = HeadersBefore(Now)')
    <3>1. state = "line" /\ Own = <<>> /\ "raw" \in Left /\ plan \in Seq(Calls)
          /\ enqueued + Cardinality(BeforeOf(plan)) = HeadersBefore(Now)
      BY <1>4, <2>2, LineStays DEF Awaiting
    <3>2. ~Idle
      BY <3>1 DEF Left, Idle
    <3>3. InTouch
      BY <1>1, <3>1, <3>2 DEF InTouch, ShareInv, Asking
    <3>4. ~Replayed /\ IType /\ PlanInv
      BY <3>3, TouchCalls
    <3>5. ~Flowing
      BY <3>1, <3>4, FlowingSent
    <3>6. CASE RouteStep /\ ~Fail
      <4>1. CASE Doomed'
        BY <4>1
      <4>2. CASE /\ wire' = wire /\ routes' = routes
                 /\ enqueued' + Cardinality(BeforeOf(plan))' = HeadersBefore(Now)
        <5>1. Own' = Own
          BY <4>2, OwnSame
        <5> QED
          BY <1>1, <3>1, <4>2, <5>1
      <4> QED
        BY <1>1, <1>4, <2>2, <3>1, <3>4, <3>6, <4>1, <4>2, AwaitCounts
    <3>7. CASE Rests
      <4>1. Own' = Own
        BY <1>1, <3>7, OwnRests DEF ShareInv
      <4>2. enqueued' = enqueued /\ BeforeOf(plan)' = BeforeOf(plan)
        BY <3>7 DEF Rests, response, BeforeOf
      <4> QED
        BY <1>1, <3>1, <4>1, <4>2
    <3>8. Fail => ~Open'
      BY DEF Fail, Open
    <3>9. ~(Read \/ SourceEnds \/ Encode \/ EncoderEnds \/ FramerCloses \/ Record)
      BY <3>5 DEF Read, SourceEnds, Encode, EncoderEnds, FramerCloses, Record, Flush
    <3>10. CASE (PeerCloses \/ \E r \in Responses : FlushRaw(r)) /\ UNCHANGED cacheVars
      <4>1. ~PeerCloses
        BY <1>1 DEF PeerCloses, Open
      <4>2. Rests
        BY <3>10, <4>1 DEF Rests, FlushRaw, cacheVars
      <4> QED
        BY <3>7, <4>2
    <3>11. CASE UNCHANGED <<wire, plan, enqueued>>
      <4>1. Own' = Own
        BY <1>1, <3>11, OwnSame
      <4>2. enqueued' = enqueued /\ BeforeOf(plan)' = BeforeOf(plan)
        BY <3>11 DEF BeforeOf
      <4> QED
        BY <1>1, <3>1, <4>1, <4>2
    <3>12. (UNCHANGED vars \/ \E r \in Responses : RawFinal(r)) => UNCHANGED <<wire, plan, enqueued>>
      BY DEF RawFinal, vars, response
    <3> QED
      BY <1>1, <3>4, <3>6, <3>8, <3>9, <3>10, <3>11, <3>12, CacheCases
  <2> QED
    BY <1>2, <2>1, <2>2 DEF Seeking, Awaiting
<1> QED
  BY <1>3, <1>4 DEF Seeking

--------------------------------------------------------------------------------
(* What is sent after the status line. *)
Follower == {p \in AnyPiece : p.part # "status"}

(* A response is, but for more headers of its own, all that was recorded of *)
(* the route of, and the headers that the route now set before useCache.    *)
Whole(pieces, more, of, now) ==
  LET client == Reads(pieces, {})
  IN  /\ HeaderPieces(pieces) + more = Headers(of) + HeadersBefore(now)
      /\ Sound(of) => client.mode = "status" /\ client.got = Units(of)

(* It will be, once it has written rest and more of its headers.            *)
Promise(more, rest) == Whole(Own \o rest, more, replay.of, Now)

(* The calls of a hit after its headers. *)
HitEnd == <<"defaults", "endHeaders", "immediate", "endBody">>

(* The last of them, from the one at k. *)
HitAt(p, k) ==
  /\ Len(p) = 5 - k
  /\ \A i \in 1..(5 - k) : p[i] = HitEnd[i + k - 1]

(* m enqueued headers to write, n recorded ones, and the end. *)
HitPlan(p, m, n) ==
  /\ Len(p) = m + n + 4
  /\ \A i \in 1..(m + n + 4) :
       p[i] = IF i <= m THEN "header" ELSE IF i <= m + n THEN "replay" ELSE HitEnd[i - m - n]

(* What a sequence begins with. *)
LEMMA HeadTail ==
  ASSUME NEW S, NEW p \in Seq(S), NEW n \in Nat, Len(p) = n + 1
  PROVE  /\ p # <<>> /\ Head(p) = p[1] /\ Tail(p) \in Seq(S) /\ Len(Tail(p)) = n
         /\ \A i \in 1..n : Tail(p)[i] = p[i + 1]
<1>1. Len(p) # 0 /\ Len(p) > 0
  OBVIOUS
<1>2. p # <<>> /\ Head(p) = p[1]
  BY <1>1
<1>3. Tail(p) \in Seq(S) /\ Len(Tail(p)) = n
  BY <1>1
<1>4. \A i \in 1..n : Tail(p)[i] = p[i + 1]
  BY <1>1
<1> QED
  BY <1>2, <1>3, <1>4

(* The calls of a hit, one after the other. *)
LEMMA HitAtHead ==
  ASSUME NEW p \in Seq(AllCalls), NEW k \in 1..4, HitAt(p, k)
  PROVE  /\ p # <<>> /\ Head(p) = HitEnd[k]
         /\ HitAt(Tail(p), k + 1)
<1>1. 4 - k \in Nat /\ Len(p) = (4 - k) + 1 /\ \A i \in 1..(5 - k) : p[i] = HitEnd[i + k - 1]
  BY DEF HitAt
<1>2. /\ p # <<>> /\ Head(p) = p[1] /\ Len(Tail(p)) = 4 - k
      /\ \A i \in 1..(4 - k) : Tail(p)[i] = p[i + 1]
  BY <1>1, HeadTail
<1>3. p[1] = HitEnd[k]
  <2>1. 1 \in 1..(5 - k) /\ 1 + k - 1 = k
    OBVIOUS
  <2> QED
    BY <1>1, <2>1
<1>4. ASSUME NEW i \in 1..(4 - k)
      PROVE  Tail(p)[i] = HitEnd[i + (k + 1) - 1]
  <2>1. i + 1 \in 1..(5 - k) /\ (i + 1) + k - 1 = i + (k + 1) - 1
    OBVIOUS
  <2> QED
    BY <1>1, <1>2, <2>1
<1>5. 5 - (k + 1) = 4 - k
  OBVIOUS
<1> QED
  BY <1>2, <1>3, <1>4, <1>5 DEF HitAt

(* The headers come first: those enqueued, and then those recorded.         *)
LEMMA HitPlanHead ==
  ASSUME NEW p \in Seq(AllCalls), NEW m \in Nat, NEW n \in Nat, HitPlan(p, m, n)
  PROVE  /\ p # <<>>
         /\ m > 0 => Head(p) = "header" /\ HitPlan(Tail(p), m - 1, n)
         /\ m = 0 /\ n > 0 => Head(p) = "replay" /\ HitPlan(Tail(p), 0, n - 1)
         /\ m = 0 /\ n = 0 => Head(p) = "defaults" /\ HitAt(Tail(p), 2)
<1>1. /\ m + n + 3 \in Nat /\ Len(p) = (m + n + 3) + 1 /\ 1 \in 1..(m + n + 4)
      /\ \A i \in 1..(m + n + 4) :
           p[i] = IF i <= m THEN "header" ELSE IF i <= m + n THEN "replay" ELSE HitEnd[i - m - n]
  BY DEF HitPlan
<1>2. /\ p # <<>> /\ Head(p) = p[1] /\ Len(Tail(p)) = m + n + 3
      /\ \A i \in 1..(m + n + 3) : Tail(p)[i] = p[i + 1]
  BY <1>1, HeadTail
<1>3. ASSUME NEW i \in 1..(m + n + 3)
      PROVE  Tail(p)[i] = IF i + 1 <= m THEN "header" ELSE IF i + 1 <= m + n THEN "replay"
                          ELSE HitEnd[(i + 1) - m - n]
  <2>1. i + 1 \in 1..(m + n + 4)
    OBVIOUS
  <2> QED
    BY <1>1, <1>2, <2>1
<1>4. CASE m > 0
  <2>1. Head(p) = "header" /\ m - 1 \in Nat /\ (m - 1) + n + 4 = m + n + 3
    BY <1>1, <1>2, <1>4
  <2>2. ASSUME NEW i \in 1..(m + n + 3)
        PROVE  Tail(p)[i] = IF i <= m - 1 THEN "header" ELSE IF i <= (m - 1) + n THEN "replay"
                            ELSE HitEnd[i - (m - 1) - n]
    <3>1. /\ i + 1 <= m <=> i <= m - 1
          /\ i + 1 <= m + n <=> i <= (m - 1) + n
          /\ (i + 1) - m - n = i - (m - 1) - n
      OBVIOUS
    <3> QED
      BY <1>3, <3>1
  <2> QED
    BY <1>2, <1>4, <2>1, <2>2 DEF HitPlan
<1>5. CASE m = 0 /\ n > 0
  <2>1. Head(p) = "replay" /\ n - 1 \in Nat /\ 0 + (n - 1) + 4 = m + n + 3
    BY <1>1, <1>2, <1>5
  <2>2. ASSUME NEW i \in 1..(m + n + 3)
        PROVE  Tail(p)[i] = IF i <= 0 THEN "header" ELSE IF i <= 0 + (n - 1) THEN "replay"
                            ELSE HitEnd[i - 0 - (n - 1)]
    <3>1. /\ ~(i + 1 <= m) /\ ~(i <= 0)
          /\ i + 1 <= m + n <=> i <= 0 + (n - 1)
          /\ (i + 1) - m - n = i - 0 - (n - 1)
      BY <1>5
    <3> QED
      BY <1>3, <3>1
  <2> QED
    BY <1>2, <1>5, <2>1, <2>2 DEF HitPlan
<1>6. CASE m = 0 /\ n = 0
  <2>1. ~(1 <= m) /\ ~(1 <= m + n) /\ 1 - m - n = 1
    BY <1>6
  <2>2. Head(p) = "defaults"
    BY <1>1, <1>2, <2>1 DEF HitEnd
  <2>3. m + n + 3 = 5 - 2
    BY <1>6
  <2>4. ASSUME NEW i \in 1..(5 - 2)
        PROVE  Tail(p)[i] = HitEnd[i + 2 - 1]
    <3>1. i \in 1..(m + n + 3) /\ ~(i + 1 <= m) /\ ~(i + 1 <= m + n) /\ (i + 1) - m - n = i + 2 - 1
      BY <1>6
    <3> QED
      BY <1>3, <3>1
  <2> QED
    BY <1>2, <1>6, <2>2, <2>3, <2>4 DEF HitAt
<1>7. m > 0 \/ (m = 0 /\ n > 0) \/ (m = 0 /\ n = 0)
  OBVIOUS
<1> QED
  BY <1>2, <1>4, <1>5, <1>6, <1>7

(* A call that is made again and again. *)
LEMMA Repeated ==
  ASSUME NEW S, NEW x \in S, NEW n \in Nat
  PROVE  /\ [i \in 1..n |-> x] \in Seq(S) /\ Len([i \in 1..n |-> x]) = n
         /\ \A i \in 1..n : [j \in 1..n |-> x][i] = x
OBVIOUS

(* The plan of a hit. *)
LEMMA HitPlanned ==
  ASSUME NEW n \in Nat
  PROVE  LET p == <<"status">> \o [i \in 1..n |-> "replay"] \o HitEnd
         IN  /\ p \in Seq(AllCalls) /\ p # <<>> /\ Head(p) = "status"
             /\ HitPlan(Tail(p), 0, n)
<1>1. PICK r \in Seq(AllCalls) : r = [i \in 1..n |-> "replay"] /\ Len(r) = n
                                 /\ \A i \in 1..n : r[i] = "replay"
  <2>1. "replay" \in AllCalls
    BY DEF AllCalls
  <2> QED
    BY <2>1, Repeated
<1>2. PICK h \in Seq(AllCalls) : h = HitEnd /\ Len(h) = 4
  <2>1. HitEnd \in Seq(AllCalls) /\ Len(HitEnd) = 4
    BY DEF HitEnd, AllCalls, Calls
  <2> QED
    BY <2>1
<1>3. PICK s \in Seq(AllCalls) : s = <<"status">> /\ Len(s) = 1 /\ s[1] = "status"
  <2>1. <<"status">> \in Seq(AllCalls) /\ Len(<<"status">>) = 1 /\ <<"status">>[1] = "status"
    BY DEF AllCalls, Calls
  <2> QED
    BY <2>1
<1>4. PICK p \in Seq(AllCalls) : p = s \o r \o h
  <2>1. s \o r \o h \in Seq(AllCalls)
    OBVIOUS
  <2> QED
    BY <2>1
<1>5. /\ Len(p) = (n + 4) + 1 /\ n + 4 \in Nat /\ p[1] = "status"
      /\ \A i \in 1..(n + 4) : p[i + 1] = IF i <= n THEN r[i] ELSE h[i - n]
  <2>1. PICK q \in Seq(AllCalls) : q = s \o r
    <3>1. s \o r \in Seq(AllCalls)
      OBVIOUS
    <3> QED
      BY <3>1
  <2>2. Len(q) = n + 1 /\ q[1] = "status" /\ \A i \in 1..n : q[i + 1] = r[i]
    <3>1. Len(q) = 1 + n /\ q[1] = s[1]
      BY <1>1, <1>3, <2>1
    <3>2. \A i \in 1..n : q[1 + i] = r[i]
      BY <1>1, <1>3, <2>1
    <3> QED
      BY <1>3, <3>1, <3>2
  <2>3. p = q \o h
    BY <1>4, <2>1
  <2>4. Len(p) = (n + 1) + 4 /\ p[1] = "status"
    <3>1. Len(p) = Len(q) + Len(h)
      BY <2>3
    <3>3. 1 \in 1..Len(q)
      BY <2>2
    <3>2. p[1] = q[1]
      BY <2>3, <3>3
    <3> QED
      BY <1>2, <2>2, <3>1, <3>2
  <2>5. ASSUME NEW i \in 1..(n + 4)
        PROVE  p[i + 1] = IF i <= n THEN r[i] ELSE h[i - n]
    <3>1. CASE i <= n
      <4>1. i \in 1..n /\ i + 1 \in 1..Len(q)
        BY <2>2, <3>1
      <4>2. p[i + 1] = q[i + 1]
        BY <2>3, <4>1
      <4> QED
        BY <2>2, <3>1, <4>1, <4>2
    <3>2. CASE ~(i <= n)
      <4>1. i - n \in 1..Len(h) /\ i + 1 = Len(q) + (i - n)
        BY <1>2, <2>2, <3>2
      <4>2. p[Len(q) + (i - n)] = h[i - n]
        BY <2>3, <4>1
      <4> QED
        BY <3>2, <4>1, <4>2
    <3> QED
      BY <3>1, <3>2
  <2> QED
    BY <2>4, <2>5
<1>6. /\ p # <<>> /\ Head(p) = p[1] /\ Len(Tail(p)) = n + 4
      /\ \A i \in 1..(n + 4) : Tail(p)[i] = p[i + 1]
  BY <1>5, HeadTail
<1>7. 0 + n + 4 = n + 4
  OBVIOUS
<1>8. ASSUME NEW i \in 1..(n + 4)
      PROVE  Tail(p)[i] = IF i <= 0 THEN "header" ELSE IF i <= 0 + n THEN "replay" ELSE HitEnd[i - 0 - n]
  <2>1. ~(i <= 0) /\ (i <= 0 + n <=> i <= n) /\ i - 0 - n = i - n /\ (i <= n => i \in 1..n)
    OBVIOUS
  <2> QED
    BY <1>1, <1>2, <1>5, <1>6, <2>1
<1>9. HitPlan(Tail(p), 0, n)
  BY <1>6, <1>7, <1>8 DEF HitPlan
<1> QED
  BY <1>1, <1>2, <1>3, <1>4, <1>5, <1>6, <1>9

(* The enqueued headers are put before it. *)
LEMMA HitPlanPut ==
  ASSUME NEW p \in Seq(AllCalls), NEW m \in Nat, NEW n \in Nat, HitPlan(p, 0, n)
  PROVE  HitPlan([i \in 1..m |-> "header"] \o p, m, n)
<1>1. PICK h \in Seq(AllCalls) : h = [i \in 1..m |-> "header"] /\ Len(h) = m
                                 /\ \A i \in 1..m : h[i] = "header"
  <2>1. "header" \in AllCalls
    BY DEF AllCalls, Calls
  <2> QED
    BY <2>1, Repeated
<1>2. /\ Len(p) = n + 4
      /\ \A i \in 1..(n + 4) : p[i] = IF i <= n THEN "replay" ELSE HitEnd[i - n]
  <2>1. \A i \in 1..(n + 4) : ~(i <= 0) /\ (i <= 0 + n <=> i <= n) /\ i - 0 - n = i - n
    OBVIOUS
  <2>2. 0 + n + 4 = n + 4
    OBVIOUS
  <2> QED
    BY <2>1, <2>2 DEF HitPlan
<1>3. Len(h \o p) = m + n + 4
  BY <1>1, <1>2
<1>4. ASSUME NEW i \in 1..(m + n + 4)
      PROVE  (h \o p)[i] = IF i <= m THEN "header" ELSE IF i <= m + n THEN "replay"
                           ELSE HitEnd[i - m - n]
  <2>1. CASE i <= m
    <3>1. i \in 1..Len(h) /\ i \in 1..m
      BY <1>1, <2>1
    <3>2. (h \o p)[i] = h[i]
      BY <3>1
    <3> QED
      BY <1>1, <2>1, <3>1, <3>2
  <2>2. CASE ~(i <= m)
    <3>1. i - m \in 1..Len(p) /\ i = Len(h) + (i - m) /\ i - m \in 1..(n + 4)
          /\ (i - m <= n <=> i <= m + n)
      BY <1>1, <1>2, <2>2
    <3>2. (h \o p)[Len(h) + (i - m)] = p[i - m]
      BY <3>1
    <3> QED
      BY <1>2, <2>2, <3>1, <3>2
  <2> QED
    BY <2>1, <2>2
<1> QED
  BY <1>1, <1>3, <1>4 DEF HitPlan

(* Sequences are put one after the other. *)
LEMMA ConcatThree ==
  ASSUME NEW S, NEW a \in Seq(S), NEW b \in Seq(S), NEW c \in Seq(S)
  PROVE  a \o (b \o c) = (a \o b) \o c
OBVIOUS

(* A piece is sent, or another like it for one that was to be: what follows *)
(* is as it was.                                                            *)
LEMMA WholeSend ==
  ASSUME NEW own \in Seq(AnyPiece), NEW x \in Seq(AnyPiece), NEW y \in Seq(AnyPiece),
         NEW z \in Seq(Follower), NEW of, NEW now, NEW m \in Nat, NEW n \in Nat,
         Whole(own \o (y \o z), m, of, now),
         Alike(Reads(own \o x, {}), Reads(own \o y, {})),
         HeaderPieces(x) + n = HeaderPieces(y) + m
  PROVE  Whole((own \o x) \o z, n, of, now)
<1>1. z \in Seq(AnyPiece) /\ \A i \in 1..Len(z) : SaySame(z[i], z[i])
  <2>1. z \in Seq(AnyPiece)
    BY DEF Follower
  <2>2. \A i \in 1..Len(z) : z[i] \in Follower
    OBVIOUS
  <2> QED
    BY <2>1, <2>2 DEF SaySame, Follower
<1>2. PICK a \in Seq(AnyPiece), b \in Seq(AnyPiece) : a = own \o x /\ b = own \o y
  <2>1. own \o x \in Seq(AnyPiece) /\ own \o y \in Seq(AnyPiece)
    OBVIOUS
  <2> QED
    BY <2>1
<1>3. own \o (y \o z) = b \o z
  BY <1>1, <1>2, ConcatThree
<1>4. Alike(Reads(a \o z, {}), Reads(b \o z, {}))
  BY <1>1, <1>2, ReadsAlike
<1>5. HeaderPieces(a \o z) + n = HeaderPieces(b \o z) + m
  <2>1. /\ HeaderPieces(a \o z) = HeaderPieces(a) + HeaderPieces(z)
        /\ HeaderPieces(b \o z) = HeaderPieces(b) + HeaderPieces(z)
    BY <1>1, <1>2, HeaderPiecesConcat
  <2>2. /\ HeaderPieces(a) = HeaderPieces(own) + HeaderPieces(x)
        /\ HeaderPieces(b) = HeaderPieces(own) + HeaderPieces(y)
    BY <1>2, HeaderPiecesConcat
  <2>3. PICK o \in Nat, u \in Nat, v \in Nat, w \in Nat :
          /\ o = HeaderPieces(own) /\ u = HeaderPieces(x)
          /\ v = HeaderPieces(y) /\ w = HeaderPieces(z)
    BY <1>1, HeaderPiecesConcat
  <2>4. /\ HeaderPieces(a \o z) = (o + u) + w /\ HeaderPieces(b \o z) = (o + v) + w
        /\ u + n = v + m
    BY <2>1, <2>2, <2>3
  <2>5. ((o + u) + w) + n = ((o + v) + w) + m
    BY <2>4
  <2> QED
    BY <2>4, <2>5
<1> QED
  BY <1>2, <1>3, <1>4, <1>5 DEF Whole, Alike

--------------------------------------------------------------------------------
(* What is sent after the headers of a hit, and after its status line.      *)
TheBody == Part("blank") \o replay.body
TheHead == replay.headers \o TheBody

(* A hit, from the call of useCache to its last.                            *)
HitLine ==
  /\ state = "line" /\ ~Idle /\ Head(plan) = "status" /\ Own = <<>>
  /\ HitPlan(Tail(plan), 0, Len(replay.headers))
  /\ Promise(enqueued, Part("status") \o TheHead)

InHead == state = "headers" /\ Reads(Own, {}).mode = "headers"

HitHeaders ==
  /\ InHead
  /\ \E m \in Nat : HitPlan(plan, m, Len(replay.headers)) /\ Promise(m, TheHead)

HitBlank == InHead /\ HitAt(plan, 2) /\ Promise(0, TheBody)

HitBody == state = "body" /\ HitAt(plan, 3) /\ Promise(0, replay.body)

HitEnds == state = "body" /\ HitAt(plan, 4) /\ Promise(0, <<>>)

HitDone == state = "finished" /\ Idle /\ Promise(0, <<>>)

Recalls == replay.headers \in Seq(HeadPieces) /\ replay.body \in Seq(BodyPieces)

Answering ==
  /\ ~chunked /\ Recalls
  /\ HitLine \/ HitHeaders \/ HitBlank \/ HitBody \/ HitEnds \/ HitDone

(* Where a route with useCache is, unless it recorded or failed.            *)
AnswerInv == Asking => Seeking \/ Answering

(* No status line is in what is recorded. *)
LEMMA RecallsType ==
  ASSUME Recalls
  PROVE  /\ replay.headers \in Seq(Follower) /\ replay.body \in Seq(Follower)
         /\ Part("blank") \in Seq(Follower) /\ Part("blank") \in Seq(AnyPiece)
         /\ TheBody \in Seq(Follower) /\ TheHead \in Seq(Follower)
         /\ replay.headers \in Seq(AnyPiece) /\ replay.body \in Seq(AnyPiece)
         /\ Part("status") \in Seq(AnyPiece)
<1>1. HeadPieces \subseteq Follower /\ BodyPieces \subseteq Follower /\ Follower \subseteq AnyPiece
  BY MaxResponsesAssumption DEF HeadPieces, HeardParts, BodyPieces, Follower, Piece, AnyPiece, Responses
<1>2. replay.headers \in Seq(Follower) /\ replay.body \in Seq(Follower)
  BY <1>1 DEF Recalls
<1>3. Part("blank") \in Seq(Follower) /\ Part("blank") \in Seq(AnyPiece) /\ Part("status") \in Seq(AnyPiece)
  BY DEF Part, Follower, AnyPiece, Parts
<1>4. TheBody \in Seq(Follower)
  BY <1>2, <1>3 DEF TheBody
<1>5. TheHead \in Seq(Follower)
  BY <1>2, <1>4 DEF TheHead
<1>6. replay.headers \in Seq(AnyPiece) /\ replay.body \in Seq(AnyPiece)
  BY <1>1, <1>2
<1> QED
  BY <1>2, <1>3, <1>4, <1>5, <1>6

(* A piece of the head more. *)
LEMMA HeadGoes ==
  ASSUME NEW own \in Seq(AnyPiece), Reads(own, {}).mode = "headers", NEW p \in AnyPiece,
         p.part \in {"header", "default", "length", "chunked"}
  PROVE  /\ Reads(own \o <<p>>, {}).mode = "headers"
         /\ p.part \in {"header", "default"} => Reads(own \o <<p>>, {}) = Reads(own, {})
<1>1. PICK c \in Clients : c = Reads(own, {}) /\ c.mode = "headers"
  BY ReadsType
<1>2. own \o <<p>> = Append(own, p)
  OBVIOUS
<1>3. Reads(own \o <<p>>, {}) = Receive(c, p, {})
  BY <1>1, <1>2, ReadsAppend
<1>4. CASE p.part \in {"header", "default"}
  <2>1. Receive(c, p, {}) = c
    BY <1>1, <1>4, ReceiveHeader
  <2> QED
    BY <1>1, <1>3, <2>1
<1>5. CASE p.part = "length"
  <2>1. c.mode = "headers" /\ p.part = "length"
    BY <1>1, <1>5
  <2>2. Receive(c, p, {}) = [c EXCEPT !.framing = "length", !.left = p.n]
    BY <2>1, ReceiveLength, ZenonT(30)
  <2>3. Receive(c, p, {}).mode = "headers"
    BY <1>1, <2>2 DEF Clients
  <2> QED
    BY <1>3, <1>5, <2>3
<1>6. CASE p.part = "chunked"
  <2>1. c.mode = "headers" /\ p.part = "chunked"
    BY <1>1, <1>6
  <2>2. Receive(c, p, {}) = [c EXCEPT !.framing = "chunked"]
    BY <2>1, ReceiveChunked
  <2>3. Receive(c, p, {}).mode = "headers"
    BY <1>1, <2>2 DEF Clients
  <2> QED
    BY <1>3, <1>6, <2>3
<1> QED
  BY <1>4, <1>5, <1>6

(* What says the same makes no difference. *)
LEMMA SameGoes ==
  ASSUME NEW own \in Seq(AnyPiece), NEW b \in Seq(AnyPiece), NEW y \in Seq(AnyPiece),
         Len(b) = Len(y), \A i \in 1..Len(b) : SaySame(b[i], y[i])
  PROVE  /\ Alike(Reads(own \o b, {}), Reads(own \o y, {}))
         /\ HeaderPieces(b) = HeaderPieces(y)
<1>1. Alike(Reads(own, {}), Reads(own, {}))
  BY DEF Alike
<1>2. Alike(Reads(own \o b, {}), Reads(own \o y, {}))
  BY <1>1, ReadsAlike
<1>3. HeaderPieces(b) = HeaderPieces(y)
  BY HeaderPiecesSame DEF SaySame
<1> QED
  BY <1>2, <1>3

(* What of a hit is sent, and what is still promised.                       *)
LEMMA PromiseMoves ==
  ASSUME CType, Current' = Current, Now' = Now, replay'.of = replay.of,
         NEW b \in Seq(Piece), wire' = wire \o b, \A i \in 1..Len(b) : b[i].who = Current,
         NEW y \in Seq(AnyPiece), NEW z \in Seq(Follower), NEW m \in Nat, NEW n \in Nat,
         Promise(m, y \o z), Alike(Reads(Own \o b, {}), Reads(Own \o y, {})),
         HeaderPieces(b) + n = HeaderPieces(y) + m
  PROVE  Whole(Own' \o z, n, replay'.of, Now')
<1>1. Own' = Own \o b
  BY OwnMore
<1>2. PICK own \in Seq(AnyPiece) : own = Own
  BY OwnType
<1>3. b \in Seq(AnyPiece)
  BY OwnType
<1>4. Whole(own \o (y \o z), m, replay.of, Now)
  BY <1>2 DEF Promise
<1>5. Alike(Reads(own \o b, {}), Reads(own \o y, {}))
  BY <1>2
<1>6. Whole((own \o b) \o z, n, replay.of, Now)
  BY <1>3, <1>4, <1>5, WholeSend
<1> QED
  BY <1>1, <1>2, <1>6

(* A call that sends one part. *)
LEMMA SaysOne ==
  ASSUME CType, Current \in Responses, NEW call, Call(call), NEW part \in Parts,
         Writes(call) = <<part>>
  PROVE  LET p == Says(part)
         IN  /\ p \in Piece /\ p \in AnyPiece /\ p.part = part /\ p.who = Current
             /\ <<p>> \in Seq(Piece) /\ <<p>> \in Seq(AnyPiece)
             /\ Len(<<p>>) = 1 /\ <<p>>[1] = p
             /\ wire' = wire \o <<p>> /\ \A i \in 1..Len(<<p>>) : <<p>>[i].who = Current
<1>1. bodySize \in Nat /\ wire \in Seq(Piece)
  BY DEF CType, PiecesInv
<1>2. PICK p \in Piece : p = Says(part) /\ p.part = part /\ p.who = Current
  <2>1. Says(part) \in Piece
    BY <1>1 DEF Says, Piece
  <2>2. Says(part).part = part /\ Says(part).who = Current
    BY DEF Says
  <2> QED
    BY <2>1, <2>2
<1>3. wire' = Append(wire, p)
  BY <1>1, <1>2, CallWrites
<1>4. p \in AnyPiece
  BY OwnType
<1>5. Append(wire, p) = wire \o <<p>>
  BY <1>1
<1>6. <<p>> \in Seq(Piece) /\ <<p>> \in Seq(AnyPiece) /\ Len(<<p>>) = 1 /\ <<p>>[1] = p
  BY <1>4
<1>7. \A i \in 1..Len(<<p>>) : <<p>>[i].who = Current
  BY <1>2, <1>6
<1> QED
  BY <1>2, <1>3, <1>4, <1>5, <1>6, <1>7
--------------------------------------------------------------------------------
(* While nothing is called a hit stays where it is.                         *)
LEMMA AnswerRests ==
  ASSUME CType, ShareInv, BelongInv, Asking, Answering, Rests
  PROVE  Answering'
<1>1. Own' = Own
  BY OwnRests DEF ShareInv
<1>2. /\ plan' = plan /\ state' = state /\ enqueued' = enqueued /\ chunked' = chunked
      /\ replay' = replay /\ Now' = Now
  BY DEF Rests, response, Now, Current
<1>3. TheBody' = TheBody /\ TheHead' = TheHead /\ Recalls' = Recalls
  BY <1>2 DEF TheBody, TheHead, Recalls, HeadPieces, BodyPieces, Piece
<1>4. \A m, rest : Promise(m, rest)' <=> Promise(m, rest)
  BY <1>1, <1>2 DEF Promise
<1>5. HitLine => HitLine'
  BY <1>1, <1>2, <1>3, <1>4 DEF HitLine, Idle, Promise
<1>6. InHead => InHead'
  BY <1>1, <1>2 DEF InHead
<1>7. HitHeaders => HitHeaders'
  BY <1>1, <1>2, <1>3, <1>6 DEF HitHeaders, Promise
<1>8. HitBlank => HitBlank'
  BY <1>1, <1>2, <1>3, <1>6 DEF HitBlank, Promise
<1>9. (HitBody => HitBody') /\ (HitEnds => HitEnds') /\ (HitDone => HitDone')
  BY <1>1, <1>2 DEF HitBody, HitEnds, HitDone, Idle, Promise
<1> QED
  BY <1>2, <1>3, <1>5, <1>7, <1>8, <1>9 DEF Answering

--------------------------------------------------------------------------------
(* The status line of a hit is sent, and its enqueued headers are next.     *)
LEMMA LineAnswers ==
  ASSUME CType, Asking, Current \in Responses, Answering, HitLine, Status, replay' = replay
  PROVE  Answering'
<1>1. /\ state = "line" /\ Own = <<>> /\ HitPlan(Tail(plan), 0, Len(replay.headers))
      /\ Promise(enqueued, Part("status") \o TheHead)
      /\ plan # <<>> /\ Recalls /\ ~chunked
  BY DEF HitLine, Answering, Idle
<1>2. /\ Call("status") /\ state' = "headers" /\ chunked' = chunked
      /\ plan' = [i \in 1..enqueued |-> "header"] \o Tail(plan) /\ Writes("status") = <<"status">>
      /\ routes' = routes
  BY DEF Status, Call, Writes
<1>3. Current' = Current /\ Now' = Now
  BY <1>2 DEF Current, Now
<1>4. PICK p \in Piece : /\ p = Says("status") /\ p \in AnyPiece /\ p.part = "status" /\ p.who = Current
                         /\ <<p>> \in Seq(Piece) /\ <<p>> \in Seq(AnyPiece)
                         /\ Len(<<p>>) = 1 /\ <<p>>[1] = p
                         /\ wire' = wire \o <<p>> /\ \A i \in 1..Len(<<p>>) : <<p>>[i].who = Current
  <2>1. "status" \in Parts
    BY DEF Parts
  <2> QED
    BY <1>2, <2>1, SaysOne, ZenonT(30)
<1>5. PICK own \in Seq(AnyPiece) : own = <<>>
  <2>1. <<>> \in Seq(AnyPiece)
    OBVIOUS
  <2> QED
    BY <2>1
<1>6. PICK q \in AnyPiece : q = [who |-> 1, part |-> "status", n |-> 0]
  <2>1. [who |-> 1, part |-> "status", n |-> 0] \in AnyPiece
    BY DEF AnyPiece, Parts
  <2> QED
    BY <2>1
<1>7. \A x \in AnyPiece : x.part = "status" /\ x.who > 0 => Reads(<<x>>, {}) = Started(x.who)
  <2> SUFFICES ASSUME NEW x \in AnyPiece, x.part = "status" /\ x.who > 0
               PROVE  Reads(<<x>>, {}) = Started(x.who)
    OBVIOUS
  <2>1. <<x>> = Append(own, x)
    BY <1>5
  <2>2. Reads(own, {}) = Fresh
    BY <1>5, ReadsEmpty
  <2>3. Reads(<<x>>, {}) = Receive(Fresh, x, {})
    BY <2>1, <2>2, ReadsAppend
  <2>4. Fresh.mode = "status" /\ Fresh.who = 0
    BY DEF Fresh
  <2> QED
    BY <2>3, <2>4, ReceiveStatus
<1>8. Reads(<<p>>, {}) = Started(Current) /\ Reads(<<q>>, {}) = Started(1)
  BY <1>4, <1>6, <1>7, MaxResponsesAssumption DEF Responses
<1>9. Alike(Started(Current), Started(1))
  BY DEF Started, Fresh, Alike
<1>10. Part("status") = <<q>> /\ <<q>> \in Seq(AnyPiece)
  BY <1>6 DEF Part
<1>11. Alike(Reads(Own \o <<p>>, {}), Reads(Own \o Part("status"), {}))
  <2>1. <<>> \o <<p>> = <<p>> /\ <<>> \o <<q>> = <<q>>
    BY <1>4, <1>10
  <2> QED
    BY <1>1, <1>8, <1>9, <1>10, <2>1
<1>12. HeaderPieces(<<p>>) = 0 /\ HeaderPieces(Part("status")) = 0
  <2>1. \A i \in 1..Len(<<p>>) : <<p>>[i].part # "header"
    BY <1>4
  <2>2. \A i \in 1..Len(Part("status")) : Part("status")[i].part # "header"
    BY DEF Part
  <2> QED
    BY <2>1, <2>2, HeaderPiecesNone
<1>13. PICK m \in Nat : m = enqueued
  BY DEF CType, PiecesInv
<1>14. PICK z \in Seq(Follower) : z = TheHead
  BY <1>1, RecallsType
<1>15. Promise(m, <<q>> \o z)
  BY <1>1, <1>10, <1>13, <1>14
<1>16. Whole(Own' \o z, m, replay'.of, Now')
  BY <1>2, <1>3, <1>4, <1>10, <1>11, <1>12, <1>15, PromiseMoves
<1>17. TheHead' = z /\ Recalls' /\ ~chunked'
  BY <1>1, <1>2, <1>14 DEF TheHead, TheBody, Recalls, HeadPieces, BodyPieces, Piece
<1>18. HitPlan(plan', m, Len(replay'.headers))
  <2>1. plan \in Seq(AllCalls)
    BY DEF CType, ReplayInv, Replays
  <2>2. Tail(plan) \in Seq(AllCalls)
    BY <1>1, <2>1
  <2>3. PICK h \in Seq(HeadPieces) : h = replay.headers
    BY <1>1 DEF Recalls
  <2>4. Len(h) \in Nat
    OBVIOUS
  <2> QED
    BY <1>1, <1>2, <1>13, <2>2, <2>3, <2>4, HitPlanPut
<1>19. InHead'
  <2>1. Own' = Own \o <<p>>
    BY <1>3, <1>4, OwnMore
  <2>2. Own' = <<p>>
    BY <1>1, <1>4, <2>1
  <2> QED
    BY <1>2, <1>8, <2>2, StartedIs DEF InHead
<1>20. HitHeaders'
  BY <1>13, <1>16, <1>17, <1>18, <1>19 DEF HitHeaders, Promise
<1> QED
  BY <1>17, <1>20 DEF Answering

(* A piece of the head is sent, for a header of more or one that is         *)
(* recorded, or for the default headers.                                    *)
LEMMA HeadMoves ==
  ASSUME CType, Asking, Current' = Current, Now' = Now, replay'.of = replay.of, InHead,
         state' = state, NEW p \in Piece, wire' = wire \o <<p>>, p.who = Current,
         p.part \in {"header", "default", "length", "chunked"},
         NEW y \in Seq(AnyPiece), NEW z \in Seq(Follower), NEW m \in Nat, NEW n \in Nat,
         Promise(m, y \o z),
         \/ /\ y = <<>> /\ p.part \in {"header", "default"}
            /\ m = IF p.part = "header" THEN n + 1 ELSE n
         \/ \E q \in AnyPiece : y = <<q>> /\ SaySame(p, q) /\ n = m
  PROVE  InHead' /\ Whole(Own' \o z, n, replay'.of, Now')
<1>1. PICK own \in Seq(AnyPiece) : own = Own
  BY OwnType
<1>2. p \in AnyPiece /\ <<p>> \in Seq(Piece) /\ <<p>> \in Seq(AnyPiece) /\ Len(<<p>>) = 1 /\ <<p>>[1] = p
  BY OwnType
<1>3. \A i \in 1..Len(<<p>>) : <<p>>[i].who = Current
  BY <1>2
<1>4. Reads(own, {}).mode = "headers" /\ state = "headers"
  BY <1>1 DEF InHead
<1>5. /\ Reads(own \o <<p>>, {}).mode = "headers"
      /\ p.part \in {"header", "default"} => Reads(own \o <<p>>, {}) = Reads(own, {})
  BY <1>2, <1>4, HeadGoes
<1>6. Own' = own \o <<p>>
  BY <1>1, <1>2, <1>3, OwnMore
<1>7. InHead'
  BY <1>4, <1>5, <1>6 DEF InHead
<1>8. Alike(Reads(own \o <<p>>, {}), Reads(own \o y, {})) /\ HeaderPieces(<<p>>) + n = HeaderPieces(y) + m
  <2>1. CASE /\ y = <<>> /\ p.part \in {"header", "default"}
             /\ m = IF p.part = "header" THEN n + 1 ELSE n
    <3>1. own \o y = own
      BY <2>1
    <3>2. Alike(Reads(own \o <<p>>, {}), Reads(own \o y, {}))
      BY <1>5, <2>1, <3>1 DEF Alike
    <3>3. HeaderPieces(y) = 0
      <4>1. \A i \in 1..Len(y) : y[i].part # "header"
        BY <2>1
      <4> QED
        BY <4>1, HeaderPiecesNone
    <3>4. CASE p.part = "header"
      <4>1. HeaderPieces(<<p>>) = 1
        BY <3>4, HeaderPiecesOne
      <4> QED
        BY <2>1, <3>2, <3>3, <3>4, <4>1
    <3>5. CASE p.part # "header"
      <4>1. HeaderPieces(<<p>>) = 0
        <5>1. \A i \in 1..Len(<<p>>) : <<p>>[i].part # "header"
          BY <1>2, <3>5
        <5> QED
          BY <5>1, HeaderPiecesNone
      <4> QED
        BY <2>1, <3>2, <3>3, <3>5, <4>1
    <3> QED
      BY <3>4, <3>5
  <2>2. ASSUME NEW q \in AnyPiece, y = <<q>>, SaySame(p, q), n = m
        PROVE  Alike(Reads(own \o <<p>>, {}), Reads(own \o y, {})) /\ HeaderPieces(<<p>>) + n = HeaderPieces(y) + m
    <3>1. Len(y) = 1 /\ y[1] = q
      BY <2>2
    <3>2. Len(<<p>>) = Len(y) /\ \A i \in 1..Len(<<p>>) : SaySame(<<p>>[i], y[i])
      BY <1>2, <2>2, <3>1
    <3> QED
      BY <1>2, <2>2, <3>2, SameGoes
  <2> QED
    BY <2>1, <2>2
<1>9. Alike(Reads(Own \o <<p>>, {}), Reads(Own \o y, {}))
  BY <1>1, <1>8
<1>10. Whole(Own' \o z, n, replay'.of, Now')
  BY <1>2, <1>3, <1>8, <1>9, PromiseMoves
<1> QED
  BY <1>7, <1>10

(* The headers of a hit, one after the other: those that were enqueued,     *)
(* those that were recorded, and the default headers.                       *)
LEMMA HeadersAnswer ==
  ASSUME KeysOwn, CType, Asking, Current \in Responses, Answering, HitHeaders,
         Current' = Current, Now' = Now,
         \/ ~Idle /\ Head(plan) = "header" /\ Header /\ Call("header") /\ replay' = replay
         \/ ~Idle /\ Head(plan) = "defaults" /\ Header /\ Call("defaults") /\ replay' = replay
         \/ ReplayHeader
  PROVE  Answering'
<1>1. /\ InHead /\ state = "headers" /\ Recalls /\ ~chunked /\ plan \in Seq(AllCalls)
  BY DEF HitHeaders, InHead, Answering, CType, ReplayInv, Replays
<1>2. PICK m \in Nat : HitPlan(plan, m, Len(replay.headers)) /\ Promise(m, TheHead)
  BY DEF HitHeaders
<1>3. PICK h \in Seq(HeadPieces) : h = replay.headers
  BY <1>1 DEF Recalls
<1>4. PICK n \in Nat : n = Len(h)
  OBVIOUS
<1>5. /\ plan # <<>> /\ HitPlan(plan, m, n)
      /\ m > 0 => Head(plan) = "header" /\ HitPlan(Tail(plan), m - 1, n)
      /\ m = 0 /\ n > 0 => Head(plan) = "replay" /\ HitPlan(Tail(plan), 0, n - 1)
      /\ m = 0 /\ n = 0 => Head(plan) = "defaults" /\ HitAt(Tail(plan), 2)
  BY <1>1, <1>2, <1>3, <1>4, HitPlanHead
<1>6. PICK y \in Seq(AnyPiece) : y = <<>>
  <2>1. <<>> \in Seq(AnyPiece)
    OBVIOUS
  <2> QED
    BY <2>1
<1>7. CASE Header /\ Call("header") /\ replay' = replay /\ Head(plan) = "header"
  <2>1. m > 0 /\ m - 1 \in Nat /\ HitPlan(Tail(plan), m - 1, n)
    <3>1. m > 0
      BY <1>4, <1>5, <1>7
    <3> QED
      BY <1>5, <3>1
  <2>2. PICK z \in Seq(Follower) : z = TheHead
    BY <1>1, RecallsType
  <2>3. Writes("header") = <<"header">>
    BY <1>1 DEF Writes
  <2>4. "header" \in Parts
    BY DEF Parts
  <2>5. PICK p \in Piece : p.part = "header" /\ p.who = Current /\ wire' = wire \o <<p>>
    BY <1>7, <2>3, <2>4, SaysOne, ZenonT(30)
  <2>6. state' = state /\ plan' = Tail(plan) /\ chunked' = chunked
    BY <1>7 DEF Header, Returns
  <2>7. Promise(m, y \o z)
    <3>1. y \o z = z
      BY <1>6
    <3> QED
      BY <1>2, <2>2, <3>1
  <2>8. PICK k \in Nat : k = m - 1 /\ m = k + 1
    BY <2>1
  <2>9. InHead' /\ Whole(Own' \o z, k, replay'.of, Now')
    BY <1>1, <1>6, <1>7, <2>5, <2>6, <2>7, <2>8, HeadMoves
  <2>10. TheHead' = z /\ Recalls' /\ ~chunked'
    BY <1>1, <1>7, <2>2, <2>6 DEF TheHead, TheBody, Recalls, HeadPieces, BodyPieces, Piece
  <2>11. HitPlan(plan', k, Len(replay'.headers))
    BY <1>3, <1>4, <1>7, <2>1, <2>6, <2>8
  <2>12. HitHeaders'
    BY <2>9, <2>10, <2>11 DEF HitHeaders, Promise
  <2> QED
    BY <2>10, <2>12 DEF Answering
<1>8. CASE ReplayHeader
  <2>1. /\ Head(plan) = "replay" /\ plan' = Tail(plan) /\ state' = state /\ chunked' = chunked
        /\ wire' = Append(wire, [Head(h) EXCEPT !.who = Current])
        /\ replay' = [replay EXCEPT !.headers = Tail(h)]
    BY <1>3, <1>8 DEF ReplayHeader, Replaying, Returns, response
  <2>2. m = 0 /\ n > 0 /\ n - 1 \in Nat /\ HitPlan(Tail(plan), 0, n - 1)
    <3>1. m = 0 /\ n > 0
      BY <1>5, <2>1
    <3> QED
      BY <1>5, <3>1
  <2>3. h # <<>> /\ Head(h) \in HeadPieces /\ Tail(h) \in Seq(HeadPieces) /\ Len(Tail(h)) = n - 1
    BY <1>4, <2>2
  <2>4. PICK q \in HeadPieces : q = Head(h)
    BY <2>3
  <2>5. PICK p \in Piece : p = [q EXCEPT !.who = Current] /\ p.who = Current
                           /\ p.part = q.part /\ p.n = q.n
    <3>1. q \in Piece
      BY DEF HeadPieces
    <3>2. [q EXCEPT !.who = Current] \in Piece /\ [q EXCEPT !.who = Current].who = Current
          /\ [q EXCEPT !.who = Current].part = q.part /\ [q EXCEPT !.who = Current].n = q.n
      BY <3>1 DEF Piece
    <3> QED
      BY <3>2
  <2>6. q \in AnyPiece /\ q.part \in {"header", "length", "chunked"} /\ SaySame(p, q)
    <3>1. q \in Piece /\ q.part \in {"header", "length", "chunked"}
      BY DEF HeadPieces, HeardParts
    <3>2. q \in AnyPiece
      BY <3>1, OwnType
    <3>3. SaySame(p, q)
      BY <2>5, <3>1 DEF SaySame
    <3> QED
      BY <3>1, <3>2, <3>3
  <2>7. wire' = wire \o <<p>>
    <3>1. wire \in Seq(Piece)
      BY OwnType
    <3>2. Append(wire, p) = wire \o <<p>>
      BY <3>1
    <3> QED
      BY <2>1, <2>4, <2>5, <3>2
  <2>8. PICK t \in Seq(HeadPieces) : t = Tail(h)
    BY <2>3
  <2>9. replay'.of = replay.of /\ replay'.headers = t /\ replay'.body = replay.body
    <3>1. replay' = [replay EXCEPT !.headers = t]
      BY <2>1, <2>8
    <3>2. replay'.of = replay.of /\ replay'.body = replay.body
      BY <3>1
    <3>3. "headers" \in DOMAIN replay
      BY DEF KeysOwn
    <3> QED
      BY <3>1, <3>2, <3>3
  <2>10. Recalls'
    BY <1>1, <2>8, <2>9 DEF Recalls, HeadPieces, BodyPieces, Piece
  <2>11. PICK x \in Seq(Follower) : x = TheBody
    BY <1>1, RecallsType
  <2>12. PICK z \in Seq(Follower) : z = t \o x
    <3>1. HeadPieces \subseteq Follower
      BY MaxResponsesAssumption DEF HeadPieces, HeardParts, Follower, Piece, AnyPiece, Responses
    <3>2. t \in Seq(Follower)
      BY <3>1
    <3>3. t \o x \in Seq(Follower)
      BY <3>2
    <3> QED
      BY <3>3
  <2>13. TheHead = <<q>> \o z
    <3>1. h = <<q>> \o t
      BY <2>3, <2>4, <2>8
    <3>2. PICK a \in Seq(AnyPiece), b \in Seq(AnyPiece), c \in Seq(AnyPiece) : a = <<q>> /\ b = t /\ c = x
      <4>1. HeadPieces \subseteq AnyPiece /\ Follower \subseteq AnyPiece
        BY OwnType DEF HeadPieces, Follower
      <4>2. <<q>> \in Seq(AnyPiece) /\ t \in Seq(AnyPiece) /\ x \in Seq(AnyPiece)
        BY <2>6, <4>1
      <4> QED
        BY <4>2
    <3>3. a \o (b \o c) = (a \o b) \o c
      BY SMTT(40)
    <3> QED
      BY <1>3, <2>11, <2>12, <3>1, <3>2, <3>3 DEF TheHead
  <2>14. PICK s \in Seq(AnyPiece) : s = <<q>>
    <3>1. <<q>> \in Seq(AnyPiece)
      BY <2>6
    <3> QED
      BY <3>1
  <2>15. Promise(m, s \o z)
    BY <1>2, <2>13, <2>14
  <2>16. InHead' /\ Whole(Own' \o z, m, replay'.of, Now')
    BY <1>1, <2>1, <2>5, <2>6, <2>7, <2>9, <2>14, <2>15, HeadMoves
  <2>17. TheHead' = z
    BY <2>9, <2>11, <2>12 DEF TheHead, TheBody
  <2>18. HitPlan(plan', m, Len(replay'.headers))
    BY <2>1, <2>2, <2>3, <2>8, <2>9
  <2>19. HitHeaders'
    BY <2>16, <2>17, <2>18 DEF HitHeaders, Promise
  <2>20. ~chunked'
    BY <1>1, <2>1
  <2> QED
    BY <2>10, <2>19, <2>20 DEF Answering
<1>9. CASE Header /\ Call("defaults") /\ replay' = replay /\ Head(plan) = "defaults"
  <2>1. m = 0 /\ n = 0 /\ HitAt(Tail(plan), 2)
    <3>1. m = 0 /\ n = 0
      BY <1>5, <1>9
    <3> QED
      BY <1>5, <3>1
  <2>2. PICK z \in Seq(Follower) : z = TheBody
    BY <1>1, RecallsType
  <2>3. Writes("defaults") = <<"default">>
    BY <1>1 DEF Writes
  <2>4. "default" \in Parts
    BY DEF Parts
  <2>5. PICK p \in Piece : p.part = "default" /\ p.who = Current /\ wire' = wire \o <<p>>
    BY <1>9, <2>3, <2>4, SaysOne, ZenonT(30)
  <2>6. state' = state /\ plan' = Tail(plan) /\ chunked' = chunked
    BY <1>9 DEF Header, Returns
  <2>7. Promise(m, y \o z)
    <3>1. h = <<>>
      <4>1. Len(h) = 0
        BY <1>4, <2>1
      <4> QED
        BY <4>1
    <3>2. TheHead = y \o z
      BY <1>3, <1>6, <2>2, <3>1 DEF TheHead
    <3> QED
      BY <1>2, <3>2
  <2>8. InHead' /\ Whole(Own' \o z, m, replay'.of, Now')
    BY <1>1, <1>6, <1>9, <2>5, <2>6, <2>7, HeadMoves
  <2>9. TheBody' = z /\ Recalls' /\ ~chunked'
    BY <1>1, <1>9, <2>2, <2>6 DEF TheBody, Recalls, HeadPieces, BodyPieces, Piece
  <2>10. HitBlank'
    BY <2>1, <2>6, <2>8, <2>9 DEF HitBlank, Promise
  <2> QED
    BY <2>9, <2>10 DEF Answering
<1> QED
  BY <1>7, <1>8, <1>9

(* The blank line ends them. *)
LEMMA BlankAnswers ==
  ASSUME CType, Asking, Current \in Responses, Answering, HitBlank, EndHeaders, replay' = replay,
         Current' = Current, Now' = Now
  PROVE  Answering'
<1>1. /\ InHead /\ HitAt(plan, 2) /\ Promise(0, TheBody) /\ Recalls /\ ~chunked
      /\ plan \in Seq(AllCalls)
  BY DEF HitBlank, Answering, CType, ReplayInv, Replays
<1>2. /\ Call("endHeaders") /\ state' = "body" /\ chunked' = chunked /\ plan' = Tail(plan)
      /\ Writes("endHeaders") = <<"blank">>
  BY DEF EndHeaders, Returns, Writes
<1>3. HitAt(plan', 3)
  BY <1>1, <1>2, HitAtHead
<1>4. PICK p \in Piece : /\ p \in AnyPiece /\ p.part = "blank" /\ p.who = Current
                         /\ <<p>> \in Seq(Piece) /\ <<p>> \in Seq(AnyPiece)
                         /\ Len(<<p>>) = 1 /\ <<p>>[1] = p
                         /\ wire' = wire \o <<p>> /\ \A i \in 1..Len(<<p>>) : <<p>>[i].who = Current
  <2>1. "blank" \in Parts
    BY DEF Parts
  <2> QED
    BY <1>2, <2>1, SaysOne, ZenonT(30)
<1>5. PICK y \in Seq(AnyPiece) : y = Part("blank") /\ Len(y) = 1 /\ y[1].part = "blank"
  <2>1. Part("blank") \in Seq(AnyPiece)
    BY <1>1, RecallsType
  <2>2. Len(Part("blank")) = 1 /\ Part("blank")[1].part = "blank"
    BY DEF Part
  <2> QED
    BY <2>1, <2>2
<1>6. PICK z \in Seq(Follower) : z = replay.body
  BY <1>1, RecallsType
<1>7. PICK own \in Seq(AnyPiece) : own = Own
  BY OwnType
<1>8. /\ Alike(Reads(own \o <<p>>, {}), Reads(own \o y, {}))
      /\ HeaderPieces(<<p>>) = HeaderPieces(y)
  <2>1. Len(<<p>>) = Len(y) /\ \A i \in 1..Len(<<p>>) : SaySame(<<p>>[i], y[i])
    BY <1>4, <1>5 DEF SaySame
  <2> QED
    BY <1>4, <2>1, SameGoes
<1>9. Whole(Own' \o z, 0, replay'.of, Now')
  <2>1. Promise(0, y \o z)
    BY <1>1, <1>5, <1>6 DEF TheBody
  <2>2. replay'.of = replay.of /\ 0 \in Nat
    OBVIOUS
  <2> QED
    BY <1>4, <1>7, <1>8, <2>1, <2>2, PromiseMoves
<1>10. HitBody'
  BY <1>2, <1>3, <1>6, <1>9 DEF HitBody, Promise
<1>11. Recalls' /\ ~chunked'
  BY <1>1, <1>2 DEF Recalls, HeadPieces, BodyPieces, Piece
<1> QED
  BY <1>10, <1>11 DEF Answering

(* The recorded body is written at once. *)
LEMMA BodyAnswers ==
  ASSUME KeysOwn, CType, Asking, Current \in Responses, Answering, HitBody, WriteBodyImmediate,
         Current' = Current, Now' = Now
  PROVE  Answering'
<1>1. /\ state = "body" /\ HitAt(plan, 3) /\ Promise(0, replay.body) /\ Recalls /\ ~chunked
      /\ plan \in Seq(AllCalls)
  BY DEF HitBody, Answering, CType, ReplayInv, Replays
<1>2. PICK h \in Seq(BodyPieces) : h = replay.body
  BY <1>1 DEF Recalls
<1>3. /\ plan' = Tail(plan) /\ state' = state /\ chunked' = chunked
      /\ wire' = wire \o [i \in DOMAIN h |-> [h[i] EXCEPT !.who = Current]]
      /\ replay' = [replay EXCEPT !.body = <<>>]
  BY <1>2 DEF WriteBodyImmediate, Replaying, Returns, response, Asking
<1>4. HitAt(plan', 4)
  BY <1>1, <1>3, HitAtHead
<1>5. ASSUME NEW i \in 1..Len(h)
      PROVE  LET q == [h[i] EXCEPT !.who = Current]
             IN  q \in Piece /\ q.who = Current /\ SaySame(q, h[i])
  <2>1. PICK g \in Piece : g = h[i] /\ g.part \in {"data", "chunk", "last"}
    <3>1. h[i] \in BodyPieces
      OBVIOUS
    <3> QED
      BY <3>1 DEF BodyPieces
  <2>2. /\ [g EXCEPT !.who = Current] \in Piece /\ [g EXCEPT !.who = Current].who = Current
        /\ [g EXCEPT !.who = Current].part = g.part /\ [g EXCEPT !.who = Current].n = g.n
    BY DEF Piece
  <2> QED
    BY <2>1, <2>2 DEF SaySame
<1>6. PICK n \in Nat : n = Len(h) /\ DOMAIN h = 1..n
  OBVIOUS
<1>7. PICK b \in Seq(Piece) : b = [i \in 1..n |-> [h[i] EXCEPT !.who = Current]] /\ Len(b) = n
  <2>1. \A i \in 1..n : [h[i] EXCEPT !.who = Current] \in Piece
    BY <1>5, <1>6
  <2>2. [i \in 1..n |-> [h[i] EXCEPT !.who = Current]] \in Seq(Piece)
    BY <2>1
  <2>3. Len([i \in 1..n |-> [h[i] EXCEPT !.who = Current]]) = n
    OBVIOUS
  <2> QED
    BY <2>2, <2>3
<1>8. /\ wire' = wire \o b
      /\ \A i \in 1..Len(b) : b[i].who = Current /\ SaySame(b[i], h[i])
  <2>1. wire' = wire \o b
    BY <1>3, <1>6, <1>7
  <2>2. \A i \in 1..n : b[i] = [h[i] EXCEPT !.who = Current]
    BY <1>7
  <2> QED
    BY <1>5, <1>6, <1>7, <2>1, <2>2
<1>9. PICK own \in Seq(AnyPiece) : own = Own
  BY OwnType
<1>10. b \in Seq(AnyPiece) /\ h \in Seq(AnyPiece)
  BY <1>1, <1>2, OwnType, RecallsType
<1>11. /\ Alike(Reads(own \o b, {}), Reads(own \o h, {}))
       /\ HeaderPieces(b) = HeaderPieces(h)
  BY <1>6, <1>7, <1>8, <1>10, SameGoes
<1>12. PICK z \in Seq(Follower) : z = <<>>
  <2>1. <<>> \in Seq(Follower)
    OBVIOUS
  <2> QED
    BY <2>1
<1>13. replay'.of = replay.of /\ replay'.headers = replay.headers /\ replay'.body = <<>>
  <2>1. "body" \in DOMAIN replay
    BY DEF KeysOwn
  <2> QED
    BY <1>3, <2>1
<1>14. Whole(Own' \o z, 0, replay'.of, Now')
  <2>1. h \o z = h
    BY <1>10, <1>12
  <2>2. Promise(0, h \o z) /\ 0 \in Nat
    BY <1>1, <1>2, <2>1
  <2> QED
    BY <1>8, <1>9, <1>10, <1>11, <1>13, <2>2, PromiseMoves
<1>15. HitEnds'
  BY <1>1, <1>3, <1>4, <1>12, <1>14 DEF HitEnds, Promise
<1>16. Recalls' /\ ~chunked'
  <2>1. <<>> \in Seq(BodyPieces)
    OBVIOUS
  <2> QED
    BY <1>1, <1>3, <1>13, <2>1 DEF Recalls, HeadPieces, BodyPieces, Piece
<1> QED
  BY <1>15, <1>16 DEF Answering

(* And the response ends. *)
LEMMA EndAnswers ==
  ASSUME CType, Asking, Current \in Responses, Answering, HitEnds, EndBody, replay' = replay,
         Current' = Current, Now' = Now
  PROVE  Answering'
<1>1. /\ state = "body" /\ HitAt(plan, 4) /\ Promise(0, <<>>) /\ Recalls /\ ~chunked
      /\ plan \in Seq(AllCalls)
  BY DEF HitEnds, Answering, CType, ReplayInv, Replays
<1>2. /\ Call("endBody") /\ state' = "finished" /\ chunked' = chunked /\ plan' = Tail(plan)
      /\ routes' = routes /\ Writes("endBody") = <<>>
  BY DEF EndBody, Call, Returns, Writes
<1>3. plan' = <<>>
  <2>1. plan # <<>> /\ HitAt(Tail(plan), 5)
    BY <1>1, HitAtHead
  <2>2. Tail(plan) \in Seq(AllCalls)
    BY <1>1, <2>1
  <2>3. Len(Tail(plan)) = 0
    BY <2>1 DEF HitAt
  <2> QED
    BY <1>2, <2>2, <2>3
<1>4. Own' = Own
  <2>1. wire \in Seq(Piece)
    BY OwnType
  <2>2. wire' = wire
    BY <1>2, <2>1, CallWrites
  <2> QED
    BY <1>2, <2>2, OwnSame
<1>5. HitDone'
  BY <1>1, <1>2, <1>3, <1>4 DEF HitDone, Promise, Idle
<1>6. Recalls' /\ ~chunked'
  BY <1>1, <1>2 DEF Recalls, HeadPieces, BodyPieces, Piece
<1> QED
  BY <1>5, <1>6 DEF Answering

(* So a hit goes on, and does nothing else.                                 *)
LEMMA AnswerStep ==
  ASSUME KeysOwn, CType, ShareInv, BelongInv, Asking', Answering, [CacheNext]_allVars, ~Begin
  PROVE  Answering'
<1>1. /\ Asking /\ Open' /\ ~raw' /\ Current' = Current /\ Now' = Now /\ Current \in Responses
  BY AskedBefore DEF Asking
<1>2. plan \in Seq(AllCalls)
  BY DEF CType, ReplayInv, Replays
<1>3. CASE Rests
  BY <1>1, <1>3, AnswerRests
<1>4. CASE HitLine
  <2>1. ~Idle /\ Head(plan) = "status" /\ state = "line"
    BY <1>4 DEF HitLine
  <2>2. ~ReplayHeader /\ ~WriteBodyImmediate
    BY <2>1 DEF ReplayHeader, WriteBodyImmediate, Replaying
  <2>3. Rests \/ (Status /\ replay' = replay)
    BY <1>1, <2>1, <2>2, StepOf DEF ToldApart
  <2> QED
    BY <1>1, <1>3, <1>4, <2>3, LineAnswers
<1>5. CASE HitHeaders
  <2>1. PICK m \in Nat : HitPlan(plan, m, Len(replay.headers))
    BY <1>5 DEF HitHeaders
  <2>2. PICK h \in Seq(HeadPieces) : h = replay.headers
    BY DEF Answering, Recalls
  <2>3. PICK n \in Nat : n = Len(h)
    OBVIOUS
  <2>4. ~Idle /\ Head(plan) \in {"header", "replay", "defaults"}
    <3>1. m > 0 \/ (m = 0 /\ n > 0) \/ (m = 0 /\ n = 0)
      OBVIOUS
    <3> QED
      BY <1>2, <2>1, <2>2, <2>3, <3>1, HitPlanHead DEF Idle
  <2>5. ~WriteBodyImmediate
    BY <2>4 DEF WriteBodyImmediate, Replaying
  <2>6. \/ Rests
        \/ ~Idle /\ Head(plan) = "header" /\ Header /\ Call("header") /\ replay' = replay
        \/ ~Idle /\ Head(plan) = "defaults" /\ Header /\ Call("defaults") /\ replay' = replay
        \/ ReplayHeader
    BY <1>1, <2>4, <2>5, StepOf DEF ToldApart
  <2> QED
    BY <1>1, <1>3, <1>5, <2>6, HeadersAnswer
<1>6. CASE HitBlank
  <2>1. ~Idle /\ Head(plan) = "endHeaders"
    BY <1>2, <1>6, HitAtHead DEF HitBlank, HitEnd, Idle
  <2>2. ~ReplayHeader /\ ~WriteBodyImmediate
    BY <2>1 DEF ReplayHeader, WriteBodyImmediate, Replaying
  <2>3. Rests \/ (EndHeaders /\ replay' = replay)
    BY <1>1, <2>1, <2>2, StepOf DEF ToldApart
  <2> QED
    BY <1>1, <1>3, <1>6, <2>3, BlankAnswers
<1>7. CASE HitBody
  <2>1. ~Idle /\ Head(plan) = "immediate"
    BY <1>2, <1>7, HitAtHead DEF HitBody, HitEnd, Idle
  <2>2. ~ReplayHeader
    BY <2>1 DEF ReplayHeader, Replaying
  <2>3. Rests \/ WriteBodyImmediate
    BY <1>1, <2>1, <2>2, StepOf DEF ToldApart
  <2> QED
    BY <1>1, <1>3, <1>7, <2>3, BodyAnswers
<1>8. CASE HitEnds
  <2>1. ~Idle /\ Head(plan) = "endBody"
    BY <1>2, <1>8, HitAtHead DEF HitEnds, HitEnd, Idle
  <2>2. ~ReplayHeader /\ ~WriteBodyImmediate
    BY <2>1 DEF ReplayHeader, WriteBodyImmediate, Replaying
  <2>3. Rests \/ (EndBody /\ replay' = replay)
    BY <1>1, <2>1, <2>2, StepOf DEF ToldApart
  <2> QED
    BY <1>1, <1>3, <1>8, <2>3, EndAnswers
<1>9. CASE HitDone
  <2>1. Idle
    BY <1>9 DEF HitDone
  <2>2. ~ReplayHeader /\ ~WriteBodyImmediate
    BY <2>1 DEF ReplayHeader, WriteBodyImmediate, Replaying
  <2>3. Rests
    BY <1>1, <2>1, <2>2, StepOf
  <2> QED
    BY <1>3, <2>3
<1> QED
  BY <1>4, <1>5, <1>6, <1>7, <1>8, <1>9 DEF Answering

--------------------------------------------------------------------------------
(* A hit is found, and what is recorded of it is whole: either the status   *)
(* line was sent already, and the hit fails, or nothing was sent.           *)
LEMMA HitAnswers ==
  ASSUME KeysOwn, CType, PutsInv, PartsCached, Asking, Seeking, Hit, Current \in Responses
  PROVE  Seeking' \/ Answering'
<1>1. /\ ~Idle /\ Head(plan) = "raw" /\ state \in {"line", "headers"}
      /\ Key(Current) \in DOMAIN cache
      /\ UNCHANGED <<routes, state, chunked, enqueued, wire>>
  BY DEF Hit, UseCache, Allowed, response
<1>2. PICK e : e = cache[Key(Current)]
  OBVIOUS
<1>3. PICK h \in Seq(HeadPieces), b \in Seq(BodyPieces) : h = e.headers /\ b = e.body
  BY <1>1, <1>2 DEF PartsCached
<1>4. PICK n \in Nat : n = Len(h) /\ DOMAIN h = 1..n
  OBVIOUS
<1>5. /\ plan' = <<"status">> \o [i \in 1..n |-> "replay"] \o HitEnd
      /\ replay' = [of |-> e.route, headers |-> h, body |-> b]
  <2>1. plan' = <<"status">> \o [i \in DOMAIN e.headers |-> "replay"]
                  \o <<"defaults", "endHeaders", "immediate", "endBody">>
    BY <1>2 DEF Hit
  <2>2. replay' = [of |-> e.route, headers |-> e.headers, body |-> e.body]
    BY <1>2 DEF Hit
  <2> QED
    BY <1>3, <1>4, <2>1, <2>2 DEF HitEnd
<1>6. plan' \in Seq(AllCalls) /\ plan' # <<>> /\ Head(plan') = "status" /\ HitPlan(Tail(plan'), 0, n)
  BY <1>5, HitPlanned
<1>7. CASE state = "headers"
  <2>1. ~Idle' /\ state' # "line" /\ Head(plan)' = "status"
    BY <1>1, <1>6, <1>7 DEF Idle
  <2>2. Doomed'
    BY <2>1 DEF Doomed
  <2> QED
    BY <2>1, <2>2 DEF Seeking
<1>8. CASE state = "line"
  <2>1. Awaiting /\ ~chunked
    BY <1>1, <1>8 DEF Seeking, Doomed
  <2>2. plan \in Seq(Calls) /\ Own = <<>>
        /\ enqueued + Cardinality(BeforeOf(plan)) = HeadersBefore(Now)
    BY <1>8, <2>1 DEF Awaiting
  <2>3. enqueued = HeadersBefore(Now) /\ enqueued \in Nat
    <3>1. Cardinality(BeforeOf(plan)) = 0
      BY <1>1, <2>2, BeforeTail DEF Idle
    <3>2. enqueued \in Nat
      BY DEF CType, PiecesInv
    <3> QED
      BY <2>2, <3>1, <3>2
  <2>4. Own' = <<>> /\ Now' = Now
    BY <1>1, <2>2, OwnSame DEF Now, Current
  <2>5. EntryOK(e.route, h, b)
    BY <1>1, <1>2, <1>3 DEF PutsInv
  <2>6. Recalls' /\ replay'.headers = h /\ replay'.body = b /\ replay'.of = e.route
    BY <1>5 DEF Recalls, HeadPieces, BodyPieces, Piece
  <2>7. PICK s \in Seq(AnyPiece), k \in Seq(AnyPiece), x \in Seq(AnyPiece), y \in Seq(AnyPiece) :
          s = Part("status") /\ k = Part("blank") /\ x = h /\ y = b
    <3>1. Part("status") \in Seq(AnyPiece) /\ Part("blank") \in Seq(AnyPiece)
      BY DEF Part, AnyPiece, Parts
    <3>2. HeadPieces \subseteq AnyPiece /\ BodyPieces \subseteq AnyPiece
      BY OwnType DEF HeadPieces, BodyPieces
    <3>3. h \in Seq(AnyPiece) /\ b \in Seq(AnyPiece)
      BY <3>2
    <3> QED
      BY <3>1, <3>3
  <2>8. s \o (x \o (k \o y)) = s \o x \o k \o y
    BY SMTT(40)
  <2>9. PICK all \in Seq(AnyPiece) : all = s \o x \o k \o y
    <3>1. s \o x \o k \o y \in Seq(AnyPiece)
      OBVIOUS
    <3> QED
      BY <3>1
  <2>10. /\ HeaderPieces(h) = Headers(e.route)
         /\ Sound(e.route) => Reads(all, {}).mode = "status" /\ Reads(all, {}).got = Units(e.route)
    BY <2>5, <2>7, <2>9 DEF EntryOK
  <2>11. HeaderPieces(all) = Headers(e.route) /\ HeaderPieces(h) \in Nat
    <3>1. HeaderPieces(s) = 0 /\ HeaderPieces(k) = 0 /\ HeaderPieces(y) = 0
      <4>1. \A i \in 1..Len(s) : s[i].part # "header"
        BY <2>7 DEF Part
      <4>2. \A i \in 1..Len(k) : k[i].part # "header"
        BY <2>7 DEF Part
      <4>3. \A i \in 1..Len(b) : b[i].part # "header"
        <5>1. \A i \in 1..Len(b) : b[i] \in BodyPieces
          OBVIOUS
        <5> QED
          BY <5>1 DEF BodyPieces
      <4> QED
        BY <2>7, <4>1, <4>2, <4>3, HeaderPiecesNone
    <3>2. PICK sx \in Seq(AnyPiece), sk \in Seq(AnyPiece) : sx = s \o x /\ sk = sx \o k
      <4>1. s \o x \in Seq(AnyPiece) /\ (s \o x) \o k \in Seq(AnyPiece)
        OBVIOUS
      <4> QED
        BY <4>1
    <3>3. all = sk \o y
      BY <2>9, <3>2
    <3>4. /\ HeaderPieces(all) = HeaderPieces(sk) + HeaderPieces(y)
          /\ HeaderPieces(sk) = HeaderPieces(sx) + HeaderPieces(k)
          /\ HeaderPieces(sx) = HeaderPieces(s) + HeaderPieces(x)
          /\ HeaderPieces(x) \in Nat
      BY <3>2, <3>3, HeaderPiecesConcat
    <3>5. HeaderPieces(all) = HeaderPieces(x)
      BY <3>1, <3>4
    <3> QED
      BY <2>7, <2>10, <3>4, <3>5
  <2>12. (Part("status") \o TheHead)' = all
    BY <2>6, <2>7, <2>8, <2>9 DEF TheHead, TheBody
  <2>13. Whole(Own' \o all, enqueued', replay'.of, Now')
    <3>1. Own' \o all = all
      BY <2>4
    <3>2. HeaderPieces(all) + enqueued = Headers(e.route) + HeadersBefore(Now)
      BY <2>3, <2>11
    <3> QED
      BY <1>1, <2>4, <2>6, <2>10, <3>1, <3>2 DEF Whole
  <2>14. Promise(enqueued, Part("status") \o TheHead)'
    BY <2>12, <2>13 DEF Promise
  <2>15. HitPlan(Tail(plan'), 0, Len(replay'.headers))
    BY <1>4, <1>6, <2>6
  <2>16. HitLine'
    BY <1>1, <1>6, <1>8, <2>4, <2>14, <2>15 DEF HitLine, Idle
  <2> QED
    BY <1>1, <2>1, <2>6, <2>16 DEF Answering
<1> QED
  BY <1>1, <1>7, <1>8

(* AnswerInv is inductive, with the invariants before it.                   *)
LEMMA AnswerNext ==
  ASSUME KeysOwn, CType, ShareInv, TouchInv, PutsInv, BelongInv, PartsCached, AnswerInv,
         [CacheNext]_allVars
  PROVE  AnswerInv'
<1> SUFFICES ASSUME Asking' PROVE Seeking' \/ Answering'
  BY DEF AnswerInv
<1>1. CASE Begin
  BY <1>1, SeekBegins
<1>2. CASE ~Begin
  <2>1. Asking /\ Current \in Responses
    BY <1>2, AskedBefore
  <2>2. CASE Answering
    BY <1>2, <2>2, AnswerStep
  <2>3. CASE Seeking /\ Hit
    BY <2>1, <2>3, HitAnswers
  <2>4. CASE Seeking /\ ~Hit
    BY <1>2, <2>4, SeekNext
  <2> QED
    BY <2>1, <2>2, <2>3, <2>4 DEF AnswerInv
<1> QED
  BY <1>1, <1>2

(* No route asks at first. *)
LEMMA AnswerInit == CacheInit => AnswerInv
BY DEF CacheInit, Init, AnswerInv, Asking, Current

(* A route with useCache that has ended without recording has hit.          *)
LEMMA AnswersWhole ==
  ASSUME CType, AnswerInv, Idle, Asking, state = "finished"
  PROVE  Whole(Own, 0, replay.of, Now)
<1>1. ~Seeking
  <2>1. Left = {}
    BY DEF Left, Idle
  <2> QED
    BY <2>1 DEF Seeking, Awaiting, Doomed
<1>2. plan = <<>> /\ plan \in Seq(AllCalls)
  BY DEF Idle, CType, ReplayInv, Replays
<1>3. ~HitLine /\ ~HitHeaders /\ ~HitBlank /\ ~HitBody /\ ~HitEnds
  BY DEF HitLine, HitHeaders, HitBlank, InHead, HitBody, HitEnds
<1>4. HitDone
  BY <1>1, <1>3 DEF AnswerInv, Answering
<1>5. Whole(Own \o <<>>, 0, replay.of, Now)
  BY <1>4 DEF HitDone, Promise
<1>6. Own \o <<>> = Own
  <2>1. Own \in Seq(Piece)
    BY OwnType
  <2> QED
    BY <2>1
<1> QED
  BY <1>5, <1>6

(* What a hit has sent, read by itself, is a whole response: all that was   *)
(* recorded of the route it answers with, and the headers that its own      *)
(* route set before useCache; whatever its route does otherwise, whichever  *)
(* responses record, fail or still drain, and whenever entries are put,     *)
(* overwritten and deleted (cache.ts:143-156).                              *)
THEOREM HitsCompleteCorrect ==
  ASSUME Routes # {}
  PROVE  CacheSpec => []HitsComplete
<1>1. CacheInit => TimeoutsMatch /\ KeysOwn /\ CType /\ ShareInv /\ TouchInv /\ PutsInv
  BY InitMatches, OwnInit, CTypeInit, ShareInit, TouchInit, PutsInit
<1>2. TimeoutsMatch /\ KeysOwn /\ CType /\ ShareInv /\ TouchInv /\ PutsInv /\ [CacheNext]_allVars
        => (TimeoutsMatch /\ KeysOwn /\ CType /\ ShareInv /\ TouchInv /\ PutsInv)'
  BY NextMatches, OwnNext, CTypeNext, ShareNext, TouchNext, PutsNext
<1>3. CacheInit => BelongInv /\ PartsCached /\ AnswerInv
  BY BelongInit, CachedInit, AnswerInit
<1>4. TimeoutsMatch /\ KeysOwn /\ CType /\ ShareInv /\ TouchInv /\ PutsInv
        /\ BelongInv /\ PartsCached /\ AnswerInv /\ [CacheNext]_allVars
        => (BelongInv /\ PartsCached /\ AnswerInv)'
  <2> SUFFICES ASSUME TimeoutsMatch, KeysOwn, CType, ShareInv, TouchInv, PutsInv,
                      BelongInv, PartsCached, AnswerInv, [CacheNext]_allVars
               PROVE  (BelongInv /\ PartsCached /\ AnswerInv)'
    OBVIOUS
  <2>1. BelongInv'
    BY BelongKept DEF ShareInv
  <2>2. PartsCached'
    BY CachedNext
  <2>3. AnswerInv'
    BY AnswerNext
  <2> QED
    BY <2>1, <2>2, <2>3
<1>5. CType /\ AnswerInv => HitsComplete
  <2> SUFFICES ASSUME CType, AnswerInv, Idle, Asking, state = "finished"
               PROVE  /\ HeaderPieces(Own) = Headers(replay.of) + HeadersBefore(routes[Current])
                      /\ Sound(replay.of) => Reads(Own, {}).mode = "status"
                                             /\ Reads(Own, {}).got = Units(replay.of)
    BY DEF HitsComplete, Asking, Own
  <2>1. HeaderPieces(Own) + 0 = Headers(replay.of) + HeadersBefore(Now)
        /\ (Sound(replay.of) => Reads(Own, {}).mode = "status"
                                /\ Reads(Own, {}).got = Units(replay.of))
    BY AnswersWhole DEF Whole
  <2>2. HeaderPieces(Own) + 0 = HeaderPieces(Own)
    <3>1. HeaderPieces(Own) \in Nat
      <4>1. PICK own \in Seq(AnyPiece) : own = Own
        BY OwnType
      <4> QED
        BY <4>1, HeaderPiecesConcat
    <3> QED
      BY <3>1
  <2> QED
    BY <2>1, <2>2 DEF Now
<1> QED
  BY <1>1, <1>2, <1>3, <1>4, <1>5, PTL DEF CacheSpec
================================================================================
