# A TLA+ model of HannaHTTP

HannaHTTP is an HTTP/1.1 server library in TypeScript on node's `net`, `tls` and
`stream`. This directory holds TLA+ specifications of its core, the TLC
configurations that check them on small instances, and TLAPS proofs of what
matters most. Paths below are relative to the repository; the code is in `src/`
(`src/client-handler.ts` and so on), the documentation is `readme.md`. The
repository has no tests.

## 1. The system

| component | state it keeps | operations | talks to |
| --- | --- | --- | --- |
| connection handler `client-handler.ts` | session, one request object per connection | `_onData`, `_onRequest`, `_handleError` | socket (piped in through a `Writable`), request (write, next, the HeadersLoaded event), router, response |
| request parser `http/request.ts` | state, buffer, request line, headers, body | `write`, `next`, `update*`, `loadBufferBody` | emits HeadersLoaded *inside* its loop; BodyLoaded resolves the body reader |
| response `http/response.ts` | state, enqueued headers, size, transforms, stream graph | `status`, `header`, `send*Body`, `endHeaders`, `endBody`, `addBodyTransform`, `text`, `file`, `redirect`, ... | socket, through `client.write` and through pipes |
| client socket `client-socket.ts` | the node socket | `write`, `destroy` | |
| router `router/` | registered callbacks | `register`, `handle`, path matching | awaits each callback in turn |
| body reader `middleware/body.ts` | none | reads a body by its content-length | `request.loadBufferBody` |
| compression, static files, virtual hosts, cookies, logging `middleware/` | none | | response, router |
| response cache `middleware/cache.ts`, `misc/memory-cache.ts` | map of responses with timers | hit, intercept, put, expiry | adds a raw transform to the response |
| servers `server/` | the listening server | `start`, `stop`, `restart` | create a connection handler per connection |
| scheduler `misc/scheduler.ts` | queue of tasks, a timer | `schedule`, `_run` | |
| letsencrypt `middleware/letsencrypt.ts` | config files, certbot's files | request, renewal | scheduler, secure server's `restart` |
| headers, uri, method, version, session, logger, settings, queue | | parsing, formatting, logging | |

What is hard in it. JavaScript runs to completion, so interleavings happen at
`await`s and event callbacks only, but there are many of those on one connection:

* the `Writable` hands chunk after chunk to `_onData` while an un-awaited
  `_onRequest` serves the previous request *from the same request object*;
* HeadersLoaded is emitted in the middle of the parser's loop, so a callback that
  runs synchronously (the body reader first in a route) re-enters the parser;
* an error page takes several awaits, during which the connection goes on;
* a body flows through up to five streams, each with its own end and close, and
  the promise that lets the next request begin hangs on one of them;
* the peer may go away between any two steps, and then writes fail, pipes are
  taken down and some promises never settle.

What makes each component correct:

* parser: input is consumed in order, none twice; every request's callbacks see
  their own line, headers and body; a body ends exactly where its length says;
* connection: one request at a time; requests answered in the order they came;
  an error ends the connection; every request of a well-behaved peer is answered;
* response: status, headers, body in this order whatever the route calls; the
  framing headers agree with the body; the send resolves, and when it does the
  response is out;
* servers: a net server that opens, listens or closes is the one in `_server`, but for
  the ways to lose it that the code has (section 3); every `start`, `stop` and `restart`
  settles, unless a connection of a server that is closing never ends;
* scheduler and letsencrypt: every certificate has exactly one task, and no task
  that is due waits behind one that is not; the server has the certificate that is
  on the disk; a certificate is renewed again and again, also after a failure or a
  restart of the process, unless a restart of the server waits for such a connection;
* cache: what is stored and replayed is a whole response, to a request that is equal
  in all the key is made of; an entry lives for its time, and no longer;
* router: the callbacks of nested routers and virtual hosts run as if there were one
  flat table, in the order of registration, also when it grows meanwhile.

## 2. The modules

```
RequestPipeline            what a connection promises
      ^ refined by
ClientHandler              one connection: Writable, activations, error pages
      | EXTENDS
HTTPRequest                the parser
HTTPResponse               the responses of one connection and their streams
      ^ EXTENDS
ResponseCache              useCache and its map, around these responses

HTTPServer                 one server object and its net servers
      ^ EXTENDS
LetsEncrypt                a program around it: scheduler, certificates, crashes

Router                     tables of callbacks, path matching, virtual hosts
```

The modules `...Proofs` and `ClientHandlerRefinement` hold the proofs
(`ClientHandlerProofs` what concerns control, `ClientHandlerDataProofs`, which extends
it, what concerns the input), the modules `MC...` the values TLC checks with.

### HTTPRequest (`http/request.ts`, `useBodyReader`'s length)

The input is a sequence of *tokens*: a whole line of some kind, a piece of a line
(`frag`), or a unit of a body. What the parser does depends on bytes only through
where lines end and which of four reactions a line provokes (accepted, syntax
error, unsupported version, any other error), and that is what a token keeps.
Pieces of a split line join; body data in front of a line spoils it (`LineKind`),
which is what happens to the body nobody read. `req` says which request a token
was sent for; the code never looks at it, the properties do. What the number means is
`FramesAssumption` (in `ClientHandler`): lines are numbered in the order they are sent,
and the data that a head declares follows it. Nothing else is asked of a peer.

| variable | code |
| --- | --- |
| `state`, `buffer` | `_state`, `_buffer` (`<<>>` for undefined) |
| `line` | `method`, `uri`, `rawUri`, `version` |
| `headers`, `body` | `headers`, `body` |
| `parsing` | `update()` is on the stack |

`Write` and `NextRequest` are `write` and `next` up to the loop; one action per
turn of the loop follows (`ParseRequestLine`, `ParseHeader`, `EndHeaders`,
`RejectLine`, `AwaitLine`, `UpdateBody`, `UpdateBodyThrows`, `LeaveLoop`).
`EndHeadersLoading` is the blank line together with the body reader that runs
inside the event; `LoadBufferBody` is the reader called from a later turn.

### ClientHandler (`client-handler.ts`, `client-socket.ts`, `SimpleRouter.handle`)

EXTENDS `HTTPRequest` and adds threads: thread 0 is the `Writable`, thread t the
t-th activation of `_onRequest`. `pc[t]` is the await a thread stands at, `caller`
the thread whose loop is on the stack; no other step is enabled while `parsing`.
`net` and `writable` are the input before the parser, `out` what was sent, by whose
response and part. A route is `Readers` (no body reader, reader first, reader after
a callback that awaits) and `Outcomes` (answers, passes on because nothing matches,
throws). Here a response is three writes; `HTTPResponse` has the detail. `PeerCloses`
may come at any moment, and what fails afterwards, or hangs, is modelled:
`WriteFails`, `BodyHangs`, `ErrorPageFails`, `ErrorPageHangs`. A rejection nobody
handles ends the process (`Crashed`).

### RequestPipeline

The abstract specification, six actions: a request is accepted when the previous
one is complete, writes its status, headers and body in order, completes or is
abandoned, which closes the connection; an error page may be written between any
two of these. The refinement mapping (`Phase` in `ClientHandler`) reads the pc of
the last activation.

### HTTPResponse (`http/response.ts`)

The responses of a connection one after another. A route is the sequence of
`calls` it makes on its response, the `chunks` its body's source yields, the `size`
it declares and whether the request was HEAD; `text`, `file` and `redirect` are
the operators `TextCalls`, `FileCalls`, `RedirectCalls`. `plan` holds the calls that
are left, a composite method replacing itself by the methods it awaits. `Allowed`
collects the state checks: a call they refuse throws, and the handler destroys the
connection (`Fail`). The body flows `source -> encoder -> framer -> tail[r] -> wire`;
the encoder is the body transform (compression), `tail[r]` the raw transform of
response r (the cache), bounded by `HighWaterMark`. Pipes rest while what they write
to is full, hence a flush may be late; a raw transform's flush does not even
belong to the send any more. `Reads`, and `Client` for the wire so far, is what the
properties measure with: a reader of the wire that follows HTTP/1.1's rules for where a
body ends. Routes make public calls only; `framing`, `pipe` and `closed`
(`InternalCalls`) are parts of the methods that send a body.

### ResponseCache (`middleware/cache.ts`, `misc/memory-cache.ts`)

EXTENDS `HTTPResponse`: the call `raw` of a route is `useCache`. `RequestOf` gives each
route the request it answers, as far as `generateCacheKey` looks at it; `KeyOf` is the
sequence of segments, which the code joins, so that a search and a hash in the same
place are the same segment.

| variable | code |
| --- | --- |
| `cache`, `timers` | `_map` and the timeouts of its entries |
| `recorder` | what a response's listeners have heard: nothing, the status, or the status was sent before they were there |
| `chunks` | `chunks` of the raw transform's closure |
| `replay` | what a hit still has to write of `cachedResponse` |

`Miss` adds the listeners and the raw transform, `Record` is its `transform` (a chunk
is recorded when it is written to it), `RawFinal` its `final`, which may come when
the next response has begun. The intercepted headers are read off the wire:
everything but Date, Server and Connection (`Intercepted`); the Content-Encoding of
`useCompression` is one of the default headers of `HTTPResponse` and is left out.
`Hit` replaces the rest of the route by what it writes, one await at a time.
`Elsewhere` is another connection that puts what this one recorded, so that entries
are overwritten at any moment. `age` is history: how long an entry has been there.

### HTTPServer (`server/plain.ts`, `server/secure.ts`)

One server object, `secure` saying which class. `pc[c]` is the await the call of
caller c stands at, `awaits[c]` the net server whose event it waits for. `CallStart`,
`CallStop`, `CallRestart` are the calls, `ReadKey` and `ReadCert` the awaits of a
secure `start`; `Opened`, `Closed`, `AddressInUse`, `Dropped` are what node does.
A net server that is closed gives up its port at once and emits `close` after its last
connection; every callback given to `close()` runs in that event and clears `_server`,
whatever that is by then. Then the promises settle, and a plain `restart` goes on
with `start` before any other event, which is why `Closed` contains it. A net server
closed before it listens (`aborted`, then `stray`) may be dropped or listen after all,
depending on the version of node: both are modelled. Of the two files it matters
whether they are those on the disk (`fresh`) and belong together (`torn`).

### LetsEncrypt (`middleware/letsencrypt.ts`, `misc/scheduler.ts`, `example/main.ts`)

EXTENDS `HTTPServer` with the rest of a program: one that starts a secure server with
`useLetsEncrypt`, or one whose administrators call the methods of a server (`program`).

| variable | code |
| --- | --- |
| `queue`, `timers` | `_queue`; the timers alive, for `unref()` cancels none |
| `main`, `toLoad` | how far the main program and the loop of `useLetsEncrypt` are |
| `task[c]` | the await that `requestCertificate` or `renewCertificate` of c stands at |
| `expires`, `config` | `expireDate` in memory and in the config file |
| `life` | how long certbot's certificate still lives |

Times are what is left of them and go down with `Tick`. The timeout of the scheduler
is always 0 (the comparison in scheduler.ts:55 is inverted), so a live timer may fire
at any moment, run what is due and set the next (`Run`). `ProcessEnds` is the end of
the process: by a rejection nobody handles, an `error` event nobody listens for, a
failure of certbot, or a kill; a config that was being written is the old, the new or
torn. `Boot` starts the program again with what is on the disk.

### Router (`router/simple-router.ts`, `router/path-matcher.ts`, `middleware/vhost.ts`)

A path is a sequence of tokens, slashes and segments; of a segment it matters whether
`[A-Za-z0-9_-]+` matches it. `CleanPath`, `MatcherPath`, `Accepted`, `Matches`,
`Parameters`, `Remainder` are the pure functions. `callbacks()` is a generator that
calls itself: `frames` is its stack, `Skip`, `Descend`, `Yield`, `Exhaust` its steps,
and `Register` may extend any table before or while a callback is awaited. `VirtualHost`
hands what remains to another router's `handle`, after which the first does not go on.

The reference is `Flat`: a nested router's table is put into its parent's, every
pattern becoming absolute (`Mount`), and `Calls` selects what matches the segments of
the path. It knows neither cleaning nor expressions nor remainders.

## 3. What TLC checks

All runs use small sets of streams or routes and every interleaving. They do not
check for deadlock, because a connection with no more input, a process that has
ended, or a router with no more requests really stops.

| run | what it shows |
| --- | --- |
| `client_handler` | six connections of up to three requests: bodies, split lines, every kind of malformed line before and between good requests, cut into chunks at every point; routes with the reader in every position and every outcome; the peer may leave at any moment. `OneActive`, `OwnData`, `DispatchInOrder`, `ResponsesInOrder`, `InputInOrder`, refinement of `RequestPipeline`; `ErrorsDestroy` and `BodiesComplete` are its liveness |
| `client_handler_live` | only well-formed requests and a peer that stays: `AllServed`, `WellFormedSurvives` |
| `http_response` | eighteen routes, two in a row: sized and unsized bodies, compression, raw transforms, HEAD, redirects, empty bodies, headers before and after the status line, and routes that call in the wrong order. `ClientFollows`, `ResponseComplete`, `HeadersArrive`, and `SendsResolve` and `RawDrains` as liveness |
| `letsencrypt` | two administrators of a plain and of a secure server; one certificate with two faults, two certificates with one. `OwnServer`: a net server is lost to stop() in three ways only, and never without administrators. `ServesCurrent`: without administrators, a listening server has the files on the disk, but for the moment before certbot exits. `Covered`: one task per certificate, a timer, no due task behind a later one. `EndsForAReason`: without an administrator only faults and two tasks at once end the process. `IInv` is the invariant the proofs of these four rest on. `CallsSettle` and `Maintained` are its liveness, both unless a connection of a closing server never ends |
| `response_cache` | two responses of seven routes on one cache: misses of the same and of other keys, a route that breaks off, one that sent its status before `useCache`, HEAD, compression, another connection's puts, a peer that leaves. `EntriesWhole`, `HitsComplete`, `HitsMatch`, `LivesItsTime`, and `EntriesEnd` as liveness |
| `router` | all tables of up to three of sixteen registrations, made before or during one of seven requests: parameters, `*` at and not at the end, `/`, nested routers with and without `*`, a virtual host, HEAD, doubled and final slashes, a backslash. `CallsInOrder` and `CallsOnlyMatching` against the reference, `SeesNewRoutes`, `RequestsEnd` |
| `body_reader_first`, `error_page_last`, `on_data_rejects`, `raw_transform_lags`, `head_with_body`, `empty_body_chunked` | a statement of the documentation or of a comment that the code does not keep; section 6 |

Bounds. `MaxRequests = 3` activations, three requests on a connection: the hazards
need a request that is served, one that waits, and one that fails. Bodies of one
and two units have a first, a last and an only unit. Chunks take every size from
one token to all of them. `MaxResponses = 2`: the question between responses is
always whether one is done when the next begins. `HighWaterMark = 2` is below the
three chunks of a compressed stream, so that a raw transform does get full. Larger
bodies, more headers or more responses repeat the same steps.

`letsencrypt`: three net servers, for one that listens or closes, one that opens and
one that was aborted; one connection, for a `close` that waits; `Interval` and
`RequestDelay` of one tick and a certificate that lives two, of which certbot keeps it
for one, so that a request can find a certificate that it keeps, one that it renews,
and none; two timers, the second being the one too many. A third administrator would
only add calls that resolve or reject at once. `response_cache`: a TTL of one tick
tells an entry that just came from one that is due; `HighWaterMark = 1` holds chunks
back; two responses are the one that records and the one that is replayed or records
over it. `router`: three registrations suffice for a table with a nested router and a
neighbour on either side; one request, since only the tables outlive it.

Fairness. `ClientHandler` assumes `WF_vars(Step)`: node runs every callback that is
ready and the network delivers what was sent; the peer's leaving is not fair.
`HTTPResponse` assumes it of `Open /\ Step` only: what a stream does after its
socket closed is left open, since node takes pipes down then. That the socket drains
is an assumption about a client that goes on reading. Weak fairness of the whole
step suffices: every step consumes input, advances a thread or moves a chunk, and
there are finitely many of each, so no thread can be passed over for ever.
`LetsEncrypt` assumes weak fairness of the main program, of each net server's events,
of each call's awaits, of each task, of failures and of time, one by one, for they
wait for different things. That includes that certbot exits and that a process which
ended is started again. The end of a connection, calls of administrators, faults and
kills are not fair. The code has no timeout and destroys no connection when it closes
a server, so a `stop` or `restart` may wait for ever, and the task that restarts the
server with it: `CallsSettle` and `Maintained` say so themselves (`Hanging`).
`ResponseCache` assumes that time passes and timeouts fire, `Router` that the generator
runs on and callbacks resolve.
`Maintained` excepts two certificates whose tasks restart the server together and so
end the process each time it is started.

`ClientFollows` and `ResponseComplete` speak of connections all of whose responses
are `Delimited`. It names what the code gives no proper end: redirects, empty chunks
that no transform changes (each is a zero chunk of its own), HEAD answered with a body,
raw transforms, and a size that is not the body's. The routes of those kinds are in the
run all the same, for the other properties.

`HitsMatch` and the invariants of the router name what the code does not promise: a
search that looks like another request's hash, and a path with a backslash (section 6).
`HitsMatch` speaks of hits, and of what the key names; of the method nothing is claimed.

`OwnServer` is about the steps that lose a net server, after which it opens, listens or
closes and is not the one in `_server`. A server that is stopped before it listens may
listen all the same, after its `close` cleared `_server` (plain and secure). A secure
`start` that passed the check before the files were read puts its own in the place of
one that is there (`StartGoesOn`), and the `close` of one that was so
lost clears `_server` of its successor (`LostOneCloses`). There is no fourth way, and all
three need administrators.

## 4. What is proved

Proofs hold for every value of the constants under the named assumptions of the
modules. Most only give types and bounds. Those that say more: `FramesAssumption`, what
the numbers in a stream mean; `RoutesAssumption`, routes make public calls;
`CallersAssumption`, who calls `start` and `restart` and that nobody has two parts;
`CertificatesAssumption`, finitely many certificates. TLC evaluates each on the runs'
values. Some theorems have a hypothesis of their own. `Survives` and `HitsMatch` hold of
some environments only (`Undisturbed`, `EncodingsApart`), which the `MC...` modules assert
of the values of their runs. Three theorems on the cache need a route to exist, because
`replay` names one before there was a hit.

The parser and the connection:

* `HTTPRequestProofs`: `ReadLineSplits`, that line and remainder are the buffer and
  the line ends with a CRLF and has none before; lemmas on the types of the parser's steps.
* `ClientHandlerProofs`: `TypeCorrect`, `OneActiveCorrect`, `InvCorrect`. `OneActive`
  alone is not inductive: a step of the parser could dispatch while a route is active.
  `IInv` adds that the activations in use are exactly the first `dispatched` ones, and
  that a loop on the stack belongs to a thread that waits for it. An active thread does
  not, and `OneActive` keeps the parser in FINISHED or BODY for it, so whoever runs the
  loop cannot reach a blank line.
* `ClientHandlerDataProofs`: `OwnDataCorrect`, a route's line, headers and body are its
  own; `DispatchInOrderCorrect`; and `InputPlaced`, which says where the input is:
  there is one of the streams and a way to cut it such that the buffer, each chunk of
  the `Writable` and what the network still has are consecutive pieces of it. What was
  consumed before the buffer determines line, headers and body (`ReadInv`): the head
  that was read last, and for a body as much as came after that head. `DataInv` =
  `IInv` with `TaskData` (the parser is where the active route needs it),
  `DispatchInOrder` and `InputInv` (the above). Its cut is an unbounded existential that
  TLC cannot enumerate, so it has no run of its own. `InputInOrderCorrect` follows: what
  is pending, joined, is the rest of the stream (`RestOfStream`), and a step only moves
  the place where it begins forward (`InputAdvances`).
* `SurvivesCorrect`: a connection whose peer sends well-formed requests and stays, with
  routes that do not throw (`Undisturbed`), is never destroyed. The invariant
  `SurviveInv` places the end of what was read at the end of a line that the parser's
  state agrees with.
* `RequestPipelineProofs`: `PipelineInOrder`; the strengthening bounds what was sent by
  the accepted request and its phase. `ClientHandlerRefinement`: `ImplementsPipeline`,
  one lemma per group of steps under `IInv`, and `ResponsesInOrderCorrect` from the two.

The responses, `HTTPResponseProofs`:

* `TypeCorrect`, strengthened with `Busy` (a call that is left belongs to a response that
  began); it includes the bound on raw transforms.
* `ClientFollowsCorrect` and `ResponseCompleteCorrect`: whatever the routes call, in
  whatever order, a client that reads what is sent is never lost while the responses are
  delimited, and when a route has resolved the client has all of its response. The idea
  is the client that is *ahead*: one that has also read what the framer still holds
  (`Ahead`). While the socket is open (`Follow`) its mode is determined by the state of
  the response, phase by phase (`HeadInv` for HEAD, otherwise the disjuncts of `BodyInv`:
  before the body, at each call that a body's method makes, while it flows, done), and
  the units it has and those in source and encoder make the whole. The real client
  differs by a prefix, and one that is not lost later was not lost earlier. `SendInv` adds
  `MadeInv` (transforms and size are those of calls the route makes) and `WhoInv`.
* `HeadersArriveCorrect`: each header a route sets before it ends its headers, and each
  default header that was enqueued, is sent once and ahead of the blank line. `HdrInv`
  counts per state what is written, enqueued and still to be called; `PlanInv` and
  `PartsInv` keep the body's methods and streams away from headers.

The servers, `LetsEncryptProofs`, for any number of net servers, certificates and
administrators:

* `TypeCorrect`, `InvCorrect`, `CoveredCorrect`, `OwnServerCorrect`, `ServesCurrentCorrect`,
  `EndsForAReasonCorrect`. `IInv` is made of: `QueueInv`, the queue is sorted and holds
  exactly the tasks that are loaded and not at work; `CallInv`, who may be in a call;
  `HeldInv`, a net server that opens, closes or was aborted is the one in `_server` unless
  the server is secure and has administrators;
  `TurnInv`, on a secure server without administrators one caller at most is between the
  end of one net server and the start of the next, so that none is overwritten; `NetInv`,
  there every net server is the one in `_server` and somebody waits for its next event;
  `RejectInv`, a call is rejected only while somebody else is at work. TLC checks `IInv`
  in the run `letsencrypt`.

The cache, `ResponseCacheProofs`:

* `LivesItsTimeCorrect`, by `TimeoutsMatch` (`TimeoutsMatchCorrect`): every entry has one
  timeout, and the age of the entry and what is left of its timeout add up to the TTL.
  That a timeout deletes its key whatever is there is harmless because `put` clears the
  one before, which is what the uniqueness in the invariant says.
* `HitsMatchCorrect`, by `KeysOwn`: an entry is under the key of the request its route
  answered. Requests with one key agree in all the options name, or the search of one is
  the hash of the other (`SameKey`). That takes `EncodingsApart`: no search or hash looks
  like the segment of an encoding.
* `CacheTypeCorrect`, of the two and `CType`: whatever flows is a piece of a response, and
  a plan has no more calls that write a recorded header than there are headers left
  (`ReplayInv`), without which the head of an empty sequence would be written.
* `EntriesWholeCorrect`. The raw transform is a second client of the response: the same
  calls, streams and framer, but what reaches it is the head that was sent and the chunks
  that were recorded (`Seen`), and it never has a HEAD. So the theory of
  `HTTPResponseProofs` is instantiated for it (`Rec == INSTANCE HTTPResponseProofs WITH
  wire <- Seen, ...`), and the steps of the response are shown to be steps of that
  instance too (`RecCall`, `RecRouteStep`, `RecStreams`). A response is `InTouch` with the
  cache while it records, or may yet. `TouchInv` says of it that its headers are counted
  (`HeadersInv`), that its transform and its body come in time (`Transforming`,
  `Sending`), and which phase of a body the second client is in (`Phase`). Stored
  headers lack the default ones; they still say of the body what the head did that was
  sent (`SameHead`, `HeadsAlike`). `PutsInv` is what lasts: what was recorded and put, or
  may still be put for a response that is over, and every entry, is whole (`EntryOK`).
  `ShareInv` has what all responses share: whose a piece is, how full a raw transform
  may be, that a hit does not call `useCache` again.
* `HitsCompleteCorrect`, from all of these. A route that called `useCache` and does not
  record either has not got there (`Awaiting`: the headers it set so far and those its
  plan still sets before `useCache` make the number that was to be), or is about to fail
  because the hit finds its status line sent (`Doomed`), or is in one of the six stages of
  a hit (`HitLine` to `HitDone`). Each stage has a `Promise`: what was sent of this
  response, with what the hit still writes behind it, is a whole response. A step moves a
  piece from one side to the other, and a client cannot tell the difference
  (`PromiseMoves`, `ReadsAlike`). It also takes
  `BelongInv`, that raw transforms of earlier responses drain nothing into this one, and
  `PartsCached`, that no status line is ever stored.

Induction. The library's induction theorems are out of the provers' reach, but its
`WFMin` is not: a set of numbers that is not empty has a least one (`LeastNumber`), and
what fails somewhere fails somewhere first. So it is shown that the folds `Total` and
`Reads` exist, are unique and take one more element as they should; this needs them
written as recursive functions.

What the proofs corrected. `Delimited` once allowed HEAD answered with a body as long as
`file()` was called too, a transform added too late to help an empty chunk, and a size
that is not the body's; no route of the run does any of these. `HeadersArrive` did not
count default headers that are enqueued before the status. `HitsMatch` was thought to
hold of all requests (`EncodingsApart`). That an encoder yields no empty piece is part
of `Delimited` for the same reason that an empty chunk is.

Only model-checked:

* all liveness, and `ENABLED`;
* the router: its properties compare a run of the generator with a fold over tables
  nested to any depth, which is induction over data.

## 5. What is not modelled

Bytes, header names, formats and logging; TLS; node's streams beyond order, end,
close, fullness and destruction; the size of chunks against a high-water mark in
bytes. A response has at most one body transform and one raw transform, and the raw
one passes on what it gets, as the cache's does; the code pipes several into each
other. `writeBody`, cookies, file errors and files that change while they are sent. A
route is assumed to await its calls and, in `ClientHandler`, to send at most one
response. Of a path, characters with a meaning in a regular expression; of a server,
what a connection does (`ClientHandler`) and an error of `listen` other than a port in
use; of a program, a second server object and an application that handles rejections
itself. Certbot, which talks to a server elsewhere, is assumed to take longer than the servers
need to start. The static middleware's catch, logging, cookies, header
values and uris are pure or stateless; the queue is used nowhere. The components marked
as not modelled in PROJECT.json have no state to speak of.

Beyond the repository: node itself (a rejection that nobody handles ends the
process; a write to a destroyed socket fails; a stream that is unpiped does not
close) and the peer.

## 6. Where the code departs from its words

Each is a run that must find its property violated.

| run | the words | the code |
| --- | --- | --- |
| `body_reader_first` | readme.md:39, 70-72: the body reader reads the body and is installed first | when the body is not in the chunk of the blank line, the outer parser loop throws "no buffer instance" and the connection is destroyed |
| `error_page_last` | client-handler.ts:103: the connection is forced to close | a request that is already buffered, or arrives, during the error page is answered behind it |
| `on_data_rejects` | client-handler.ts:182: resolves once the error has been handled | a peer that leaves during the page makes it reject, unhandled |
| `raw_transform_lags` | response.ts:698: resolves once the buffer has been written to the client | with a raw transform it resolves when that transform has the data |
| `head_with_body` | response.ts:318: excludes the body for HEAD | only `file()` does |
| `empty_body_chunked` | response.ts:481-483: a known length is sent fixed-length | a known length of 0 is sent chunked, with two zero chunks |

Others that the models contain and no run is devoted to:

* scheduler.ts:42 "Cancels the current timer": `unref()` does not cancel it, so timers
  multiply; scheduler.ts:53-55 computes 0 for every task in the future, and the
  scheduler spins. `Covered` and `Maintained` hold all the same.
* letsencrypt.ts:282: after a renewal a *request* is scheduled, which certbot may answer
  by keeping the certificate; `Maintained` still holds, for the next one renews.
* secure.ts:40 "Throws an error if the server is there": the check is made before the two
  files are awaited, so of two starts at once both create a server, and the first one's
  listens on where no `stop` reaches it (`OwnServer` names the step).
* secure.ts:90: `stop` rejects and then resolves; the first counts.
* path-matcher.ts:38 "Replaces all the multiple occurences of slashes": the first run of
  backslashes becomes a slash.
* below a prefix the `/` of a nested router is never reached, and a router mounted
  without `*` gets the empty path; a nested match has only its own parameters (`Mount`).
* cache.ts:73-88: the headers of a key follow its search and hash, and all are joined by
  the character that may be in them: a search or a hash that reads `Accept-Encoding=...`
  passes for an encoding (`EncodingsApart`).
* cache.ts:48-89: the method is no part of the key, so a HEAD that hits gets a body;
  headers set before `useCache` are sent twice by a hit (`HitsComplete` counts them so).

## 7. Plan

1. Done: `HTTPRequest`, `ClientHandler`, `RequestPipeline`, `HTTPResponse`, their runs
   and first theorems.
2. Done: `HTTPServer` with `LetsEncrypt`, `ResponseCache`, `Router` and their runs.
3. Done: the proofs of section 4, that is every safety property of `ClientHandler`,
   `HTTPResponse`, `LetsEncrypt` and `ResponseCache` that TLC checks.
4. Left to prove: `Router`'s `TypeOK`, with its stack that is empty exactly when nothing
   is handled.
