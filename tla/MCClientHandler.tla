---------------------------- MODULE MCClientHandler ----------------------------
(* Small connections for TLC: what the peers of each run send. *)
EXTENDS ClientHandler

T(kind, req, n) == [kind |-> kind, req |-> req, n |-> n]

Data(req, size) == [i \in 1..size |-> T("data", req, i)]

Get(req)        == <<T("line", req, 1), T("header", req, 2), T("blank", req, 3)>>
SplitGet(req)   == <<T("frag", req, 1)>> \o Get(req)
Post(req, size) == <<T("line", req, 1), T("length", req, size), T("blank", req, 3)>>
                     \o Data(req, size)
BadLine(req)    == <<T("badline", req, 1), T("blank", req, 2)>>
BadHeader(req)  == <<T("line", req, 1), T("badheader", req, 2), T("blank", req, 3)>>
BadVersion(req) == <<T("badversion", req, 1), T("blank", req, 2)>>
BadUri(req)     == <<T("baduri", req, 1), T("blank", req, 2)>>

(* Requests with and without bodies, split lines and every kind of          *)
(* malformed line, between well-formed requests.                            *)
MixedStreams == {
  Post(1, 2) \o Post(2, 1) \o Get(3),
  Get(1) \o BadLine(2) \o Get(3),
  BadHeader(1) \o Post(2, 1),
  Get(1) \o BadHeader(2) \o Get(3),
  Get(1) \o BadVersion(2) \o Get(3),
  SplitGet(1) \o BadUri(2)}

WellFormedStreams == {
  SplitGet(1) \o Get(2) \o Get(3),
  Get(1) \o SplitGet(2)}

ASSUME WellFormedAre == \A s \in WellFormedStreams : WellFormed(s)

(* One request whose body may come in a chunk of its own. *)
PostStreams == {Post(1, 2) \o Get(2)}
================================================================================
