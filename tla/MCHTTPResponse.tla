----------------------------- MODULE MCHTTPResponse -----------------------------
(* What the routes of each run do with their responses. *)
EXTENDS HTTPResponse

R(calls, chunks, size, head) ==
  [calls |-> calls, chunks |-> chunks, size |-> size, head |-> head]

Text(size)       == R(TextCalls, <<size>>, size, FALSE)
Stream           == R(StreamCalls, <<1, 1>>, 0, FALSE)
File(head)       == R(FileCalls(head), <<1, 1>>, 2, head)
Redirect         == R(RedirectCalls, <<>>, 0, FALSE)
Compressed(size) == R(<<"transform">> \o TextCalls, <<size>>, size, FALSE)
CompressedFile   == R(<<"header", "transform">> \o FileCalls(FALSE), <<1, 1>>, 2, FALSE)
Cached           == R(<<"raw">> \o FileCalls(FALSE), <<1, 1>>, 2, FALSE)
CachedText       == R(<<"raw">> \o TextCalls, <<2>>, 2, FALSE)
CachedStream     == R(<<"raw", "transform">> \o StreamCalls, <<1>>, 0, FALSE)
WithHeaders      == R(<<"header", "header">> \o TextCalls, <<2>>, 2, FALSE)
HeadText         == R(TextCalls, <<2>>, 2, TRUE)

(* Routes that go wrong: two responses, a header after the body, a header   *)
(* transform after it, a body before the status line.                       *)
Twice            == R(TextCalls \o TextCalls, <<1>>, 1, FALSE)
LateHeader       == R(StreamCalls \o <<"header">>, <<1>>, 0, FALSE)
LateTransform    == R(TextCalls \o <<"transform">>, <<1>>, 1, FALSE)
BodyFirst        == R(<<"header", "buffered", "status">>, <<1>>, 1, FALSE)

AllRoutes == {
  Text(2), Text(0), Stream, File(FALSE), File(TRUE), Redirect, Compressed(1),
  Compressed(0), CompressedFile, Cached, CachedText, CachedStream, WithHeaders,
  HeadText, Twice, LateHeader, LateTransform, BodyFirst}

CachedRoutes == {Text(2), CachedText}
HeadRoutes == {Text(2), Stream, HeadText, File(TRUE)}
EmptyRoutes == {Text(0), Text(2), Compressed(0), Stream}
================================================================================
