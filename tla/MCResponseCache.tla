---------------------------- MODULE MCResponseCache ----------------------------
(* Routes of one server with a cache, and the requests they answer. *)
EXTENDS ResponseCache

CONSTANTS none

R(calls, chunkSizes, size, head) ==
  [calls |-> calls, chunks |-> chunkSizes, size |-> size, head |-> head]

Page       == R(<<"raw">> \o TextCalls, <<2>>, 2, FALSE)
OtherPage  == R(<<"raw">> \o TextCalls, <<1>>, 1, FALSE)
PageHead   == R(<<"raw">> \o FileCalls(TRUE), <<>>, 2, TRUE)
PageNow    == R(<<"raw", "header">> \o TextCalls, <<3>>, 3, FALSE)
Zipped     == R(<<"transform", "header", "raw">> \o StreamCalls, <<1, 1>>, 0, FALSE)
Late       == R(<<"status", "header", "raw", "header", "streamed">>, <<1>>, 0, FALSE)
Broken     == R(<<"raw", "status", "header", "streamed", "status">>, <<1>>, 0, FALSE)

MCRoutes == {Page, OtherPage, PageHead, PageNow, Zipped, Late, Broken}

Request(path, search, hash, encoding) ==
  [path |-> path, search |-> search, hash |-> hash, encoding |-> encoding]

MCRequestOf ==
  [route \in MCRoutes |->
     CASE route = Zipped    -> Request("page", none, none, "gzip")
       [] route = OtherPage -> Request("page", "a=1", none, none)
       [] route = Broken    -> Request("page", none, "top", none)
       [] OTHER             -> Request("page", none, none, none)]

(* The requests are such that HitsMatchCorrect says something of them. *)
ASSUME EncodingsApartHere == EncodingsApart
================================================================================
