-------------------------------- MODULE MCRouter --------------------------------
(* A server's router with a nested router and a virtual host. *)
EXTENDS Router

MCRouters == {"root", "sub", "virtual"}
MCHostOf == [v \in {"host"} |-> "h"]
MCRouterOf == [v \in {"host"} |-> "virtual"]

Reg(router, method, path, handlers) ==
  [router |-> router, method |-> method, path |-> path, handlers |-> handlers]

MCRegistrations == {
  Reg("root", "GET", <<"/", "a">>, <<"f">>),
  Reg("root", "POST", <<"/", ":x", "/">>, <<"f", "g">>),
  Reg("root", AnyMethod, <<"*">>, <<"g">>),
  Reg("root", "GET", <<"/">>, <<"f">>),
  Reg("root", AnyMethod, <<"/", "a", "/", "*">>, <<"sub">>),
  Reg("root", "GET", <<"/", ":x">>, <<"sub">>),
  Reg("root", AnyMethod, <<"/", ":x", "/", "*">>, <<"host">>),
  Reg("root", AnyMethod, <<"*">>, <<"sub">>),
  Reg("root", AnyMethod, <<"/", "*", "/", "a">>, <<"f">>),
  Reg("root", AnyMethod, <<"/", ":x", "/", ":x">>, <<"f">>),
  Reg("root", AnyMethod, <<"/", ":__x__">>, <<"f">>),
  Reg("sub", "GET", <<"/", ":y", "/", "*">>, <<"f">>),
  Reg("sub", AnyMethod, <<"*">>, <<"g">>),
  Reg("sub", AnyMethod, <<"/">>, <<"f">>),
  Reg("virtual", "GET", <<"b", "/", ":x">>, <<"f">>),
  Reg("virtual", AnyMethod, <<"*">>, <<"g">>)}

Req(method, path, host) == [method |-> method, path |-> path, host |-> host]

MCRequests == {
  Req("GET", <<"/">>, "h"),
  Req("GET", <<"/", "/", "a", "/", "/">>, "other"),
  Req("HEAD", <<"/", "a", "/", "/", "b", "/", "a", "/">>, "h"),
  Req("HEAD", <<"/", "a", "/", "b", "/", "~">>, "other"),
  Req("POST", <<"/", "b">>, "h"),
  Req("GET", <<"/", "a", "\\", "b">>, "h"),
  Req("GET", <<"/", "~", "/", "b">>, "h")}
================================================================================
