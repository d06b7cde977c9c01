-------------------------- MODULE MCRequestPipeline --------------------------
(* Patterns chosen so that they meet: /a/:x and /a/b, /a/b/c under both, a  *)
(* second name for :x, a nameless parameter after new nodes, a repeated    *)
(* name, a duplicate, the root, a path that is refused.                    *)
EXTENDS RequestPipeline, TLC

MCParam == (":x" :> "x") @@ (":y" :> "y") @@ (":" :> "")

Reg(path, kind) == [method |-> "GET", path |-> path, kind |-> kind, callable |-> TRUE]

MCRegistrations ==
  { Reg(<<"", "a", ":x">>, "echo"), Reg(<<"", "a", "b", "">>, "proxy"),
    Reg(<<"", "a", "b", ":">>, "handler"), Reg(<<"", "a", ":x", "c">>, "handler"),
    Reg(<<"", "a", ":y", "b">>, "echo"), Reg(<<"", ":x", ":x">>, "handler"),
    Reg(<<"", "">>, "proxy"), Reg(<<"", "", "a">>, "echo"),
    [Reg(<<"", "a", ":x">>, "proxy") EXCEPT !.method = "PUT"],
    [Reg(<<"", "a">>, "handler") EXCEPT !.callable = FALSE] }

(* One proxy route, and a request for it.                                   *)
MCProxyRoute == {Reg(<<"", "">>, "proxy")}
MCProxyRequest == {[method |-> "GET", path |-> <<"", "">>]}

MCRequests ==
  { [method |-> "GET", path |-> p] :
      p \in { <<"", "a", "b">>, <<"", "a", "d">>, <<"", "a", "b", "c">>, <<"", "b", "a", "">>,
              <<"", "">>, <<"", "", "a">> } }
  \cup { [method |-> "PUT", path |-> <<"", "a", "b">>] }
=============================================================================
