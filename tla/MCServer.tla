------------------------------ MODULE MCServer ------------------------------
(* Configuration files: the two that come with the sources and one nested   *)
(* more deeply, each as it is and with one line changed.                    *)
EXTENDS Server, TLC

L(i, k, n) == [indent |-> i, kind |-> "leaf", key |-> k, value |-> Number(n)]
T(i, k, t) == [indent |-> i, kind |-> "leaf", key |-> k, value |-> Text(t)]
N(i, k) == [indent |-> i, kind |-> "node", key |-> k, value |-> Text("")]
Mark(i, kind) == [indent |-> i, kind |-> kind, key |-> "", value |-> Text("")]

WebBase(max, nets, workers) ==
    <<L(0, "port", 5002), L(0, "net_thread_cnt", nets), L(0, "worker_thread_cnt", workers),
      L(0, "max_connections", max), L(0, "max_backlog", 4096)>>
ReverseProxyBlock(send) ==
    <<N(0, "reverse_proxy"), T(2, "ip", "127.0.0.1"), L(2, "port", 80),
      T(2, "send_heartbeat", send), L(2, "heartbeat_period", 600)>>

WebDoc == WebBase(5, 2, 2) \o ReverseProxyBlock("false")
NestedDoc ==
    <<N(0, "aaa"), T(2, "oops", "x"), N(2, "ccc"), T(4, "ddd", "y")>> \o ReverseProxyBlock("false")
      \o WebBase(1, 1, 1)

Webserver(port, weight) == <<Mark(2, "dash"), T(2, "ip", "127.0.0.1"), L(2, "port", port),
                             L(2, "weight", weight)>>
ProxyDoc ==
    <<L(0, "port", 80), N(0, "webservers")>> \o Webserver(5002, 1) \o Webserver(5003, 0)
      \o <<T(0, "load_balance_rule", "poll"), L(0, "net_thread_cnt", 1), L(0, "max_connections", 2)>>

\* One line changed: its indentation, its value, or the whole of it.
Changed(line) ==
    {[line EXCEPT !.indent = @ + d] : d \in {x \in {-2, 1, 2, 4} : line.indent + x >= 0}}
      \cup {[line EXCEPT !.value = v] : v \in IF line.kind = "leaf"
                THEN {Number(-1), Number(0), Number(1), Number(70000), Text("true")} ELSE {}}
      \cup {Mark(line.indent, k) : k \in {"dash", "blank", "other"}}
      \cup {[line EXCEPT !.kind = IF @ = "leaf" THEN "node" ELSE "leaf"]}

Edits(doc) ==
    {doc} \cup UNION {{[doc EXCEPT ![i] = l] : l \in Changed(doc[i])} : i \in DOMAIN doc}

AllFiles ==
    {[server |-> "web", doc |-> d] : d \in Edits(WebDoc) \cup Edits(NestedDoc)}
      \cup {[server |-> "proxy", doc |-> d] : d \in Edits(ProxyDoc)}
=============================================================================
