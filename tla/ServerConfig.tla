---------------------------- MODULE ServerConfig ----------------------------
(***************************************************************************)
(* What ServerBase::Config and the _CustomConfig of WebServer and          *)
(* ReverseProxyServer make of a configuration file that ParseYaml has      *)
(* read.  The result `out` of a reading is "found", "throws" (an exception *)
(* the callers catch), "null" (a null pointer is used), "assert", or       *)
(* "illegal" for values they refuse.                                       *)
(***************************************************************************)
EXTENDS Yaml, FiniteSets

CONSTANT MaxNetThreads      \* 8

\* The members of ServerConfigBase, ServerConfig and ProxyConfig.
DefaultConfig ==
    [is_config_done |-> FALSE, out |-> "found", port |-> 0, net_thread_cnt |-> 0,
     max_connections |-> 0, max_backlog |-> 0, worker_thread_cnt |-> 0,
     reverse_proxy_port |-> 0, is_send_heartbeat |-> FALSE, heartbeat_period |-> 60,
     webservers |-> <<>>, load_balance_rule |-> ""]

\* What a sequence of lookups comes to: the first that does not find a value.
Outcome(lookups) ==
    LET bad == SelectSeq(lookups, LAMBDA l : l.out # "found")
    IN  IF bad = <<>> THEN "found" ELSE bad[1].out

Leaf(st, up, elem, key) == Lookup(st, up, elem, key, "leaf")
Leaves(st, up, elem, keys) == [k \in DOMAIN keys |-> Leaf(st, up, elem, keys[k])]
Value(st, lookup) == st.nodes[lookup.at].data

Refused(conf, out) == [conf EXCEPT !.out = out]

\* WebServer::_CustomConfig.
WebCustomConfig(st, conf) ==
    LET own   == Leaves(st, 1, 0, <<"max_backlog", "worker_thread_cnt">>)
        obj   == Lookup(st, 1, 0, "reverse_proxy", "object")
        proxy == Leaves(st, obj.at, 0, <<"ip", "port", "send_heartbeat", "heartbeat_period">>)
        out   == Outcome(own \o <<obj>> \o proxy)
        next  == [conf EXCEPT
                    !.max_backlog = ToSize(Value(st, own[1])),
                    !.worker_thread_cnt = ToSize(Value(st, own[2])),
                    !.reverse_proxy_port = ToUint16(Value(st, proxy[2])),
                    !.is_send_heartbeat = ToBool(Value(st, proxy[3])),
                    !.heartbeat_period = ToInt(Value(st, proxy[4])) * 1000]
    IN  IF out # "found" THEN Refused(conf, out)
        ELSE IF next.worker_thread_cnt < 1 \/ next.heartbeat_period < 30 * 1000
        THEN Refused(next, "illegal")
        ELSE [next EXCEPT !.is_config_done = TRUE]

\* ReverseProxyServer::_CustomConfig.  AsYmlObjects asserts that the length of
\* the objects is known, which it is once a second object has begun.
ProxyCustomConfig(st, conf) ==
    LET arr     == Lookup(st, 1, 0, "webservers", "array")
        fields  == [e \in 1..st.nodes[arr.at].size |->
                        Leaves(st, arr.at, e, <<"ip", "port", "weight">>)]
        rule    == Leaf(st, 1, 0, "load_balance_rule")
        out     == Outcome(FlattenSeq(fields) \o <<rule>>)
        next    == [conf EXCEPT
                      !.webservers = [e \in DOMAIN fields |->
                                        [port   |-> ToUint16(Value(st, fields[e][2])),
                                         weight |-> ToUint16(Value(st, fields[e][3]))]],
                      !.load_balance_rule = Value(st, rule).text]
    IN  IF arr.out # "found" THEN Refused(conf, arr.out)
        ELSE IF st.nodes[arr.at].len <= 1 THEN Refused(conf, "assert")
        ELSE IF out # "found" THEN Refused(conf, out)
        ELSE IF next.load_balance_rule \notin {"poll", "weight", "ip_hash"}
        THEN Refused(next, "illegal")
        ELSE [next EXCEPT !.is_config_done = TRUE]

\* ServerBase::Config as far as it reads the file.
ReadConfig(st, server) ==
    LET base == Leaves(st, 1, 0, <<"port", "net_thread_cnt", "max_connections">>)
        next == [DefaultConfig EXCEPT
                   !.port = ToUint16(Value(st, base[1])),
                   !.net_thread_cnt = Min({ToSize(Value(st, base[2])), MaxNetThreads}),
                   !.max_connections = ToSize(Value(st, base[3]))]
    IN  IF ~st.ok THEN Refused(DefaultConfig, "assert")
        ELSE IF Outcome(base) # "found" THEN Refused(DefaultConfig, Outcome(base))
        ELSE IF next.net_thread_cnt < 1 THEN Refused(next, "illegal")
        ELSE IF server = "web" THEN WebCustomConfig(st, next)
        ELSE ProxyCustomConfig(st, next)

-----------------------------------------------------------------------------
(***************************************************************************)
(* What a file says, by its indentation alone.                             *)
(***************************************************************************)
IsEntry(line) == line.kind \in {"leaf", "node"}

\* The line that line i of doc belongs to, 0 for the whole file.
UpLine(doc, i) ==
    Max({0} \cup {j \in 1..(i - 1) : doc[j].kind # "blank" /\ doc[j].indent < doc[i].indent})

\* The node that ParseYaml should have made for line i, and the object of an
\* array that the line belongs to.
NodeOf(doc, i) == IF i = 0 THEN 1 ELSE 1 + Cardinality({j \in 1..i : IsEntry(doc[j])})
ElemOf(doc, i) ==
    Cardinality({j \in (UpLine(doc, i) + 1)..(i - 1) :
                    doc[j].kind = "dash" /\ UpLine(doc, j) = UpLine(doc, i)})

Members(doc, i) == {j \in DOMAIN doc : UpLine(doc, j) = i /\ doc[j].kind # "blank"}

\* Indented by two spaces; no object is empty or begins with an object; an
\* array holds objects of leaves, all of one length.
WellFormed(doc) ==
    /\ \A i \in DOMAIN doc : doc[i].kind # "other"
    /\ \A i \in DOMAIN doc : doc[i].kind # "blank" =>
            IF UpLine(doc, i) = 0 THEN doc[i].indent = 0
            ELSE /\ doc[UpLine(doc, i)].kind = "node"
                 /\ doc[i].indent = doc[UpLine(doc, i)].indent + 2
    /\ \A j \in Members(doc, 0) : doc[j].kind # "dash"
    /\ \A i \in DOMAIN doc : doc[i].kind = "node" =>
            LET in   == Members(doc, i)
                len(d) == Cardinality({j \in in : IsEntry(doc[j]) /\ ElemOf(doc, j) = ElemOf(doc, d) + 1})
                dashes == {j \in in : doc[j].kind = "dash"}
            IN  /\ in # {} /\ doc[Min(in)].kind # "node"
                /\ dashes # {} =>
                      /\ doc[Min(in)].kind = "dash"
                      /\ \A j \in in : doc[j].kind # "node"
                      /\ \A d, e \in dashes : len(d) = len(e) /\ len(d) > 0

\* The value that object elem of line up has for a key, by the first such line.
Lines(doc, up, elem, key) ==
    {i \in DOMAIN doc : /\ IsEntry(doc[i]) /\ doc[i].key = key
                        /\ UpLine(doc, i) = up /\ ElemOf(doc, i) = elem}
Has(doc, up, elem, keys) ==
    \A k \in keys : LET at == Lines(doc, up, elem, k) IN at # {} /\ doc[Min(at)].kind = "leaf"
Says(doc, up, elem, key) == doc[Min(Lines(doc, up, elem, key))].value

\* What a web server requires of its file.  That no NetThread may be without a
\* worker is not checked by _CustomConfig, which only warns.
LegalWeb(doc) ==
    LET rp == Lines(doc, 0, 0, "reverse_proxy")
    IN  /\ Has(doc, 0, 0, {"max_backlog", "worker_thread_cnt"})
        /\ Says(doc, 0, 0, "worker_thread_cnt").num >=
                Min({Says(doc, 0, 0, "net_thread_cnt").num, MaxNetThreads})
        /\ rp # {} /\ doc[Min(rp)].kind = "node"
        /\ Has(doc, Min(rp), 0, {"ip", "port", "send_heartbeat", "heartbeat_period"})
        /\ Says(doc, Min(rp), 0, "heartbeat_period").num >= 30

\* What a reverse proxy requires: two web servers at least.
LegalProxy(doc) ==
    LET ws    == Lines(doc, 0, 0, "webservers")
        elems == {ElemOf(doc, i) : i \in {i \in Members(doc, Min(ws)) : IsEntry(doc[i])}}
    IN  /\ ws # {} /\ doc[Min(ws)].kind = "node"
        /\ Cardinality(elems \ {0}) >= 2 /\ 0 \notin elems
        /\ \A e \in elems : /\ Has(doc, Min(ws), e, {"ip", "port", "weight"})
                             /\ Says(doc, Min(ws), e, "weight").num \in 0..10
        /\ Has(doc, 0, 0, {"load_balance_rule"})
        /\ Says(doc, 0, 0, "load_balance_rule").text \in {"poll", "weight", "ip_hash"}

Legal(file) ==
    LET doc == file.doc
    IN  /\ WellFormed(doc) /\ Has(doc, 0, 0, {"port", "net_thread_cnt", "max_connections"})
        /\ Says(doc, 0, 0, "net_thread_cnt").num >= 1
        /\ Says(doc, 0, 0, "max_connections").num >=
                Min({Says(doc, 0, 0, "net_thread_cnt").num, MaxNetThreads})
        /\ IF file.server = "web" THEN LegalWeb(doc) ELSE LegalProxy(doc)
=============================================================================
