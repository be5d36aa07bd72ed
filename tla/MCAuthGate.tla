----------------------------- MODULE MCAuthGate -----------------------------
(* Worlds that vary where the configuration is found, and worlds that vary     *)
(* where the token is; requests for every route, most for the stream's.         *)
EXTENDS AuthGate

Conf(sources, literal, allow) ==
    [DefaultConf EXCEPT !.sources = sources, !.literal = literal, !.allow_query = allow]
Config(conf) == [kind |-> "config", conf |-> conf]
Bad(kind) == [kind |-> kind]
Literal == Conf({"literal"}, {"L"}, FALSE)

Key == [exists |-> TRUE, regular |-> TRUE, private |-> TRUE, owned |-> TRUE, content |-> {"F"}]
World(flag, xdg, disk, env, key) ==
    [flag |-> flag, xdg |-> xdg, disk |-> disk, env |-> env, key |-> key]

Places == {"Flag", "Xdg", "Home"}
Files == {Bad("absent"), Bad("unreadable"), Bad("malformed"), Config(Literal),
          Config([Literal EXCEPT !.schema = "2"]), Config([Literal EXCEPT !.base = "other"]),
          Config([Literal EXCEPT !.expands = FALSE])}
WhereWorlds ==
    {World(flag, xdg, [p \in Places |-> IF p = here THEN file ELSE Config(DefaultConf)], {"E"}, Key) :
        flag \in BOOLEAN, xdg \in BOOLEAN, here \in Places, file \in Files}

Confs == {Conf(sources, IF "literal" \in sources THEN literal ELSE {}, allow) :
            sources \in SUBSET {"literal", "env", "file"}, literal \in {{"L"}, {""}}, allow \in BOOLEAN}
Keys == {Key, [Key EXCEPT !.content = {""}]} \cup
        {[Key EXCEPT ![field] = FALSE] : field \in {"exists", "regular", "private", "owned"}}
Holdings == ({{}, {""}, {"E"}} \X {Key}) \cup ({{"E"}} \X Keys)
TokenWorlds ==
    {World(FALSE, FALSE, [p \in Places |-> Config(conf)], held[1], held[2]) :
        conf \in Confs, held \in Holdings}

MCWorlds == WhereWorlds \cup TokenWorlds

MCPeers == {"p1", "p2"}
Other == [name |-> "model", value |-> "m"]
Queries == {<<>>, <<Param("E")>>, <<Param("F"), Other>>, <<Param("")>>,
            <<Param("L"), Other, Param("wrong")>>, <<Other, Param("wrong"), Param("E")>>}
Ask(path, method, bearer, query, peer) ==
    [path |-> path, method |-> method, bearer |-> bearer, query |-> query, peer |-> peer]
MCRequests ==
    {Ask(path, method, bearer, <<>>, "p1") :
        path \in DOMAIN POLICY \cup {"/v1/embeddings"}, method \in {"GET", "POST"},
        bearer \in {{}, {"L"}}}
    \cup {Ask(path, "GET", bearer, query, "p1") :
        path \in {"/v1/status", "/v1/ensure/stream"},
        bearer \in {{}, {"L"}, {"E"}, {"F"}, {"wrong"}}, query \in Queries}
    \cup {Ask("/v1/status", "GET", {}, <<>>, "p2")}
=============================================================================
