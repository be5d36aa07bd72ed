------------------------------ MODULE AuthGate ------------------------------
(***************************************************************************)
(* From start to answer: main() loads the configuration and resolves the   *)
(* control token (ConfigV1), the control API listens, and every request    *)
(* passes the one authentication layer (auth.rs) on its way to a handler   *)
(* (control_api.rs).  A failure is logged at most once per peer and        *)
(* second, however many requests fail at a time.                           *)
(*                                                                         *)
(* The layer runs without an await, and its log under a mutex, so that a   *)
(* request is one step; requests come in any order.  What the handlers do  *)
(* is in EnsureProxy.  Tokens are compared as values.  A logged line is    *)
(* one given to serve()'s closure, whose try_send drops it when the event  *)
(* channel is full; tools and a terminal that are missing are left out.    *)
(***************************************************************************)
EXTENDS ConfigV1, SequencesExt

CONSTANTS
    Worlds,      \* what may be found at the start
    Requests,    \* what may be asked: path, method, bearer, query, peer
    Peers,       \* addresses of clients
    Second       \* a second, in ticks

ASSUME GateAssumption ==
    /\ Second \in Nat \ {0}
    /\ \A r \in Requests : /\ r.peer \in Peers
                           /\ r.query \in Seq([name : STRING, value : STRING])

AtMostOne(S) == \A a, b \in S : a = b

\* A source holds one secret at most.  In a file that parses the sources are what they
\* are, and a literal token is there if it is one of them.
ASSUME WorldsAssumption ==
    \A w \in Worlds :
        LET file == w.disk[ResolvePath(w)]
        IN  /\ AtMostOne(w.env) /\ AtMostOne(w.key.content)
            /\ file.kind = "config" =>
                /\ AtMostOne(file.conf.literal)
                /\ file.conf.sources \subseteq {"literal", "env", "file"}
                /\ "literal" \in file.conf.sources => file.conf.literal # {}
                /\ file.conf.allow_query \in BOOLEAN

VARIABLES
    world,       \* as found
    phase,       \* "start", "refused" (exit 2), "unbound" (no listener) or "serving"
    token,       \* AuthState: the control token, if any
    allow_query, \* AuthState
    age,         \* last_failure: ticks since it, up to Second, of each peer
    last,        \* the last request, its verdict and the query it went on with
    line,        \* the peer of the line the last step logged, if any
    quiet        \* history: ticks since the last line of each peer, up to Second

gateVars == <<token, allow_query, age>>
vars == <<world, phase, gateVars, last, line, quiet>>

------------------------------------------------------------------------------
(* The policy table, and the handlers' own table.                          *)

Row(method, auth, compat) ==
    [methods |-> {method}, auth |-> auth, scope |-> "inference", query_token_compat |-> compat]

POLICY ==
    [p \in {"/healthz", "/v1/models", "/v1/status", "/v1/chat/completions",
            "/v1/ensure", "/v1/ensure/stream"} |->
        CASE p = "/healthz" -> [Row("GET", "public", FALSE) EXCEPT !.scope = "none"]
          [] p \in {"/v1/chat/completions", "/v1/ensure"} -> Row("POST", "required", FALSE)
          [] p = "/v1/ensure/stream" -> Row("GET", "required", TRUE)
          [] OTHER -> Row("GET", "required", FALSE)]

\* handler_for: the methods a path's handler takes.
Handlers(path) ==
    IF path \in {"/v1/chat/completions", "/v1/ensure"} THEN {"POST"}
    ELSE IF path \in DOMAIN POLICY THEN {"GET"} ELSE {}

------------------------------------------------------------------------------
(* The layer.                                                              *)

Param(v) == [name |-> "token", value |-> v]
IsToken(p) == p.name = "token"

\* query_token: the value of the first token= of the query.
QueryToken(query) ==
    LET at == SelectInSeq(query, IsToken)
    IN  IF at = 0 THEN {} ELSE {query[at].value}

\* Mutant: only the token that was looked at is taken out.
StripFirst(query) ==
    LET at == SelectInSeq(query, IsToken)
    IN  IF at = 0 THEN query ELSE RemoveAt(query, at)

\* strip_query_token.
StripQueryToken(query) ==
    LET kept[n \in 0..Len(query)] ==
            IF n = 0 THEN <<>>
            ELSE IF IsToken(query[n]) THEN kept[n - 1] ELSE Append(kept[n - 1], query[n])
    IN  kept[Len(query)]

\* token_matches: no token is expected if none is configured.
Matches(presented) == presented \cap token # {}

\* Mutant: the query's token is good on every route.
DecideAnyQuery(row, r) ==
    IF r.method \notin row.methods THEN "not_supported"
    ELSE IF row.auth = "public" \/ token = {} THEN "pass"
    ELSE IF Matches(r.bearer) \/ (allow_query /\ r.method = "GET" /\ Matches(QueryToken(r.query)))
    THEN IF row.scope = "admin" THEN "forbidden" ELSE "pass"
    ELSE "auth_required"

Decide(row, r) ==
    IF r.method \notin row.methods THEN "not_supported"
    ELSE IF row.auth = "public" \/ token = {} THEN "pass"
    ELSE IF \/ Matches(r.bearer)
            \/ /\ row.query_token_compat /\ allow_query
               /\ r.method = "GET" /\ Matches(QueryToken(r.query))
    THEN IF row.scope = "admin" THEN "forbidden" ELSE "pass"
    ELSE "auth_required"

\* Default deny: a path without a policy is not supported.
Verdict(r) ==
    IF r.path \in DOMAIN POLICY THEN Decide(POLICY[r.path], r) ELSE "not_supported"

\* Mutant: a failure that is not logged, too, starts the second anew.
LogFailureRefreshing(peer) ==
    /\ line' = IF age[peer] < Second THEN {} ELSE {peer}
    /\ age' = [age EXCEPT ![peer] = 0]

\* Mutant: every failure is logged.
LogFailureAlways(peer) ==
    /\ line' = {peer}
    /\ age' = [age EXCEPT ![peer] = 0]

\* log_failure.
LogFailure(peer) ==
    IF age[peer] < Second
    THEN line' = {} /\ UNCHANGED age
    ELSE line' = {peer} /\ age' = [age EXCEPT ![peer] = 0]

Request(r) ==
    LET verdict == Verdict(r)
    IN  /\ phase = "serving"
        /\ last' = {[request |-> r, verdict |-> verdict,
                     seen |-> IF verdict = "pass" /\ Matches(QueryToken(r.query))
                              THEN StripQueryToken(r.query) ELSE r.query]}
        /\ IF verdict = "auth_required"
           THEN LogFailure(r.peer)
           ELSE line' = {} /\ UNCHANGED age
        /\ quiet' = [p \in Peers |-> IF p \in line' THEN 0 ELSE quiet[p]]
        /\ UNCHANGED <<world, phase, token, allow_query>>

------------------------------------------------------------------------------
\* main(), up to the listener.
Start ==
    LET loaded == Load(world)
        resolved == ResolveControlToken(loaded.conf, world)
    IN  /\ phase = "start"
        /\ IF ~loaded.ok \/ ~resolved.ok
           THEN phase' = "refused" /\ UNCHANGED <<token, allow_query>>
           ELSE /\ phase' \in {"serving", "unbound"}
                /\ token' = resolved.token
                /\ allow_query' = loaded.conf.allow_query
        /\ UNCHANGED <<world, age, last, line, quiet>>

\* Mutant: no time is long enough.
OlderForEver(n) == n + 1

\* now.duration_since: only whether a second has passed matters.
Older(n) == IF n < Second THEN n + 1 ELSE n

Tick ==
    /\ phase = "serving"
    /\ age' = [p \in Peers |-> Older(age[p])]
    /\ quiet' = [p \in Peers |-> Older(quiet[p])]
    /\ line' = {}
    /\ UNCHANGED <<world, phase, token, allow_query, last>>

Init ==
    /\ world \in Worlds
    /\ phase = "start" /\ token = {} /\ allow_query = FALSE
    /\ age = [p \in Peers |-> Second] /\ quiet = age
    /\ last = {} /\ line = {}

Next == Start \/ Tick \/ \E r \in Requests : Request(r)

Spec == Init /\ [][Next]_vars

------------------------------------------------------------------------------
(* Properties.                                                             *)

\* There is at most one last request, one token and one logged peer, and times stay
\* within a second.
TypeOK ==
    /\ world \in Worlds
    /\ phase \in {"start", "refused", "unbound", "serving"}
    /\ allow_query \in BOOLEAN
    /\ age \in [Peers -> 0..Second]
    /\ quiet \in [Peers -> 0..Second]
    /\ \A l \in last : l.request \in Requests
                       /\ l.verdict \in {"pass", "not_supported", "auth_required"}
    /\ line \subseteq Peers

\* The file that counts, and what it says of the token.
InForce == world.disk[ResolvePath(world)]
Sources == IF InForce.kind = "config" THEN InForce.conf.sources ELSE {}
Secret(source) ==
    CASE source = "literal" -> InForce.conf.literal
      [] source = "env" -> world.env
      [] source = "file" -> world.key.content

\* The daemon starts with what the file in force says: it "never falls back to
\* defaults on a malformed file" (config_v1.rs), and whoever names a source of a token
\* gets that source's, not an empty one from the environment or a file, and only if
\* there is no second source.
StartsAsConfigured ==
    phase \in {"serving", "unbound"} =>
        /\ InForce.kind = "config" \/ (InForce.kind = "absent" /\ ~world.flag)
        /\ InForce.kind = "config" => Valid(InForce.conf)
        /\ \A s \in Sources :
            /\ token = Secret(s)
            /\ s \in {"env", "file"} => token \notin {{}, {""}}
            /\ Sources = {s}
        /\ Sources = {} => token = {}

\* What a request needs, read off the world and the handlers: the route takes its
\* method, and, but for /healthz, it carries the secret of the source the file in force
\* names, in its header or, where that file allows it, in the stream's query.
Carries(r) ==
    \E s \in Sources :
        \/ r.bearer \cap Secret(s) # {}
        \/ /\ r.path = "/v1/ensure/stream" /\ r.method = "GET"
           /\ InForce.conf.allow_query
           /\ QueryToken(r.query) \cap Secret(s) # {}
Entitled(r) ==
    /\ r.method \in Handlers(r.path)
    /\ r.path = "/healthz" \/ Sources = {} \/ Carries(r)

\* A request reaches a handler just if it is entitled to, and a handler that takes its
\* method is there: the policy table and the handlers' table agree, and the layer uses
\* what the configuration says ("Handlers contain no auth logic", auth.rs).
GateIsExact == \A l \in last : l.verdict = "pass" <=> Entitled(l.request)

\* "At most one line per peer per second".
OneLinePerSecond ==
    [][<<line, last>>' # <<line, last>> => \A p \in line' : quiet[p] = Second]_vars

\* No failure of a peer that was quiet for a second goes unlogged, however many came
\* in between without a line.
FailuresSurface ==
    [][\A l \in last' \ last :
        l.verdict = "auth_required" /\ quiet[l.request.peer] = Second
            => line' = {l.request.peer}]_vars

\* A query with tokens left out: nothing else is, and the rest keeps its order.
Redacts(seen, query) ==
    LET others == {i \in DOMAIN query : query[i].name # "token"}
    IN  /\ \A i \in DOMAIN seen : seen[i].name # "token"
        /\ Len(seen) = Cardinality(others)
        /\ \A i \in others : seen[Cardinality({j \in others : j <= i})] = query[i]

\* "Redacted everywhere downstream": when the query carried the token, its handler sees
\* no token in it, right or wrong, and all else that was in it.
NoTokenDownstream ==
    \A l \in last :
        LET query == l.request.query
        IN  IF l.verdict = "pass" /\ token # {} /\ QueryToken(query) = token
            THEN Redacts(l.seen, query)
            ELSE l.seen = query

\* Why the above hold: whoever serves has what the world gave, and last_failure is
\* the time of the last line.
AsResolved ==
    phase = "serving" =>
        /\ Load(world).ok /\ ResolveControlToken(Load(world).conf, world).ok
        /\ token = ResolveControlToken(Load(world).conf, world).token
        /\ allow_query = Load(world).conf.allow_query
IndInv ==
    /\ TypeOK /\ AsResolved /\ StartsAsConfigured /\ GateIsExact
    /\ NoTokenDownstream
    /\ age = quiet
    /\ phase = "start" => token = {}
    /\ last # {} => phase = "serving"
==============================================================================
