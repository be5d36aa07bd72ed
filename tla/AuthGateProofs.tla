--------------------------- MODULE AuthGateProofs ---------------------------
(***************************************************************************)
(* Proofs about AuthGate for any worlds, requests, peers and length of the *)
(* second: what is served is what the configuration entitles to, failures  *)
(* are logged at most once a second, and no token is handed on.  What is   *)
(* left of a query is a recursive function: the lemma about it is by       *)
(* induction up to its length, through the least one for which it fails.   *)
(***************************************************************************)
EXTENDS AuthGate, FiniteSetTheorems, NaturalsInduction, WellFoundedInduction, TLAPS

\* A setup that is accepted is the file in force, or, without one, the defaults.
LEMMA Loaded ==
    ASSUME NEW w \in Worlds, Load(w).ok
    PROVE  LET file == w.disk[ResolvePath(w)]
           IN  \/ /\ file.kind = "config" /\ Valid(file.conf)
                  /\ Load(w).conf = file.conf
               \/ /\ file.kind = "absent" /\ ~w.flag
                  /\ Load(w).conf = DefaultConf
BY DEF Load, Refused, ResolvePath

\* A set of sources without two is a singleton for each of its members.
LEMMA OnlySource ==
    ASSUME NEW S \in SUBSET {"literal", "env", "file"}, ~(Cardinality(S) > 1), NEW s \in S
    PROVE  S = {s}
<1>1. SUFFICES ASSUME NEW x \in S, x # s PROVE FALSE
  OBVIOUS
<1>2. IsFiniteSet({"literal", "env", "file"})
  <2>1. IsFiniteSet({}) BY FS_EmptySet
  <2>2. IsFiniteSet({} \cup {"literal"}) BY <2>1, FS_AddElement
  <2>3. IsFiniteSet({} \cup {"literal"} \cup {"env"}) BY <2>2, FS_AddElement
  <2>4. IsFiniteSet({} \cup {"literal"} \cup {"env"} \cup {"file"}) BY <2>3, FS_AddElement
  <2>5. {} \cup {"literal"} \cup {"env"} \cup {"file"} = {"literal", "env", "file"} OBVIOUS
  <2> QED BY <2>4, <2>5
<1>3. IsFiniteSet(S) BY <1>2, FS_Subset
<1>4. IsFiniteSet({s}) /\ Cardinality({s}) = 1 BY FS_Singleton
<1>5. IsFiniteSet({s} \cup {x}) /\ Cardinality({s} \cup {x}) = 2
  BY <1>1, <1>4, FS_AddElement
<1>6. {s} \cup {x} \subseteq S BY <1>1
<1>7. Cardinality({s} \cup {x}) <= Cardinality(S) BY <1>3, <1>6, FS_Subset
<1>8. Cardinality(S) \in Nat BY <1>3, FS_CardinalityType
<1> QED BY <1>5, <1>7, <1>8

\* What a resolved token is: nothing without a source, else the secret of the one source
\* there is; and it is something.
LEMMA Resolved ==
    ASSUME world \in Worlds, Load(world).ok,
           ResolveControlToken(Load(world).conf, world).ok
    PROVE  LET resolved == ResolveControlToken(Load(world).conf, world).token
           IN  /\ Sources = {} => resolved = {}
               /\ \A s \in Sources :
                    /\ resolved = Secret(s) /\ resolved # {}
                    /\ s \in {"env", "file"} => resolved \notin {{}, {""}}
                    /\ Sources = {s}
<1> DEFINE conf == Load(world).conf
           resolved == ResolveControlToken(conf, world)
<1>1. CASE InForce.kind = "absent"
  <2>1. conf = DefaultConf BY <1>1, Loaded DEF InForce
  <2>2. Sources = {} BY <1>1 DEF Sources
  <2>3. conf.sources = {} /\ ~(Cardinality(conf.sources) > 1)
    BY <2>1, FS_EmptySet DEF DefaultConf
  <2>4. resolved = [ok |-> TRUE, token |-> {}] BY <2>3 DEF ResolveControlToken
  <2> QED BY <2>2, <2>4
<1>2. CASE InForce.kind = "config"
  <2>1. conf = InForce.conf BY <1>2, Loaded DEF InForce
  <2>2. Sources = conf.sources /\ Sources \subseteq {"literal", "env", "file"}
    BY <1>2, <2>1, WorldsAssumption DEF Sources, InForce
  <2>3. ~(Cardinality(conf.sources) > 1) BY DEF ResolveControlToken, Refused
  <2>4. ASSUME Sources = {} PROVE resolved.token = {}
    BY <2>2, <2>3, <2>4 DEF ResolveControlToken
  <2>5. ASSUME NEW s \in Sources
        PROVE  /\ Sources = {s}
               /\ resolved.token = Secret(s) /\ resolved.token # {}
               /\ s \in {"env", "file"} => resolved.token \notin {{}, {""}}
    <3>1. Sources = {s} BY <2>2, <2>3, OnlySource
    <3>2. s \in {"literal", "env", "file"} BY <2>2
    <3>3. CASE s = "literal"
      <4>1. resolved.token = conf.literal BY <2>2, <2>3, <3>1, <3>3 DEF ResolveControlToken
      <4>2. conf.literal # {} BY <1>2, <2>1, <2>2, <3>3, WorldsAssumption DEF InForce
      <4> QED BY <2>1, <3>1, <3>3, <4>1, <4>2 DEF Secret
    <3>4. CASE s = "env"
      <4>1. /\ "literal" \notin conf.sources /\ "env" \in conf.sources
            /\ conf.sources # {}
        BY <2>2, <3>1, <3>4
      <4>2. resolved = IF world.env \ {""} = {} THEN Refused ELSE [ok |-> TRUE, token |-> world.env]
        BY <2>3, <4>1, Zenon DEF ResolveControlToken
      <4>3. CASE world.env \ {""} = {}
        <5>1. resolved = Refused BY <4>2, <4>3, Zenon
        <5>2. ~Refused.ok BY DEF Refused
        <5> QED BY <5>1, <5>2, Zenon
      <4>4. CASE world.env \ {""} # {}
        <5>0. resolved = [ok |-> TRUE, token |-> world.env] BY <4>2, <4>4, Zenon
        <5>1. resolved.token = world.env BY <5>0
        <5>2. world.env \notin {{}, {""}} BY <4>4
        <5>3. Secret(s) = world.env BY <3>4 DEF Secret
        <5> QED BY <3>1, <5>1, <5>2, <5>3
      <4> QED BY <4>3, <4>4
    <3>5. CASE s = "file"
      <4> DEFINE good == ValidKeyFile(world.key) /\ world.key.content \ {""} # {}
      <4>1. /\ "literal" \notin conf.sources /\ "env" \notin conf.sources
            /\ conf.sources # {}
        BY <2>2, <3>1, <3>5
      <4>2. resolved = IF good THEN [ok |-> TRUE, token |-> world.key.content] ELSE Refused
        BY <2>3, <4>1, Zenon DEF ResolveControlToken
      <4>3. CASE ~good
        <5>1. resolved = Refused BY <4>2, <4>3, Zenon
        <5>2. ~Refused.ok BY DEF Refused
        <5> QED BY <5>1, <5>2, Zenon
      <4>4. CASE good
        <5>0. resolved = [ok |-> TRUE, token |-> world.key.content] BY <4>2, <4>4, Zenon
        <5>1. resolved.token = world.key.content BY <5>0
        <5>2. world.key.content \notin {{}, {""}} BY <4>4
        <5>3. Secret(s) = world.key.content BY <3>5 DEF Secret
        <5> QED BY <3>1, <5>1, <5>2, <5>3
      <4> QED BY <4>3, <4>4
    <3> QED BY <3>2, <3>3, <3>4, <3>5
  <2> QED BY <2>4, <2>5
<1> QED BY <1>1, <1>2, Loaded DEF InForce

\* The policy table names, for each path, the methods its handler takes.
LEMMA Table ==
    ASSUME NEW p \in DOMAIN POLICY
    PROVE  /\ POLICY[p].methods = Handlers(p)
           /\ POLICY[p].scope # "admin"
           /\ POLICY[p].auth = "public" <=> p = "/healthz"
           /\ POLICY[p].query_token_compat <=> p = "/v1/ensure/stream"
<1>1. p \in {"/healthz", "/v1/models", "/v1/status", "/v1/chat/completions",
            "/v1/ensure", "/v1/ensure/stream"}
  BY DEF POLICY
<1>2. CASE p = "/healthz" BY <1>2 DEF POLICY, Row, Handlers
<1>3. CASE p \in {"/v1/chat/completions", "/v1/ensure"} BY <1>3 DEF POLICY, Row, Handlers
<1>4. CASE p = "/v1/ensure/stream" BY <1>4 DEF POLICY, Row, Handlers
<1>5. CASE p \in {"/v1/models", "/v1/status"} BY <1>5 DEF POLICY, Row, Handlers
<1> QED BY <1>1, <1>2, <1>3, <1>4, <1>5

\* What serves has the token of the one source there is, and the flag of the file.
LEMMA Serving ==
    ASSUME TypeOK, AsResolved, phase = "serving"
    PROVE  /\ Sources = {} => token = {}
           /\ \A s \in Sources : token = Secret(s) /\ token # {}
           /\ Sources # {} => allow_query = InForce.conf.allow_query
<1>1. world \in Worlds BY DEF TypeOK
<1>2. /\ Sources = {} => token = {}
      /\ \A s \in Sources : token = Secret(s) /\ token # {}
  BY <1>1, Resolved DEF AsResolved
<1>3. ASSUME Sources # {} PROVE allow_query = InForce.conf.allow_query
  <2>1. InForce.kind = "config" BY <1>3 DEF Sources
  <2>2. Load(world).conf = InForce.conf BY <1>1, <2>1, Loaded DEF AsResolved, InForce
  <2> QED BY <2>2 DEF AsResolved
<1> QED BY <1>2, <1>3

\* The layer lets through just the requests that the file in force entitles.
LEMMA Exact ==
    ASSUME TypeOK, AsResolved, phase = "serving", NEW r \in Requests
    PROVE  /\ Verdict(r) \in {"pass", "not_supported", "auth_required"}
           /\ Verdict(r) = "pass" <=> Entitled(r)
<1>1. CASE r.path \notin DOMAIN POLICY
  <2>1. Handlers(r.path) = {} BY <1>1 DEF Handlers, POLICY
  <2> QED BY <1>1, <2>1 DEF Verdict, Entitled
<1>2. CASE r.path \in DOMAIN POLICY
  <2> DEFINE row == POLICY[r.path]
             matched == \/ Matches(r.bearer)
                        \/ /\ row.query_token_compat /\ allow_query
                           /\ r.method = "GET" /\ Matches(QueryToken(r.query))
  <2>1. /\ row.methods = Handlers(r.path) /\ row.scope # "admin"
        /\ row.auth = "public" <=> r.path = "/healthz"
        /\ row.query_token_compat <=> r.path = "/v1/ensure/stream"
    BY <1>2, Table
  <2>2. Verdict(r) = IF r.method \notin Handlers(r.path) THEN "not_supported"
                     ELSE IF r.path = "/healthz" \/ token = {} THEN "pass"
                     ELSE IF matched THEN "pass" ELSE "auth_required"
    <3> HIDE DEF row
    <3> QED BY <1>2, <2>1 DEF Verdict, Decide, row
  <2>3. token = {} <=> Sources = {} BY Serving
  <2>4. ASSUME Sources # {} PROVE matched <=> Carries(r)
    <3>1. PICK s \in Sources : TRUE BY <2>4
    <3>2. \A x \in Sources : Secret(x) = token BY Serving
    <3>3. allow_query = InForce.conf.allow_query BY <2>4, Serving
    <3> QED BY <2>1, <3>1, <3>2, <3>3 DEF Carries, Matches
  <2> QED BY <2>2, <2>3, <2>4 DEF Entitled
<1> QED BY <1>1, <1>2

------------------------------------------------------------------------------
(* What is left of a query.                                                *)

\* A set of numbers that is not empty has a least one.
LEMMA Least ==
    ASSUME NEW T, T \subseteq Nat, T # {}
    PROVE  \E x \in T : \A y \in T : x <= y
<1> DEFINE Less == {p \in Nat \X Nat : p[1] < p[2]}
<1>1. OpToRel(<, Nat) = Less
  BY DEF OpToRel
<1>2. IsWellFoundedOn(Less, Nat)
  BY <1>1, NatLessThanWellFounded
<1>3. PICK x \in T : \A y \in T : <<y, x>> \notin Less
  BY <1>2, WFMin
<1>4. \A y \in T : y \in Nat /\ x \in Nat /\ ~(y < x)
  BY <1>3
<1> QED
  BY <1>3, <1>4

\* Induction up to a bound: what holds of 0, and of n if it does of n - 1.
LEMMA UpTo ==
    ASSUME NEW N \in Nat, NEW T, 0 \in T, \A n \in 1..N : n - 1 \in T => n \in T
    PROVE  0..N \subseteq T
<1> SUFFICES ASSUME 0..N \ T # {} PROVE FALSE
  OBVIOUS
<1> DEFINE R == 0..N \ T
<1>1. R \subseteq Nat /\ R # {}
  OBVIOUS
<1>2. PICK x \in R : \A y \in R : x <= y
  <2> HIDE DEF R
  <2> QED
    BY <1>1, Least
<1>3. x \in 1..N /\ x - 1 \in 0..N
  BY <1>2
<1>4. x - 1 \in T
  BY <1>2, <1>3
<1> QED
  BY <1>2, <1>3, <1>4

Params == [name : STRING, value : STRING]

\* The parameters among the first n that are no tokens.
Others(query, n) == {i \in 1..n : query[i].name # "token"}

\* f has what is kept of each part of the query.
Keeps(query, f) ==
    /\ f[0] = <<>>
    /\ \A n \in 1..Len(query) :
          f[n] = IF query[n].name = "token" THEN f[n - 1] ELSE Append(f[n - 1], query[n])

\* What strip_query_token keeps adds up, parameter by parameter.
LEMMA Stripped ==
    ASSUME NEW query \in Seq(Params)
    PROVE  \E f : Keeps(query, f) /\ StripQueryToken(query) = f[Len(query)]
<1> DEFINE Goes(before, n) == IF IsToken(query[n]) THEN before ELSE Append(before, query[n])
           Summed(f, k) == f = [n \in 0..k |-> IF n = 0 THEN <<>> ELSE Goes(f[n - 1], n)]
           T == {k \in 0..Len(query) : \E f : Summed(f, k)}
<1>0. Len(query) \in Nat
  OBVIOUS
<1> DEFINE F == CHOOSE f : Summed(f, Len(query))
<1>5. StripQueryToken(query) = F[Len(query)]
  BY DEF StripQueryToken
<1> HIDE DEF Goes, F
<1>1. \E f : Summed(f, 0)
  <2>1. Summed([n \in 0..0 |-> <<>>], 0)
    OBVIOUS
  <2> QED
    BY <2>1
<1>2. ASSUME NEW k \in 1..Len(query), NEW f, Summed(f, k - 1) PROVE \E g : Summed(g, k)
  <2> DEFINE g == [n \in 0..k |-> IF n = k THEN Goes(f[k - 1], k) ELSE f[n]]
  <2>1. ASSUME NEW n \in 0..k
        PROVE  g[n] = IF n = 0 THEN <<>> ELSE Goes(g[n - 1], n)
    <3>1. CASE n = k
      BY <3>1
    <3>2. CASE n # k
      <4>1. n \in 0..k - 1 /\ (n # 0 => n - 1 \in 0..k /\ n - 1 # k)
        BY <3>2
      <4>2. f[n] = IF n = 0 THEN <<>> ELSE Goes(f[n - 1], n)
        BY <1>2, <4>1
      <4> QED
        BY <3>2, <4>1, <4>2
    <3> QED
      BY <3>1, <3>2
  <2>2. Summed(g, k)
    BY <2>1
  <2> QED
    BY <2>2
<1>3. \E f : Summed(f, Len(query))
  <2> HIDE DEF Summed
  <2>1. 0 \in T /\ \A k \in 1..Len(query) : k - 1 \in T => k \in T
    BY <1>0, <1>1, <1>2
  <2>2. 0..Len(query) \subseteq T
    <3> HIDE DEF T
    <3> QED
      BY <1>0, <2>1, UpTo
  <2>3. Len(query) \in T
    BY <1>0, <2>2
  <2> QED
    BY <2>3
<1>4. Summed(F, Len(query))
  BY <1>3 DEF F
<1>6. F[0] = <<>>
  BY <1>0, <1>4
<1>7. ASSUME NEW n \in 1..Len(query)
      PROVE  F[n] = IF query[n].name = "token" THEN F[n - 1] ELSE Append(F[n - 1], query[n])
  <2>1. n \in 0..Len(query) /\ n # 0
    BY <1>0
  <2>2. F[n] = Goes(F[n - 1], n)
    BY <1>4, <2>1
  <2> QED
    BY <2>2 DEF Goes, IsToken
<1> QED
  BY <1>5, <1>6, <1>7 DEF Keeps

\* One more parameter is one more of the others, or is not; and each of the others has
\* its place among them.
LEMMA OthersCount ==
    ASSUME NEW query \in Seq(Params), NEW n \in 0..Len(query)
    PROVE  /\ Others(query, 0) = {} /\ Cardinality(Others(query, 0)) = 0
           /\ Cardinality(Others(query, n)) \in Nat
           /\ n # 0 /\ query[n].name = "token" => Others(query, n) = Others(query, n - 1)
           /\ n # 0 /\ query[n].name # "token" =>
                /\ Others(query, n) = Others(query, n - 1) \cup {n}
                /\ Cardinality(Others(query, n)) = Cardinality(Others(query, n - 1)) + 1
           /\ \A i \in Others(query, n) :
                Cardinality(Others(query, i)) \in 1..Cardinality(Others(query, n))
<1>1. ASSUME NEW k \in Nat
      PROVE  IsFiniteSet(Others(query, k)) /\ Cardinality(Others(query, k)) \in Nat
  <2>1. IsFiniteSet(1..k)
    BY FS_Interval
  <2>2. Others(query, k) \subseteq 1..k
    BY DEF Others
  <2> QED
    BY <2>1, <2>2, FS_Subset, FS_CardinalityType
<1>2. Others(query, 0) = {} /\ Cardinality(Others(query, 0)) = 0
  <2>1. Others(query, 0) = {}
    BY DEF Others
  <2> QED
    BY <2>1, FS_EmptySet
<1>3. n # 0 /\ query[n].name = "token" => Others(query, n) = Others(query, n - 1)
  BY DEF Others
<1>4. ASSUME n # 0, query[n].name # "token"
      PROVE  /\ Others(query, n) = Others(query, n - 1) \cup {n}
             /\ Cardinality(Others(query, n)) = Cardinality(Others(query, n - 1)) + 1
  <2>1. Others(query, n) = Others(query, n - 1) \cup {n} /\ n \notin Others(query, n - 1)
    BY <1>4 DEF Others
  <2>2. n - 1 \in Nat
    BY <1>4
  <2> QED
    BY <1>1, <2>1, <2>2, FS_AddElement
<1>5. ASSUME NEW i \in Others(query, n)
      PROVE  Cardinality(Others(query, i)) \in 1..Cardinality(Others(query, n))
  <2>1. /\ i \in Nat /\ i \in Others(query, i)
        /\ Others(query, i) \subseteq Others(query, n)
    BY DEF Others
  <2>2. Cardinality(Others(query, i)) <= Cardinality(Others(query, n))
    BY <1>1, <2>1, FS_Subset
  <2>3. Cardinality(Others(query, i)) # 0
    BY <1>1, <2>1, FS_EmptySet
  <2> QED
    BY <1>1, <2>1, <2>2, <2>3
<1> QED
  BY <1>1, <1>2, <1>3, <1>4, <1>5, SMTT(30)

\* strip_query_token takes out all tokens and nothing else, and keeps the order.
LEMMA StripRedacts ==
    ASSUME NEW query \in Seq(Params)
    PROVE  Redacts(StripQueryToken(query), query)
<1>1. PICK F : Keeps(query, F) /\ StripQueryToken(query) = F[Len(query)]
  BY Stripped
<1> DEFINE Good(n) == /\ F[n] \in Seq(Params)
                      /\ \A i \in 1..Len(F[n]) : F[n][i].name # "token"
                      /\ Len(F[n]) = Cardinality(Others(query, n))
                      /\ \A i \in Others(query, n) : F[n][Cardinality(Others(query, i))] = query[i]
           T == {n \in 0..Len(query) : Good(n)}
<1>0. Len(query) \in Nat
  OBVIOUS
<1>2. Good(0)
  <2>1. F[0] = <<>>
    BY <1>1 DEF Keeps
  <2>2. 0 \in 0..Len(query)
    BY <1>0
  <2>3. Others(query, 0) = {} /\ Cardinality(Others(query, 0)) = 0
    BY <2>2, OthersCount
  <2> QED
    BY <2>1, <2>3
<1>3. ASSUME NEW n \in 1..Len(query), Good(n - 1) PROVE Good(n)
  <2>0. n \in 0..Len(query) /\ n - 1 \in 0..Len(query) /\ n # 0 /\ query[n] \in Params
    BY <1>0
  <2> DEFINE b == F[n - 1]
  <2>1. b \in Seq(Params) /\ Len(b) \in Nat
    BY <1>3
  <2>2. CASE query[n].name = "token"
    <3>1. F[n] = b
      BY <1>1, <2>2 DEF Keeps
    <3>2. Others(query, n) = Others(query, n - 1)
      BY <2>0, <2>2, OthersCount
    <3> QED
      BY <1>3, <3>1, <3>2
  <2>3. CASE query[n].name # "token"
    <3>1. F[n] = Append(b, query[n])
      BY <1>1, <2>3 DEF Keeps
    <3>2. /\ Others(query, n) = Others(query, n - 1) \cup {n}
          /\ Cardinality(Others(query, n)) = Cardinality(Others(query, n - 1)) + 1
      BY <2>0, <2>3, OthersCount
    <3>3. /\ Len(b) = Cardinality(Others(query, n - 1))
          /\ \A i \in 1..Len(b) : b[i].name # "token"
          /\ \A i \in Others(query, n - 1) :
                /\ b[Cardinality(Others(query, i))] = query[i]
                /\ Cardinality(Others(query, i)) \in 1..Cardinality(Others(query, n - 1))
      BY <1>3, <2>0, OthersCount
    <3> HIDE DEF b
    <3>4. F[n] \in Seq(Params) /\ Len(F[n]) = Len(b) + 1 /\ F[n][Len(b) + 1] = query[n]
          /\ \A i \in 1..Len(b) : F[n][i] = b[i]
      BY <2>0, <2>1, <3>1
    <3>5. Len(F[n]) = Cardinality(Others(query, n))
      BY <3>2, <3>3, <3>4
    <3>6. \A i \in 1..Len(F[n]) : F[n][i].name # "token"
      BY <2>1, <2>3, <3>3, <3>4
    <3>7. ASSUME NEW i \in Others(query, n)
          PROVE  F[n][Cardinality(Others(query, i))] = query[i]
      <4>1. CASE i = n
        BY <3>2, <3>3, <3>4, <4>1
      <4>2. CASE i # n
        <5>1. i \in Others(query, n - 1)
          BY <3>2, <4>2
        <5> QED
          BY <3>3, <3>4, <5>1
      <4> QED
        BY <4>1, <4>2
    <3> QED
      BY <3>4, <3>5, <3>6, <3>7
  <2> QED
    BY <2>2, <2>3
<1>4. Good(Len(query))
  <2> HIDE DEF Good
  <2>1. 0 \in T /\ \A n \in 1..Len(query) : n - 1 \in T => n \in T
    BY <1>0, <1>2, <1>3
  <2>2. 0..Len(query) \subseteq T
    <3> HIDE DEF T
    <3> QED
      BY <1>0, <2>1, UpTo
  <2> QED
    BY <1>0, <2>2
<1> DEFINE seen == StripQueryToken(query)
           others == {i \in DOMAIN query : query[i].name # "token"}
<1>5. seen = F[Len(query)]
  BY <1>1
<1>6. others = Others(query, Len(query))
  BY DEF Others
<1>7. \A i \in others : {j \in others : j <= i} = Others(query, i)
  BY DEF Others
<1> HIDE DEF seen, others
<1>8. /\ \A i \in DOMAIN seen : seen[i].name # "token"
      /\ Len(seen) = Cardinality(others)
      /\ \A i \in others : seen[Cardinality({j \in others : j <= i})] = query[i]
  <2>1. \A i \in DOMAIN seen : seen[i].name # "token"
    BY <1>4, <1>5
  <2>2. Len(seen) = Cardinality(others)
    BY <1>4, <1>5, <1>6
  <2>3. ASSUME NEW i \in others
        PROVE  seen[Cardinality({j \in others : j <= i})] = query[i]
    <3>1. seen[Cardinality(Others(query, i))] = query[i]
      BY <1>4, <1>5, <1>6
    <3> QED
      BY <1>7, <3>1, Zenon
  <2> QED
    BY <2>1, <2>2, <2>3
<1> QED
  BY <1>8 DEF Redacts, seen, others

\* The token is one secret.
LEMMA OneToken ==
    ASSUME TypeOK, AsResolved, phase = "serving"
    PROVE  AtMostOne(token)
<1>1. CASE Sources = {}
  BY <1>1, Serving DEF AtMostOne
<1>2. CASE Sources # {}
  <2>1. PICK s \in Sources : TRUE
    BY <1>2
  <2>2. token = Secret(s)
    BY Serving
  <2>3. InForce.kind = "config" /\ s \in InForce.conf.sources
    BY DEF Sources
  <2>4. /\ AtMostOne(world.env) /\ AtMostOne(world.key.content) /\ AtMostOne(InForce.conf.literal)
        /\ s \in {"literal", "env", "file"}
    BY <2>3, WorldsAssumption DEF TypeOK, InForce
  <2> QED
    BY <2>2, <2>4 DEF Secret
<1> QED
  BY <1>1, <1>2

\* So the query matches just if the first token in it is that one.
LEMMA MatchIsEqual ==
    ASSUME AtMostOne(token), NEW query
    PROVE  Matches(QueryToken(query)) <=> token # {} /\ QueryToken(query) = token
<1>1. QueryToken(query) = {} \/ \E v : QueryToken(query) = {v}
  BY Zenon DEF QueryToken
<1> QED
  BY <1>1 DEF Matches, AtMostOne

------------------------------------------------------------------------------
(* The steps.                                                              *)

\* What a step that keeps the setup and the last request keeps.
LEMMA Unchanged ==
    ASSUME UNCHANGED <<world, phase, token, allow_query>>
    PROVE  /\ AsResolved => AsResolved'
           /\ StartsAsConfigured => StartsAsConfigured'
           /\ \A r : Entitled(r)' <=> Entitled(r)
           /\ UNCHANGED last /\ GateIsExact => GateIsExact'
           /\ UNCHANGED last /\ NoTokenDownstream => NoTokenDownstream'
<1>1. InForce' = InForce /\ Sources' = Sources /\ \A s : Secret(s)' = Secret(s)
  BY DEF InForce, Sources, Secret
<1>2. AsResolved => AsResolved' BY DEF AsResolved
<1>3. StartsAsConfigured => StartsAsConfigured' BY <1>1 DEF StartsAsConfigured
<1>4. \A r : Entitled(r)' <=> Entitled(r) BY <1>1 DEF Entitled, Carries
<1>5. UNCHANGED last /\ GateIsExact => GateIsExact' BY <1>4 DEF GateIsExact
<1>6. UNCHANGED last /\ NoTokenDownstream => NoTokenDownstream' BY DEF NoTokenDownstream
<1> QED BY <1>2, <1>3, <1>4, <1>5, <1>6

\* Nothing is served, asked or logged yet.
LEMMA Initially == Init => IndInv
<1> SUFFICES ASSUME Init PROVE IndInv
  OBVIOUS
<1>1. Second \in Nat BY GateAssumption
<1>2. age \in [Peers -> 0..Second] /\ quiet = age BY <1>1 DEF Init
<1>3. phase = "start" /\ token = {} /\ last = {} /\ line = {} BY DEF Init
<1>4. TypeOK BY <1>2, <1>3 DEF Init, TypeOK
<1>5. AsResolved /\ StartsAsConfigured BY <1>3 DEF AsResolved, StartsAsConfigured
<1>6. GateIsExact /\ NoTokenDownstream BY <1>3 DEF GateIsExact, NoTokenDownstream
<1> QED BY <1>2, <1>3, <1>4, <1>5, <1>6 DEF IndInv

\* main() resolves the token once, and the layer only reads it.
LEMMA Inductive == IndInv /\ [Next]_vars => IndInv'
<1> SUFFICES ASSUME IndInv, [Next]_vars PROVE IndInv'
  OBVIOUS
<1>0. TypeOK /\ AsResolved /\ StartsAsConfigured /\ GateIsExact /\ NoTokenDownstream
  BY DEF IndInv
<1>1. CASE Start
  <2> DEFINE loaded == Load(world)
             resolved == ResolveControlToken(loaded.conf, world)
  <2>1. phase = "start" /\ last = {} /\ token = {} /\ world \in Worlds
    BY <1>1 DEF Start, IndInv, TypeOK
  <2>2. UNCHANGED <<world, age, last, line, quiet>> BY <1>1 DEF Start
  <2>3. CASE ~loaded.ok \/ ~resolved.ok
    <3>1. phase' = "refused" /\ UNCHANGED <<token, allow_query>> BY <1>1, <2>3 DEF Start
    <3> QED BY <1>0, <2>1, <2>2, <3>1
      DEF IndInv, TypeOK, AsResolved, StartsAsConfigured, GateIsExact, NoTokenDownstream
  <2>4. CASE loaded.ok /\ resolved.ok
    <3>1. /\ phase' \in {"serving", "unbound"}
          /\ token' = resolved.token /\ allow_query' = loaded.conf.allow_query
      BY <1>1, <2>4 DEF Start
    <3>2. \/ InForce.kind = "config" /\ Valid(InForce.conf) /\ loaded.conf = InForce.conf
          \/ InForce.kind = "absent" /\ ~world.flag /\ loaded.conf = DefaultConf
      BY <2>1, <2>4, Loaded DEF InForce
    <3>3. allow_query' \in BOOLEAN
      <4>1. InForce.kind = "config" => InForce.conf.allow_query \in BOOLEAN
        BY <2>1, WorldsAssumption DEF InForce
      <4>2. DefaultConf.allow_query = FALSE BY DEF DefaultConf
      <4> QED BY <3>1, <3>2, <4>1, <4>2
    <3>4. /\ Sources = {} => resolved.token = {}
          /\ \A s \in Sources :
               /\ resolved.token = Secret(s)
               /\ s \in {"env", "file"} => resolved.token \notin {{}, {""}}
               /\ Sources = {s}
      BY <2>1, <2>4, Resolved
    <3>5. InForce' = InForce /\ Sources' = Sources /\ \A s : Secret(s)' = Secret(s)
      BY <2>2 DEF InForce, Sources, Secret
    <3>6. TypeOK' BY <1>0, <2>1, <2>2, <3>1, <3>3 DEF TypeOK
    <3>7. AsResolved' BY <2>2, <2>4, <3>1 DEF AsResolved
    <3>8. StartsAsConfigured'
      BY <2>2, <3>1, <3>2, <3>4, <3>5 DEF StartsAsConfigured
    <3>9. GateIsExact' /\ NoTokenDownstream' BY <2>1, <2>2 DEF GateIsExact, NoTokenDownstream
    <3> QED BY <2>1, <2>2, <3>1, <3>6, <3>7, <3>8, <3>9 DEF IndInv
  <2> QED BY <2>3, <2>4
<1>2. CASE Tick
  <2>1. UNCHANGED <<world, phase, token, allow_query, last>> /\ line' = {} BY <1>2 DEF Tick
  <2>2. age' = quiet' /\ age' \in [Peers -> 0..Second]
    BY <1>0, <1>2, GateAssumption DEF Tick, IndInv, TypeOK, Older
  <2>3. TypeOK' BY <1>0, <2>1, <2>2 DEF TypeOK
  <2> QED BY <1>0, <2>1, <2>2, <2>3, Unchanged DEF IndInv
<1>3. ASSUME NEW r \in Requests, Request(r) PROVE IndInv'
  <2>1. phase = "serving" /\ UNCHANGED <<world, phase, token, allow_query>>
    BY <1>3 DEF Request
  <2>2. /\ Verdict(r) \in {"pass", "not_supported", "auth_required"}
        /\ Verdict(r) = "pass" <=> Entitled(r)
    BY <1>0, <2>1, Exact
  <2>3. \A l \in last' : l.request = r /\ l.verdict = Verdict(r) BY <1>3 DEF Request
  <2>4. /\ line' \subseteq Peers
        /\ age' = [p \in Peers |-> IF p \in line' THEN 0 ELSE age[p]]
    <3>1. r.peer \in Peers /\ age \in [Peers -> 0..Second]
      BY <1>0, GateAssumption DEF TypeOK
    <3> QED BY <1>3, <3>1 DEF Request, LogFailure
  <2>5. age' = quiet' BY <1>3, <2>4 DEF Request, IndInv
  <2>6. age' \in [Peers -> 0..Second] BY <1>0, <2>4, GateAssumption DEF TypeOK
  <2>7. TypeOK' BY <1>0, <2>1, <2>2, <2>3, <2>4, <2>5, <2>6 DEF TypeOK
  <2>8. AsResolved' /\ StartsAsConfigured' BY <1>0, <2>1, Unchanged
  <2>9. GateIsExact'
    <3>1. Entitled(r)' <=> Entitled(r) BY <2>1, Unchanged
    <3>2. \A l \in last' : l.verdict = "pass" <=> Entitled(l.request)' BY <2>2, <2>3, <3>1
    <3> QED BY <3>2 DEF GateIsExact
  <2>10. NoTokenDownstream'
    <3> DEFINE redacted == Verdict(r) = "pass" /\ Matches(QueryToken(r.query))
    <3>1. \A l \in last' :
             l.seen = IF redacted THEN StripQueryToken(r.query) ELSE r.query
      BY <1>3 DEF Request
    <3>2. Matches(QueryToken(r.query)) <=> token # {} /\ QueryToken(r.query) = token
      BY <1>0, <2>1, OneToken, MatchIsEqual
    <3>3. Redacts(StripQueryToken(r.query), r.query)
      BY GateAssumption, StripRedacts DEF Params
    <3>4. token' = token /\ QueryToken(r.query)' = QueryToken(r.query) BY <2>1
    <3> QED BY <2>3, <3>1, <3>2, <3>3, <3>4 DEF NoTokenDownstream
  <2> QED BY <2>1, <2>5, <2>7, <2>8, <2>9, <2>10 DEF IndInv
<1>4. CASE UNCHANGED vars
  BY <1>0, <1>4, Unchanged DEF IndInv, TypeOK, vars, gateVars
<1> QED BY <1>1, <1>2, <1>3, <1>4 DEF Next

\* TypeOK is an invariant: in particular no verdict is "forbidden" and no time is
\* beyond a second.
THEOREM TypeCorrect == Spec => []TypeOK
BY Initially, Inductive, PTL DEF Spec, IndInv

\* The daemon starts with what the file in force says, or not at all.
THEOREM AsConfigured == Spec => []StartsAsConfigured
BY Initially, Inductive, PTL DEF Spec, IndInv

\* Requests reach a handler just if the configuration entitles them to.
THEOREM ExactGate == Spec => []GateIsExact
BY Initially, Inductive, PTL DEF Spec, IndInv

\* A query that carried the token reaches its handler without any token, and with all
\* else that was in it, in its order; any other query reaches it as it is.
THEOREM TokenRedacted == Spec => []NoTokenDownstream
BY Initially, Inductive, PTL DEF Spec, IndInv

\* A line for a peer is logged only if the last one is a second old.
THEOREM RateLimited == Spec => OneLinePerSecond
<1> DEFINE Limited == <<line, last>>' # <<line, last>> => \A p \in line' : quiet[p] = Second
<1>1. ASSUME IndInv, [Next]_vars PROVE [Limited]_vars
  <2>1. age = quiet /\ age \in [Peers -> 0..Second] BY <1>1 DEF IndInv, TypeOK
  <2>2. CASE Start BY <2>2 DEF Start
  <2>3. CASE Tick BY <2>3 DEF Tick
  <2>4. ASSUME NEW r \in Requests, Request(r) PROVE Limited
    <3>1. r.peer \in Peers BY GateAssumption
    <3>2. age[r.peer] < Second \/ age[r.peer] = Second BY <2>1, <3>1, GateAssumption
    <3> QED BY <2>1, <2>4, <3>1, <3>2, GateAssumption DEF Request, LogFailure
  <2> QED BY <1>1, <2>2, <2>3, <2>4 DEF Next
<1> QED BY <1>1, Initially, Inductive, PTL DEF Spec, OneLinePerSecond

\* A failure of a peer without a line for a second is logged.
THEOREM Surfacing == Spec => FailuresSurface
<1> DEFINE Surfaced ==
      \A l \in last' \ last :
          l.verdict = "auth_required" /\ quiet[l.request.peer] = Second
              => line' = {l.request.peer}
<1>1. ASSUME IndInv, [Next]_vars PROVE [Surfaced]_vars
  <2>1. age = quiet /\ Second \in Nat BY <1>1, GateAssumption DEF IndInv
  <2>2. CASE Start BY <2>2 DEF Start
  <2>3. CASE Tick BY <2>3 DEF Tick
  <2>4. ASSUME NEW r \in Requests, Request(r) PROVE Surfaced
    <3>1. \A l \in last' : l.request = r /\ l.verdict = Verdict(r) BY <2>4 DEF Request
    <3>2. Verdict(r) = "auth_required" => LogFailure(r.peer) BY <2>4 DEF Request
    <3>3. ~(Second < Second) BY <2>1
    <3> QED BY <2>1, <3>1, <3>2, <3>3 DEF LogFailure
  <2> QED BY <1>1, <2>2, <2>3, <2>4 DEF Next
<1> QED BY <1>1, Initially, Inductive, PTL DEF Spec, FailuresSurface

=============================================================================
