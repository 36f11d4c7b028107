-------------------------- MODULE ConfigurationMC --------------------------
(***************************************************************************)
(* Small inputs for Configuration: route tables, proxied requests,         *)
(* configured strings, journeys and scripts.                               *)
(***************************************************************************)
EXTENDS Configuration

-----------------------------------------------------------------------------
(***************************************************************************)
(* Inputs: route tables and requests.                                      *)
(***************************************************************************)
AEx == <<"a", "ex">>
BareRoute(uris, methods) ==
    [name |-> "r", uris |-> uris, methods |-> methods, policies |-> <<>>, rewrite |-> <<>>,
     upstream |-> [known |-> TRUE, parses |-> TRUE, url |-> "", path |-> <<>>, strip |-> {}, add |-> <<>>],
     layer |-> [strip |-> {}, add |-> <<>>]]

Routes == <<
    BareRoute(<<URI("https", AnyHost, <<Rest>>)>>, {}),
    BareRoute(<<URI("*", Under(<<"ex">>), <<Lit("a"), Param("p")>>)>>, {"GET"}),
    BareRoute(<<URI("https", Host(AEx), <<Lit("a"), Lit("b")>>)>>, {"POST"}),
    BareRoute(<<URI("*", Host(AEx), <<Param("p"), Lit("b")>>)>>, {"GET", "POST"}),
    BareRoute(<<URI("https", Under(<<"ex">>), <<Star, Lit("b")>>)>>, {"*"}),
    BareRoute(<<URI("https", Host(AEx), <<Lit("a"), Rest>>)>>, {"GET"}),
    BareRoute(<<URI("*", AnyHost, <<Param("p"), Param("p")>>)>>, {}),
    BareRoute(<<URI("*", AnyHost, <<Lit("a")>>), URI("*", Host(AEx), <<Lit("a"), Rest>>)>>, {"GET"}),
    BareRoute(<<URI("https", Host(AEx), <<Star>>)>>, {""}) >>

\* Routes for which the table is refused.
BadRoutes == {
    BareRoute(<<URI("*", AnyHost, <<Lit("a"), Rest, Lit("b")>>)>>, {}),
    BareRoute(<<>>, {}),
    BareRoute(<<URI("", AnyHost, <<Rest>>)>>, {}),
    BareRoute(<<URI("*", AnyHost, <<Lit("?")>>)>>, {}),
    [BareRoute(<<URI("*", AnyHost, <<Rest>>)>>, {}) EXCEPT !.name = ""],
    [BareRoute(<<URI("*", AnyHost, <<Rest>>)>>, {}) EXCEPT !.upstream.known = FALSE]}

Request(scheme, host, path, method) ==
    [scheme |-> scheme, host |-> host, path |-> path, method |-> method,
     headers |-> [h \in {} |-> ""], query |-> [h \in {} |-> ""],
     upstreamFails |-> FALSE, answer |-> {}, bodyType |-> "", readable |-> TRUE]

Paths == {<<"a">>, <<"a", "b">>, <<"c", "b">>, <<"a", "b", "c">>}
Requests ==
    {Request("https", host, path, method) :
        host \in {AEx, <<"ex">>, <<"b", "a", "ex">>},
        path \in Paths, method \in {"GET"}}
      \cup {Request("https", AEx, path, "POST") : path \in Paths}

MCRouteInputs ==
    {[kind |-> "route", routes |-> [i \in 1..3 |-> Routes[t[i]]], req |-> r] :
        t \in {u \in [1..3 -> DOMAIN Routes] : IsInjective(u)}, r \in Requests}
      \cup {[kind |-> "route", routes |-> <<good, bad>>, req |-> r] :
               good \in Range(Routes), bad \in BadRoutes, r \in Requests}
      \cup {[kind |-> "route", routes |-> <<bad, Routes[1]>>, req |-> r] : bad \in BadRoutes, r \in Requests}

-----------------------------------------------------------------------------
(***************************************************************************)
(* Inputs: what the proxy is configured with.                              *)
(***************************************************************************)
Layer(strip, add) == [strip |-> strip, add |-> add]
Layers == {Layer({}, <<>>), Layer({"X"}, <<>>), Layer({}, [X |-> "1"]), Layer({"X"}, [X |-> "2"]),
           Layer({}, [Upgrade |-> "h2"]), Layer({"Content-Type"}, <<>>)}
Policy(source, kind, name, values) ==
    [source |-> source, kind |-> kind, name |-> name, values |-> values]
PolicyLists ==
    {<<>>, <<Policy("header", "present", "X", {})>>, <<Policy("query", "equals", "q", {"1"})>>,
     <<Policy("header", "", "X", {}), Policy("query", "matches", "q", {"", "2"})>>,
     <<Policy("header", "unknown", "X", {})>>, <<Policy("header", "present", "", {})>>}
Headers == {[h \in {} |-> ""], [X |-> "0"], [Upgrade |-> "ws", X |-> "0"]}
Queries == {[h \in {} |-> ""], [q |-> "1"], [q |-> "2"]}
RewriteTemplate == <<Lit("up"), Param("p"), Lit("x"), [kind |-> "path", value |-> ""]>>
UpstreamURLs == {"", "https://up"}

ProxyCases ==
    [table : Layers, upstream : Layers, route : Layers, url : UpstreamURLs,
     policies : PolicyLists, headers : {[Upgrade |-> "ws", X |-> "0"] @@ ("Content-Type" :> "json")},
     query : {[q |-> "2"]}, base : {<<>>}, fails : {FALSE}, errors : {{}}]
    \cup
    [table : {Layer({}, [X |-> "1"])}, upstream : {Layer({}, <<>>)},
     route : {Layer({}, <<>>)}, url : UpstreamURLs, policies : PolicyLists, headers : Headers,
     query : Queries, base : {<<>>, << <<"https", AEx>>, <<"a">> >>}, fails : BOOLEAN, errors : {{}}]
    \cup
    [table : {Layer({}, <<>>)}, upstream : {Layer({}, <<>>)}, route : {Layer({}, <<>>)}, url : UpstreamURLs,
     policies : PolicyLists, headers : {[X |-> "0"]}, query : {[q |-> "2"]},
     base : {<<>>, << <<"https", AEx>>, <<"a">> >>, << <<"", AEx>>, <<"a">> >>}, fails : {FALSE},
     errors : SUBSET {"save", "upstream", "body", "table"}]

ProxyTable(c) ==
    [hop |-> {"Upgrade"}, layer |-> c.table,
     routes |-> <<[BareRoute(<<URI("https", Host(AEx), <<Lit("a"), Param("p")>>)>>, {})
                    EXCEPT !.name = IF "table" \in c.errors THEN "" ELSE @, !.policies = c.policies, !.layer = c.route,
                           !.rewrite = RewriteTemplate,
                           !.upstream = [known |-> TRUE, parses |-> "upstream" \notin c.errors,
                                         url |-> c.url, path |-> <<"v 1">>,
                                         strip |-> c.upstream.strip, add |-> c.upstream.add]]>>]
\* The rewrite of the step turns "/old/b c" into "/a/b c"; with a base of /a it is left out.
ProxyConfig(c) ==
    [base |-> c.base, copyHeaders |-> TRUE, savable |-> "save" \notin c.errors,
     rewrites |-> IF c.base = <<>> THEN (<<"old">> :> <<"a">> @@ <<>> :> <<"none">>)
                  ELSE (<<"old", "b c">> :> <<"b c">>)]
ProxyRequest(c) ==
    [Request("https", AEx, <<"old", "b c">>, "GET")
        EXCEPT !.headers = c.headers, !.readable = "body" \notin c.errors,
               !.bodyType = IF "Content-Type" \in DOMAIN c.headers THEN c.headers["Content-Type"] ELSE "", !.query = c.query, !.upstreamFails = c.fails,
               !.answer = {"Upgrade", "Content-Length", "ETag"}]
MCEscapedAs == ("b c" :> "b%20c") @@ ("b%20c" :> "b%2520c") @@ ("v 1" :> "v%201")
MCProxyInputs ==
    {[kind |-> "proxy", table |-> ProxyTable(c), config |-> ProxyConfig(c), req |-> ProxyRequest(c)] :
        c \in ProxyCases}

-----------------------------------------------------------------------------
(***************************************************************************)
(* Inputs: configured strings, put together from up to three pieces.       *)
(***************************************************************************)
Placeholder(prefix, path) == <<Open, prefix, Dot, path, Close>>
Pieces == {<<"t">>, <<"7">>, <<Open>>, <<Close>>, <<Open, "ctx", Close>>,
           Placeholder("ctx", "x"), Placeholder("ctx", "o"), Placeholder("vault", "k"),
           Placeholder("nope", "k"), Placeholder("env", "e"), Placeholder("env", "p"),
           Placeholder("env", "u"), Placeholder("env", "z"), Placeholder("env", "i"),
           Placeholder("env", "q"), Placeholder("7", "k"), <<Open, "ctx", Dot>> \o Placeholder("env", "n") \o <<Close>>}
Values(n) == {FlattenSeq(s) : s \in SeqOf(Pieces, n)}
\* Three pieces: text, broken brackets, and one placeholder of each fate.
LongValues == {FlattenSeq(s) : s \in [1..3 -> {<<"t">>, <<Open>>, <<Close>>, Placeholder("ctx", "x"),
                   Placeholder("vault", "k"), Placeholder("nope", "k"), Placeholder("env", "p"),
                   Placeholder("env", "u"), Placeholder("env", "z")}]}

Int7 == [type |-> "int", value |-> "7"]
Object == [type |-> "object", value |-> "map"]
MCEnvironment == (<<"e">> :> Str(<<"t">>)) @@ (<<"p">> :> Str(Placeholder("ctx", "x"))) @@ (<<"u">> :> Str(<<Open>>))
         @@ (<<"z">> :> Nil) @@ (<<"i">> :> Int7) @@ (<<"n">> :> Str(<<"x">>))
MCContexts == [ctx |-> (<<"x">> :> Int7) @@ (<<"o">> :> Object)]
MCResolvers == [vault |-> Str(<<"7">>), none |-> Nil, down |-> Bad("resolver")]
MCLiterals == ("7" :> "int")
MCSymbols == {Open, Close, Dot, "t", "7", "ctx", "x", "o", "vault", "k", "none", "nope", "down", "env",
              "e", "p", "u", "z", "i", "n", "q", "map", "<nil>"}

MCFieldTypes == << "Step", <<"int">> >> :> "int" @@ << "Step", <<"text">> >> :> "string"
                  @@ << "Step", <<"object">> >> :> "object"
MCIdentifiers == MCSymbols \ {Open, Close, Dot, "7", "<nil>"}
MCSchemaAccepts(type, props) == <<"odd">> \notin DOMAIN props
MCVerifyAccepts(type, props) == type = "Form" => <<"inputs">> \in DOMAIN props
MCBuiltIn == {"Form", "End", "Chain", "AsyncWait", "SubJourney"}
MCFlowTypes == [Step |-> {"auth", "resource"}, Form |-> {"auth"}, End |-> {"workflow"},
                Chain |-> {"auth", "resource", "workflow"}, AsyncWait |-> {"auth", "workflow"},
                SubJourney |-> {"auth"}, Old |-> {}]

NodeOf(type, props, declared) == [type |-> type, props |-> props, vars |-> declared]
NoProps == [p \in {} |-> Nil]
NoVars == [p \in {} |-> ""]
Leaf(type, props, declared) == [outcomes |-> [o \in {} |-> ""], nodes |-> (<<>> :> NodeOf(type, props, declared))]

\* A Chain, or another step with steps inside.
Within(type, steps) ==
    LET places == UNION {{<<i>> \o at : at \in DOMAIN steps[i].nodes} : i \in DOMAIN steps}
    IN  [outcomes |-> [o \in {} |-> ""],
         nodes |-> (<<>> :> NodeOf(type, NoProps, NoVars))
                     @@ [at \in places |-> steps[at[1]].nodes[Tail(at)]]]
ChainOf(steps) == Within("Chain", steps)

\* The property, and the type its author declared for it.
Properties == {<< <<"any">>, "" >>, << <<"any">>, "int" >>, << <<"any">>, "odd" >>, << <<"int">>, "" >>,
               << <<"text">>, "" >>, << <<"object">>, "" >>, << <<"outcome", "true">>, "" >>,
               << <<"x", "vars", "y">>, "" >>, << <<"odd">>, "" >>}

\* A step with one property, alone or in a Chain; and one with two, both of which
\* may fail, beside another step.
Written1(value, property) ==
    Leaf("Step", property[1] :> Str(value),
         IF property[2] = "" THEN NoVars
         ELSE (property[1] :> [type |-> property[2], placeholders |-> <<>>]))
Two(v, w) == Leaf("Step", (<<"any">> :> Str(v)) @@ (<<"int">> :> Str(w)), NoVars)
Single == Pieces \cup {<<>>, <<Open, Close>>}
StepInput(step, at) == [kind |-> "step", step |-> step, at |-> at]
MCStepInputs ==
    {StepInput(Written1(v, << <<"any">>, "" >>), <<>>) : v \in LongValues}
      \cup {StepInput(Written1(v, p), <<>>) : v \in Values(2), p \in Properties}
      \cup {StepInput(ChainOf(<<Written1(v, p)>>), <<1>>) : v \in Single, p \in Properties}
      \cup {StepInput(ChainOf(<<Two(v, w), Written1(w, << <<"any">>, "" >>)>>), <<1>>) :
               v \in Single, w \in Single}

MCInstanceInputs ==
    {[kind |-> "instance", config |-> (<<"p">> :> Str(v)) @@ (<<"q">> :> Int7), resolvers |-> r] :
        v \in {FlattenSeq(t) : t \in SeqOf({<<"t">>, Placeholder("vault", "k"), Placeholder("none", "k"),
                   Placeholder("nope", "k"), Placeholder("ctx", "x"), Placeholder("down", "k"),
                   Placeholder("7", "k"), <<Open>>, <<Close>>, <<Dot, "k">>}, 3)},
        r \in {MCResolvers, [n \in {} |-> Nil]}}

-----------------------------------------------------------------------------
(***************************************************************************)
(* Inputs: journeys and scripts.                                           *)
(***************************************************************************)
Bare(type) == Leaf(type, NoProps, NoVars)
Broken == Leaf("Step", <<"any">> :> Str(<<Open>>), NoVars)
Asking == Leaf("Step", <<"any">> :> Str(Placeholder("ctx", "x") \o <<"t">> \o Placeholder("vault", "k")), NoVars)
FullForm == Leaf("Form", <<"inputs">> :> Str(<<"t">>), NoVars)
NoConfig(type) == Leaf(type, <<>> :> Nil, NoVars)
AnySteps == {Bare(t) : t \in {"Step", "Form", "End", "Old", "Unknown"}}
              \cup {FullForm, NoConfig("Form"), Leaf("Step", <<"odd">> :> Nil, NoVars)}
              \cup {Within(c, <<s>>) : c \in {"Chain", "AsyncWait"},
                       s \in {Bare("Step"), Bare("Form"), FullForm, NoConfig("Form"), Bare("SubJourney"), Broken}}
              \cup {ChainOf(<<Bare("Step"), ChainOf(<<FullForm>>)>>), ChainOf(<<Bare("Unknown")>>),
                    Within("AsyncWait", <<Bare("Step"), ChainOf(<<Asking>>)>>),
                    Within("AsyncWait", <<ChainOf(<<Bare("SubJourney")>>)>>),
                    Leaf("Chain", <<"steps">> :> Str(Placeholder("ctx", "x")), NoVars)}
MCJourneyInputs ==
    {[kind |-> "journey",
      journey |-> [type |-> type, start |-> start,
                   steps |-> [s1 |-> [first EXCEPT !.outcomes = ("true" :> target)], s2 |-> second]]] :
        type \in {"auth", "proxy-journey", "workflow", "else"}, start \in {"s1", "s3"},
        first \in AnySteps, second \in {Bare("Step"), FullForm, ChainOf(<<Broken>>)}, target \in {"", "s2", "s3"}}

MCCanon == ("ok" :> "ok") @@ ("OK" :> "ok") @@ ("no" :> "no") @@ (" " :> "") @@ ("" :> "")
MCCustomTypes == [report |-> TRUE]
ScriptTypes == {"journey", "auth", "workflow", "schedule", "library", "report", "missing"}
Provider(mode, describes, described, failing) ==
    [mode |-> mode, describes |-> describes, described |-> described, bound |-> {"args", "mine"},
     failing |-> failing]
Providers ==
    {Provider(mode, describes, {"mine"}, {}) : mode \in {"extend", "replace"}, describes \in BOOLEAN}
      \cup {Provider(mode, TRUE, {"mine", "more"}, {}) : mode \in {"extend", "replace"}}
      \cup {Provider("extend", TRUE, {"mine"}, {call}) : call \in {"describe", "bind"}}

MCScriptInputs ==
    [kind : {"script"}, type : ScriptTypes, declared : SeqOf({"ok", "OK", "no", " "}, 2),
     hasDeclared : {TRUE}, calls : SeqOf({"ok", "OK", "no", " "}, 2), catches : BOOLEAN, asks : BOOLEAN,
     outcomes : {("OK" :> "s1") @@ ("no" :> "s2")}]
    \cup
    [kind : {"script"}, type : ScriptTypes, declared : {<<>>}, hasDeclared : {FALSE},
     calls : SeqOf({"ok", "OK", "no", " "}, 2), catches : BOOLEAN, asks : BOOLEAN,
     outcomes : {("OK" :> "s1") @@ ("no" :> "s2")}]
ProviderTables ==
    UNION {[types -> Providers] : types \in {{}, {"default"}, {"auth"}, {"report"}, {"schedule"}, {"default", "auth"}}}
MCBindingInputs ==
    [kind : {"bindings"}, type : ScriptTypes \ {"missing"}, providers : ProviderTables, runBy : {"step"}]
      \cup [kind : {"bindings"}, type : {"schedule"}, providers : ProviderTables, runBy : {"schedule"}]
=============================================================================
