----------------------------- MODULE RouteTable -----------------------------
(***************************************************************************)
(* The HTTP route table (steps/http-route-table.instance.go) and the       *)
(* HTTPProxy step that uses it.  The URI patterns of all routes are kept   *)
(* in one tree per scheme and host; a lookup walks every branch that fits  *)
(* and leaves a branch out when the earliest route below it was declared   *)
(* after the best one found so far.                                        *)
(*                                                                         *)
(* A host is a sequence of labels, a path a sequence of segments.          *)
(***************************************************************************)
EXTENDS Integers, Sequences, FiniteSets, SequencesExt

CONSTANT EscapedAs  \* net/url: what becomes of the segments that need escaping in a URL

ASSUME EscapeAssumption == EscapedAs \in [DOMAIN EscapedAs -> STRING]

NoRef == [order |-> 0, uri |-> 0, params |-> <<>>]
NoMatch == [ref |-> NoRef, captures |-> <<>>, wildcard |-> <<>>]

\* The segments of a pattern: a literal, {name}, * and **.
Lit(s) == [kind |-> "literal", value |-> s]
Param(name) == [kind |-> "param", value |-> name]
Star == [kind |-> "wildcard", value |-> ""]
Rest == [kind |-> "rest", value |-> ""]

\* What a lookup carries along: the route a URI belongs to, and the best match.
RouteRefs == [order : Nat, uri : Nat, params : Seq(STRING)]
Matches == [ref : RouteRefs, captures : Seq(STRING), wildcard : Seq(STRING)]

\* Hosts of patterns: any, *.labels, labels.
AnyHost == [kind |-> "any", labels |-> <<>>]
Under(labels) == [kind |-> "wildcard", labels |-> labels]
Host(labels) == [kind |-> "exact", labels |-> labels]

URI(scheme, host, path) == [scheme |-> scheme, host |-> host, path |-> path]

-----------------------------------------------------------------------------
(***************************************************************************)
(* Compiling a table.  A node of the tree is named by the scheme and the   *)
(* host of its root and the segments that lead to it; parameters of        *)
(* different names share a node.                                           *)
(***************************************************************************)
Erased(token) == IF token.kind = "param" THEN Param("") ELSE token
Node(uri, n) == <<uri.scheme, uri.host, [i \in 1..n |-> Erased(uri.path[i])]>>

\* compiledHTTPRouteRefLess
RefLess(left, right) ==
    IF right = NoRef THEN left # NoRef
    ELSE /\ left # NoRef
         /\ \/ left.order < right.order
            \/ left.order = right.order /\ left.uri < right.uri

EmptyNode == [min |-> NoRef, byMethod |-> [m \in {} |-> <<>>]]
At(tree, node) == IF node \in DOMAIN tree THEN tree[node] ELSE EmptyNode

\* Faulty UpdateMinRef: a node remembers the last route that was added.
LastRef(ref, current) == ref

\* updateMinRef
UpdateMinRef(ref, current) == IF RefLess(ref, current) THEN ref ELSE current

\* normalizeHTTPRouteMethods
Methods(route) ==
    LET named == route.methods \ {""}
    IN  IF named = {} \/ "*" \in named THEN {"*"} ELSE named

\* insert: every node on the way learns of the route, the last one by method.
Insert(tree, uri, methods, ref) ==
    LET nodes == {Node(uri, n) : n \in 0..Len(uri.path)}
        last == Node(uri, Len(uri.path))
        Refs(m) == IF m \in DOMAIN At(tree, last).byMethod
                   THEN At(tree, last).byMethod[m] ELSE <<>>
        Updated(node) ==
            [min |-> UpdateMinRef(ref, At(tree, node).min),
             byMethod |-> IF node # last THEN At(tree, node).byMethod
                          ELSE [m \in DOMAIN At(tree, node).byMethod \cup methods |->
                                  IF m \in methods THEN Append(Refs(m), ref) ELSE Refs(m)]]
    IN  [node \in DOMAIN tree \cup nodes |->
            IF node \in nodes THEN Updated(node) ELSE tree[node]]

\* ** must be the last segment of a pattern.
ValidPath(path) == \A i \in DOMAIN path : path[i] = Rest => i = Len(path)

\* parseHTTPRouteURIPattern: a pattern has a protocol and a host, and no segment with
\* a query or a fragment, here "?".
Parses(uri) == uri.scheme # "" /\ uri.host # Host(<<>>) /\ Lit("?") \notin Range(uri.path)

\* compileRoute and NewHTTPRouteTable refuse the table if a route has no name, an
\* upstream that is neither configured nor a URL, no URI or an invalid one.
Valid(routes) ==
    \A i \in DOMAIN routes :
        /\ routes[i].name # "" /\ routes[i].upstream.known
        /\ routes[i].uris # <<>>
        /\ \A j \in DOMAIN routes[i].uris :
             Parses(routes[i].uris[j]) /\ ValidPath(routes[i].uris[j].path)

\* The names insert collects on its way down.
NamesUpTo(path) ==
    LET names[n \in 0..Len(path)] ==
            IF n = 0 THEN <<>>
            ELSE IF path[n].kind = "param" THEN Append(names[n - 1], path[n].value)
            ELSE names[n - 1]
    IN  names
ParamNames(path) == NamesUpTo(path)[Len(path)]

\* compileRoute: the URIs are added one after the other.
Added(tree, route, order) ==
    LET uris == route.uris
        added[j \in 0..Len(uris)] ==
            IF j = 0 THEN tree
            ELSE Insert(added[j - 1], uris[j], Methods(route),
                        [order |-> order, uri |-> j, params |-> ParamNames(uris[j].path)])
    IN  added
CompileRoute(tree, route, order) == Added(tree, route, order)[Len(route.uris)]

\* NewHTTPRouteTable: the routes are compiled in the order of declaration.
EmptyTree == [n \in {} |-> EmptyNode]
Trees(routes) ==
    LET trees[i \in 0..Len(routes)] ==
            IF i = 0 THEN EmptyTree ELSE CompileRoute(trees[i - 1], routes[i], i)
    IN  trees
Compile(routes) == Trees(routes)[Len(routes)]

-----------------------------------------------------------------------------
(***************************************************************************)
(* Looking a request up.                                                   *)
(***************************************************************************)

\* selectMatch: the first route of the method, or of all methods, if it was
\* declared before the best match so far.
SelectMatch(node, method, captures, wildcard, best) ==
    LET First(m) == IF m \in DOMAIN node.byMethod THEN node.byMethod[m][1] ELSE NoRef
        candidate == IF RefLess(First("*"), First(method)) THEN First("*") ELSE First(method)
    IN  IF RefLess(candidate, best.ref)
        THEN [ref |-> candidate, captures |-> captures, wildcard |-> wildcard]
        ELSE best

\* match of a path node when so many segments are left; deeper is the match of a
\* child.
MatchNode(tree, parts, method, left, deeper, node, captures, best) ==
    LET i == Len(parts) - left + 1
        Child(token) == <<node[1], node[2], Append(node[3], token)>>
        Try(token, caught, b) ==
            IF Child(token) \in DOMAIN tree THEN deeper[<<Child(token), caught, b>>] ELSE b
        TakeRest(wildcard, b) ==
            SelectMatch(At(tree, Child(Rest)), method, captures, wildcard, b)
    IN  IF best.ref # NoRef /\ ~RefLess(tree[node].min, best.ref) THEN best
        ELSE IF left = 0
        THEN TakeRest(<<>>, SelectMatch(tree[node], method, captures, <<>>, best))
        ELSE LET b1 == Try(Lit(parts[i]), captures, best)
                 b2 == Try(Param(""), Append(captures, parts[i]), b1)
                 b3 == Try(Star, captures, b2)
             IN  TakeRest(SubSeq(parts, i, Len(parts)), b3)
MatchNodes(tree, parts, method, left, deeper) ==
    [v \in (DOMAIN tree) \X Seq(STRING) \X Matches |->
        MatchNode(tree, parts, method, left, deeper, v[1], v[2], v[3])]
MatchPath(tree, parts, method) ==
    LET match[left \in 0..Len(parts)] ==
            MatchNodes(tree, parts, method, left, IF left = 0 THEN <<>> ELSE match[left - 1])
    IN  match

Suffix(labels, n) == SubSeq(labels, Len(labels) - n + 1, Len(labels))

\* matchHost: any host, then the labels from the last to the first; *.labels
\* needs one label more.
Hosts(labels) ==
    [n \in 1..(Len(labels) + 1) |->
        IF n = 1 THEN AnyHost
        ELSE IF n <= Len(labels) THEN Under(Suffix(labels, n - 1)) ELSE Host(labels)]

FoundUpTo(tree, scheme, req, best) ==
    LET hosts == Hosts(req.host)
        Node0(n) == <<scheme, hosts[n], <<>> >>
        found[n \in 0..Len(hosts)] ==
            IF n = 0 THEN best
            ELSE IF Node0(n) \in DOMAIN tree
            THEN MatchPath(tree, req.path, req.method)[Len(req.path)][<<Node0(n), <<>>, found[n - 1]>>]
            ELSE found[n - 1]
    IN  found
MatchHost(tree, scheme, req, best) ==
    FoundUpTo(tree, scheme, req, best)[Len(req.host) + 1]

\* The captured segments by name; of two parameters with one name the last wins.
Params(names, captures) ==
    [n \in Range(names) |->
        captures[CHOOSE i \in DOMAIN names :
                    names[i] = n /\ \A j \in DOMAIN names : names[j] = n => j <= i]]

\* A table the factory refuses is no instance.
NoTable == [order |-> -1, uri |-> 0, wildcard |-> <<>>, params |-> <<>>]

\* match
Match(routes, req) ==
    LET tree == Compile(routes)
        best == MatchHost(tree, "*", req, MatchHost(tree, req.scheme, req, NoMatch))
    IN  IF ~Valid(routes) THEN NoTable
        ELSE [order |-> best.ref.order, uri |-> best.ref.uri, wildcard |-> best.wildcard,
              params |-> Params(best.ref.params, best.captures)]

-----------------------------------------------------------------------------
(***************************************************************************)
(* What the proxy makes of a match.                                        *)
(***************************************************************************)

\* A layer of header configuration: what it strips, and what it adds then.
\* Names are in one spelling: the code strips in any, but adds as configured.
Layered(headers, layer) ==
    [n \in (DOMAIN headers \ layer.strip) \cup DOMAIN layer.add |->
        IF n \in DOMAIN layer.add THEN layer.add[n] ELSE headers[n]]

\* A path as net/url writes it.
Escape(segment) == IF segment \in DOMAIN EscapedAs THEN EscapedAs[segment] ELSE segment
Escaped(path) == [i \in DOMAIN path |-> Escape(path[i])]

\* Faulty RouteHeaders: the table has the last word.
RouteHeadersInwards(headers, hop, layers) ==
    Layered(Layered(Layered(Layered(headers, layers[3]), layers[2]), layers[1]),
            [strip |-> hop, add |-> <<>>])

\* RouteHeaders: the hop-by-hop headers go, then the layers of the table, the
\* upstream and the route are applied in this order.
RouteHeaders(headers, hop, layers) ==
    Layered(Layered(Layered(Layered(headers, [strip |-> hop, add |-> <<>>]),
                            layers[1]), layers[2]), layers[3])

\* If the layers have left no Content-Type, the one of the body is put back.
WithContentType(headers, bodyType) ==
    IF "Content-Type" \in DOMAIN headers \/ bodyType = "" THEN headers
    ELSE Layered(headers, [strip |-> {}, add |-> [n \in {"Content-Type"} |-> bodyType]])

\* The value a policy looks at: a header or a query parameter, "" when absent.
PolicyValue(policy, req) ==
    LET values == IF policy.source = "header" THEN req.headers ELSE req.query
    IN  IF policy.name \in DOMAIN values THEN values[policy.name] ELSE ""

\* The built-in policies; they refuse when their own configuration is incomplete.
PolicyHolds(policy, req) ==
    LET value == PolicyValue(policy, req)
    IN  /\ policy.name # ""
        /\ \/ policy.kind = "present" /\ value # ""
           \/ policy.kind = "equals" /\ policy.values # {""} /\ value \in policy.values
           \/ policy.kind = "matches" /\ policy.values # {""} /\ value \in policy.values

\* EvaluatePolicies: a policy without a name is skipped, one that nobody
\* registered refuses.
PoliciesHold(policies, req) ==
    \A i \in DOMAIN policies : policies[i].kind = "" \/ PolicyHolds(policies[i], req)

\* httpProxyRewritePath: the longest prefix that fits is replaced.
RewritePath(path, rewrites) ==
    LET fits == {p \in DOMAIN rewrites : IsPrefix(p, path)}
        longest == CHOOSE p \in fits : \A q \in fits : Len(q) <= Len(p)
    IN  IF fits = {} THEN path
        ELSE rewrites[longest] \o SubSeq(path, Len(longest) + 1, Len(path))

\* applyHTTPRouteRewrite: a template of literals, {name}, {wildcard} and {path}.
ApplyRewrite(template, m, path) ==
    FlattenSeq([i \in DOMAIN template |->
        LET t == template[i]
        IN  CASE t.kind = "param" /\ t.value \in DOMAIN m.params -> <<m.params[t.value]>>
              [] t.kind = "rest" -> m.wildcard
              [] t.kind = "path" -> path
              [] OTHER -> <<t.value>>])

\* TargetURI: the path that was matched is escaped already, and is taken for one that
\* is not, so that its segments are escaped a second time.
TargetURI(route, m, uri) ==
    [base |-> route.upstream.url,
     path |-> Escaped(route.upstream.path
                        \o IF route.rewrite = <<>> THEN Escaped(uri.path)
                           ELSE ApplyRewrite(route.rewrite, m, Escaped(uri.path)))]

\* httpProxyEffectiveURI: the configured base, if any, for the one of the request.
EffectiveURI(config, req) ==
    LET path == RewritePath(req.path, config.rewrites)
        scheme == IF req.scheme = "" THEN "http" ELSE req.scheme
    IN  IF config.base = <<>> THEN [base |-> <<scheme, req.host>>, path |-> path]
        ELSE [base |-> config.base[1], path |-> config.base[2] \o path]
Complete(uri) == uri.base[1] # "" /\ uri.base[2] # <<>>

\* MatchURI: what a lookup asks for.
RequestOf(uri, method) ==
    [scheme |-> uri.base[1], host |-> uri.base[2], path |-> Escaped(uri.path), method |-> method]

\* httpProxyCopyResponseHeaders
CopyResponseHeaders(headers, hop) == headers \ (hop \cup {"Content-Length"})

\* httpProxyWriteError
Refused(status) == [status |-> status, target |-> [base |-> "", path |-> <<>>],
                    headers |-> <<>>, answer |-> {}]

\* Execute returns an error and writes no answer.
Failed == Refused(0)

\* HTTPProxy.Execute: 404 without a table or a route, 403 when a policy refuses, an
\* error for a base without protocol or host, a match that cannot be saved, an upstream
\* that is no URL and a body that cannot be read; 502 when the upstream fails,
\* otherwise its answer.
Proxy(table, config, req) ==
    LET uri == EffectiveURI(config, req)
        m == Match(table.routes, RequestOf(uri, req.method))
        route == table.routes[m.order]
        upstream == config.base = <<>> /\ route.upstream.url # ""
        headers == RouteHeaders(req.headers, table.hop, <<table.layer, route.upstream, route.layer>>)
    IN  IF m.order < 0 THEN Refused(404)
        ELSE IF ~Complete(uri) THEN Failed
        ELSE IF m.order = 0 THEN Refused(404)
        ELSE IF ~PoliciesHold(route.policies, req) THEN Refused(403)
        ELSE IF ~config.savable \/ (upstream /\ ~route.upstream.parses) \/ ~req.readable THEN Failed
        ELSE [status |-> IF req.upstreamFails THEN 502 ELSE 200,
              target |-> IF upstream THEN TargetURI(route, m, uri)
                         ELSE [base |-> uri.base, path |-> Escaped(uri.path)],
              headers |-> WithContentType(headers, req.bodyType),
              answer |-> IF req.upstreamFails \/ ~config.copyHeaders THEN {}
                         ELSE CopyResponseHeaders(req.answer, table.hop)]

-----------------------------------------------------------------------------
(***************************************************************************)
(* The definitions the table is checked against.                           *)
(***************************************************************************)
HostFits(host, labels) ==
    \/ host.kind = "any"
    \/ host.kind = "exact" /\ labels # <<>> /\ host.labels = labels
    \/ host.kind = "wildcard" /\ \E n \in 1..(Len(labels) - 1) : host.labels = Suffix(labels, n)

SegmentFits(token, part) == token.kind # "literal" \/ token.value = part

PathFits(path, parts) ==
    IF path # <<>> /\ path[Len(path)] = Rest
    THEN /\ Len(parts) >= Len(path) - 1
         /\ \A i \in 1..(Len(path) - 1) : SegmentFits(path[i], parts[i])
    ELSE /\ Len(parts) = Len(path)
         /\ \A i \in DOMAIN path : SegmentFits(path[i], parts[i])

Fits(route, j, req) ==
    /\ route.uris[j].scheme \in {"*", req.scheme}
    /\ HostFits(route.uris[j].host, req.host)
    /\ PathFits(route.uris[j].path, req.path)
    /\ Methods(route) \cap {"*", req.method} # {}

\* The URIs of a table, named by their places in it.
Entries(routes) == UNION {{<<i, j>> : j \in DOMAIN routes[i].uris} : i \in DOMAIN routes}
Before(f, g) == f[1] < g[1] \/ (f[1] = g[1] /\ f[2] < g[2])

\* The first URI, in the order of the routes, that fits the request, and what its
\* parameters and its ** stand for; no table if a route is not named, asks for an
\* upstream that is not there, or has no pattern or one that cannot be understood.
FirstDeclared(routes, req) ==
    LET fitting == {e \in Entries(routes) : Fits(routes[e[1]], e[2], req)}
        first == CHOOSE f \in fitting : \A g \in fitting : ~Before(g, f)
        path == routes[first[1]].uris[first[2]].path
        LastAt(name) == CHOOSE i \in DOMAIN path :
                        /\ path[i] = Param(name)
                        /\ \A k \in DOMAIN path : path[k] = Param(name) => k <= i
        unusable == \E r \in Range(routes) :
                        \/ r.name = "" \/ ~r.upstream.known \/ r.uris = <<>>
                        \/ \E u \in Range(r.uris) :
                             \/ u.scheme = "" \/ u.host = Host(<<>>)
                             \/ \E k \in DOMAIN u.path : u.path[k] = Lit("?")
                             \/ \E k \in 1..(Len(u.path) - 1) : u.path[k] = Rest
        names == {path[i].value : i \in {k \in DOMAIN path : path[k].kind = "param"}}
    IN  IF unusable THEN NoTable
        ELSE IF fitting = {}
        THEN [order |-> 0, uri |-> 0, wildcard |-> <<>>, params |-> [n \in {} |-> ""]]
        ELSE [order |-> first[1], uri |-> first[2],
              wildcard |-> IF Rest \in Range(path) THEN SubSeq(req.path, Len(path), Len(req.path))
                           ELSE <<>>,
              params |-> [n \in names |-> req.path[LastAt(n)]]]
=============================================================================
