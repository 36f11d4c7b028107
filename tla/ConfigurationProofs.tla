------------------------ MODULE ConfigurationProofs ------------------------
(***************************************************************************)
(* Proofs about Configuration, for every table of routes, request, script, *)
(* provider of bindings, journey, configured string and set of values that *)
(* placeholders stand for.  Loops are recursive functions; what they       *)
(* compute is proved by induction on the number of turns, in the form that *)
(* a set of numbers with 0 and all successors holds every number.          *)
(***************************************************************************)
EXTENDS Configuration, WellFoundedInduction, SequenceTheorems, TLAPS

\* Induction on the natural numbers, with a set in the place of the predicate.
LEMMA SetInduction ==
    ASSUME NEW S, 0 \in S, \A n \in Nat : n \in S => n + 1 \in S
    PROVE  Nat \subseteq S
<1>1. SUFFICES ASSUME Nat \ S # {} PROVE FALSE
  OBVIOUS
<1> DEFINE R == OpToRel(<, Nat)
<1>2. IsWellFoundedOn(R, Nat)
  BY NatLessThanWellFounded
<1>3. \E x \in Nat \ S : \A y \in Nat \ S : ~(<<y, x>> \in R)
  <2> HIDE DEF R
  <2> QED
    BY <1>1, <1>2, WFMin
<1>4. PICK x \in Nat \ S : \A y \in Nat \ S : ~(<<y, x>> \in R)
  BY <1>3
<1>5. \A y \in Nat \ S : ~(y < x)
  BY <1>4 DEF OpToRel
<1>6. x # 0 /\ x - 1 \in Nat
  OBVIOUS
<1>7. x - 1 \in S
  BY <1>5, <1>6
<1> QED
  BY <1>6, <1>7

-----------------------------------------------------------------------------
(***************************************************************************)
(* The loops of the code, turn by turn.                                    *)
(***************************************************************************)

\* The names insert collects, segment by segment.
LEMMA NamesUnfold ==
    ASSUME NEW path, Len(path) \in Nat
    PROVE  /\ NamesUpTo(path)[0] = <<>>
           /\ \A n \in 1..Len(path) :
               NamesUpTo(path)[n] =
                 IF path[n].kind = "param" THEN Append(NamesUpTo(path)[n - 1], path[n].value)
                 ELSE NamesUpTo(path)[n - 1]
<1> DEFINE D(x, n) == IF path[n].kind = "param" THEN Append(x, path[n].value) ELSE x
           IsF(f, N) == f = [n \in 0..N |-> IF n = 0 THEN <<>> ELSE D(f[n - 1], n)]
           S == {n \in Nat : \E f : IsF(f, n)}
<1>1. Nat \subseteq S
  <2> HIDE DEF D
  <2>1. 0 \in S
    <3>1. IsF([n \in 0..0 |-> <<>>], 0)
      OBVIOUS
    <3> QED
      BY <3>1
  <2>2. ASSUME NEW n \in Nat, n \in S PROVE n + 1 \in S
    <3>1. PICK f : IsF(f, n)
      BY <2>2
    <3> DEFINE g == [k \in 0..(n + 1) |-> IF k <= n THEN f[k] ELSE D(f[n], n + 1)]
    <3>2. \A k \in 0..(n + 1) : g[k] = IF k = 0 THEN <<>> ELSE D(g[k - 1], k)
      BY <3>1
    <3>3. IsF(g, n + 1)
      BY <3>2
    <3> HIDE DEF g, IsF
    <3> QED
      BY <3>3
  <2> HIDE DEF S
  <2> QED
    BY <2>1, <2>2, SetInduction
<1>2. \E f : IsF(f, Len(path))
  BY <1>1
<1>3. NamesUpTo(path) = CHOOSE f : IsF(f, Len(path))
  BY DEF NamesUpTo
<1>4. IsF(NamesUpTo(path), Len(path))
  <2> HIDE DEF IsF
  <2> QED
    BY <1>2, <1>3
<1>5. /\ NamesUpTo(path)[0] = <<>>
      /\ \A n \in 1..Len(path) : NamesUpTo(path)[n] = D(NamesUpTo(path)[n - 1], n)
  <2> DEFINE F == NamesUpTo(path)
             M == Len(path)
  <2>1. M \in Nat /\ F = [n \in 0..M |-> IF n = 0 THEN <<>> ELSE D(F[n - 1], n)]
    BY <1>4
  <2> HIDE DEF D, F, M
  <2>2. F[0] = <<>> /\ \A n \in 1..M : F[n] = D(F[n - 1], n)
    BY <2>1
  <2> QED
    BY <2>2 DEF F, M
<1> QED
  BY <1>5

\* The names normalizeOutcomeNames keeps, value by value.
LEMMA KeptUnfold ==
    ASSUME NEW values, Len(values) \in Nat
    PROVE  /\ KeptUpTo(values)[0] = <<>>
           /\ \A n \in 1..Len(values) :
               KeptUpTo(values)[n] =
                 LET name == Canon[values[n]]
                 IN  IF name = "" \/ Contains(KeptUpTo(values)[n - 1], name)
                     THEN KeptUpTo(values)[n - 1]
                     ELSE Append(KeptUpTo(values)[n - 1], name)
<1> DEFINE D(x, n) == LET name == Canon[values[n]] IN IF name = "" \/ Contains(x, name) THEN x ELSE Append(x, name)
           IsF(f, N) == f = [n \in 0..N |-> IF n = 0 THEN <<>> ELSE D(f[n - 1], n)]
           S == {n \in Nat : \E f : IsF(f, n)}
<1>1. Nat \subseteq S
  <2> HIDE DEF D
  <2>1. 0 \in S
    <3>1. IsF([n \in 0..0 |-> <<>>], 0)
      OBVIOUS
    <3> QED
      BY <3>1
  <2>2. ASSUME NEW n \in Nat, n \in S PROVE n + 1 \in S
    <3>1. PICK f : IsF(f, n)
      BY <2>2
    <3> DEFINE g == [k \in 0..(n + 1) |-> IF k <= n THEN f[k] ELSE D(f[n], n + 1)]
    <3>2. \A k \in 0..(n + 1) : g[k] = IF k = 0 THEN <<>> ELSE D(g[k - 1], k)
      BY <3>1
    <3>3. IsF(g, n + 1)
      BY <3>2
    <3> HIDE DEF g, IsF
    <3> QED
      BY <3>3
  <2> HIDE DEF S
  <2> QED
    BY <2>1, <2>2, SetInduction
<1>2. \E f : IsF(f, Len(values))
  BY <1>1
<1>3. KeptUpTo(values) = CHOOSE f : IsF(f, Len(values))
  BY DEF KeptUpTo
<1>4. IsF(KeptUpTo(values), Len(values))
  <2> HIDE DEF IsF
  <2> QED
    BY <1>2, <1>3
<1>5. /\ KeptUpTo(values)[0] = <<>>
      /\ \A n \in 1..Len(values) : KeptUpTo(values)[n] = D(KeptUpTo(values)[n - 1], n)
  <2> DEFINE F == KeptUpTo(values)
             M == Len(values)
  <2>1. M \in Nat /\ F = [n \in 0..M |-> IF n = 0 THEN <<>> ELSE D(F[n - 1], n)]
    BY <1>4
  <2> HIDE DEF D, F, M
  <2>2. F[0] = <<>> /\ \A n \in 1..M : F[n] = D(F[n - 1], n)
    BY <2>1
  <2> QED
    BY <2>2 DEF F, M
<1> QED
  BY <1>5

\* The tree compileRoute leaves, URI by URI.
LEMMA AddedUnfold ==
    ASSUME NEW tree, NEW route, NEW order, Len(route.uris) \in Nat
    PROVE  /\ Added(tree, route, order)[0] = tree
           /\ \A n \in 1..Len(route.uris) :
               Added(tree, route, order)[n] =
                 Insert(Added(tree, route, order)[n - 1], route.uris[n], Methods(route),
                        [order |-> order, uri |-> n, params |-> ParamNames(route.uris[n].path)])
<1> DEFINE D(x, n) ==
             Insert(x, route.uris[n], Methods(route),
                    [order |-> order, uri |-> n, params |-> ParamNames(route.uris[n].path)])
           IsF(f, N) == f = [n \in 0..N |-> IF n = 0 THEN tree ELSE D(f[n - 1], n)]
           S == {n \in Nat : \E f : IsF(f, n)}
<1>1. Nat \subseteq S
  <2> HIDE DEF D
  <2>1. 0 \in S
    <3>1. IsF([n \in 0..0 |-> tree], 0)
      OBVIOUS
    <3> QED
      BY <3>1
  <2>2. ASSUME NEW n \in Nat, n \in S PROVE n + 1 \in S
    <3>1. PICK f : IsF(f, n)
      BY <2>2
    <3> DEFINE g == [k \in 0..(n + 1) |-> IF k <= n THEN f[k] ELSE D(f[n], n + 1)]
    <3>2. \A k \in 0..(n + 1) : g[k] = IF k = 0 THEN tree ELSE D(g[k - 1], k)
      BY <3>1
    <3>3. IsF(g, n + 1)
      BY <3>2
    <3> HIDE DEF g, IsF
    <3> QED
      BY <3>3
  <2> HIDE DEF S
  <2> QED
    BY <2>1, <2>2, SetInduction
<1>2. \E f : IsF(f, Len(route.uris))
  BY <1>1
<1>3. Added(tree, route, order) = CHOOSE f : IsF(f, Len(route.uris))
  BY DEF Added
<1>4. IsF(Added(tree, route, order), Len(route.uris))
  <2> HIDE DEF IsF
  <2> QED
    BY <1>2, <1>3
<1>5. /\ Added(tree, route, order)[0] = tree
      /\ \A n \in 1..Len(route.uris) : Added(tree, route, order)[n] = D(Added(tree, route, order)[n - 1], n)
  <2> DEFINE F == Added(tree, route, order)
             M == Len(route.uris)
  <2>1. M \in Nat /\ F = [n \in 0..M |-> IF n = 0 THEN tree ELSE D(F[n - 1], n)]
    BY <1>4
  <2> HIDE DEF D, F, M
  <2>2. F[0] = tree /\ \A n \in 1..M : F[n] = D(F[n - 1], n)
    BY <2>1
  <2> QED
    BY <2>2 DEF F, M
<1> QED
  BY <1>5

\* The tree NewHTTPRouteTable leaves, route by route.
LEMMA TreesUnfold ==
    ASSUME NEW routes, Len(routes) \in Nat
    PROVE  /\ Trees(routes)[0] = EmptyTree
           /\ \A n \in 1..Len(routes) : Trees(routes)[n] = CompileRoute((Trees(routes)[n - 1]), routes[n], n)
<1> DEFINE D(x, n) == CompileRoute(x, routes[n], n)
           IsF(f, N) == f = [n \in 0..N |-> IF n = 0 THEN EmptyTree ELSE D(f[n - 1], n)]
           S == {n \in Nat : \E f : IsF(f, n)}
<1>1. Nat \subseteq S
  <2> HIDE DEF D
  <2>1. 0 \in S
    <3>1. IsF([n \in 0..0 |-> EmptyTree], 0)
      OBVIOUS
    <3> QED
      BY <3>1
  <2>2. ASSUME NEW n \in Nat, n \in S PROVE n + 1 \in S
    <3>1. PICK f : IsF(f, n)
      BY <2>2
    <3> DEFINE g == [k \in 0..(n + 1) |-> IF k <= n THEN f[k] ELSE D(f[n], n + 1)]
    <3>2. \A k \in 0..(n + 1) : g[k] = IF k = 0 THEN EmptyTree ELSE D(g[k - 1], k)
      BY <3>1
    <3>3. IsF(g, n + 1)
      BY <3>2
    <3> HIDE DEF g, IsF
    <3> QED
      BY <3>3
  <2> HIDE DEF S
  <2> QED
    BY <2>1, <2>2, SetInduction
<1>2. \E f : IsF(f, Len(routes))
  BY <1>1
<1>3. Trees(routes) = CHOOSE f : IsF(f, Len(routes))
  BY DEF Trees
<1>4. IsF(Trees(routes), Len(routes))
  <2> HIDE DEF IsF
  <2> QED
    BY <1>2, <1>3
<1>5. /\ Trees(routes)[0] = EmptyTree
      /\ \A n \in 1..Len(routes) : Trees(routes)[n] = D(Trees(routes)[n - 1], n)
  <2> DEFINE F == Trees(routes)
             M == Len(routes)
  <2>1. M \in Nat /\ F = [n \in 0..M |-> IF n = 0 THEN EmptyTree ELSE D(F[n - 1], n)]
    BY <1>4
  <2> HIDE DEF D, F, M
  <2>2. F[0] = EmptyTree /\ \A n \in 1..M : F[n] = D(F[n - 1], n)
    BY <2>1
  <2> QED
    BY <2>2 DEF F, M
<1> QED
  BY <1>5

\* The match of a path, by the number of segments left.
LEMMA PathUnfold ==
    ASSUME NEW tree, NEW parts, NEW method, Len(parts) \in Nat
    PROVE  /\ MatchPath(tree, parts, method)[0] = MatchNodes(tree, parts, method, 0, <<>>)
           /\ \A n \in 1..Len(parts) :
               MatchPath(tree, parts, method)[n] =
                 MatchNodes(tree, parts, method, n, MatchPath(tree, parts, method)[n - 1])
<1> DEFINE D(x, n) == MatchNodes(tree, parts, method, n, x)
           IsF(f, N) ==
             f = [n \in 0..N |-> IF n = 0 THEN MatchNodes(tree, parts, method, 0, <<>>)
                             ELSE D(f[n - 1], n)]
           S == {n \in Nat : \E f : IsF(f, n)}
<1>1. Nat \subseteq S
  <2> HIDE DEF D
  <2>1. 0 \in S
    <3>1. IsF([n \in 0..0 |-> MatchNodes(tree, parts, method, 0, <<>>)], 0)
      OBVIOUS
    <3> QED
      BY <3>1
  <2>2. ASSUME NEW n \in Nat, n \in S PROVE n + 1 \in S
    <3>1. PICK f : IsF(f, n)
      BY <2>2
    <3> DEFINE g == [k \in 0..(n + 1) |-> IF k <= n THEN f[k] ELSE D(f[n], n + 1)]
    <3>2. \A k \in 0..(n + 1) : g[k] = IF k = 0 THEN MatchNodes(tree, parts, method, 0, <<>>) ELSE D(g[k - 1], k)
      BY <3>1
    <3>3. IsF(g, n + 1)
      BY <3>2
    <3> HIDE DEF g, IsF
    <3> QED
      BY <3>3
  <2> HIDE DEF S
  <2> QED
    BY <2>1, <2>2, SetInduction
<1>2. \E f : IsF(f, Len(parts))
  BY <1>1
<1>3. MatchPath(tree, parts, method) = CHOOSE f : IsF(f, Len(parts))
  BY DEF MatchPath
<1>4. IsF(MatchPath(tree, parts, method), Len(parts))
  <2> HIDE DEF IsF
  <2> QED
    BY <1>2, <1>3
<1>5. /\ MatchPath(tree, parts, method)[0] = MatchNodes(tree, parts, method, 0, <<>>)
      /\ \A n \in 1..Len(parts) : MatchPath(tree, parts, method)[n] = D(MatchPath(tree, parts, method)[n - 1], n)
  <2> DEFINE F == MatchPath(tree, parts, method)
             M == Len(parts)
  <2>1. M \in Nat /\ F = [n \in 0..M |-> IF n = 0 THEN MatchNodes(tree, parts, method, 0, <<>>)
                                      ELSE D(F[n - 1], n)]
    BY <1>4
  <2> HIDE DEF D, F, M
  <2>2. F[0] = MatchNodes(tree, parts, method, 0, <<>>) /\ \A n \in 1..M : F[n] = D(F[n - 1], n)
    BY <2>1
  <2> QED
    BY <2>2 DEF F, M
<1> QED
  BY <1>5

\* The best match matchHost has after so many hosts.
LEMMA FoundUnfold ==
    ASSUME NEW tree, NEW scheme, NEW req, NEW best, Len(Hosts(req.host)) \in Nat
    PROVE  /\ FoundUpTo(tree, scheme, req, best)[0] = best
           /\ \A n \in 1..Len(Hosts(req.host)) :
               FoundUpTo(tree, scheme, req, best)[n] =
                 LET root == <<scheme, Hosts(req.host)[n], <<>> >>
                 IN  IF root \in DOMAIN tree
                     THEN MatchPath(tree, req.path, req.method)[Len(req.path)][<<root, <<>>, FoundUpTo(tree, scheme, req, best)[n - 1]>>]
                     ELSE FoundUpTo(tree, scheme, req, best)[n - 1]
<1> DEFINE D(x, n) ==
             LET root == <<scheme, Hosts(req.host)[n], <<>> >>
             IN  IF root \in DOMAIN tree THEN MatchPath(tree, req.path, req.method)[Len(req.path)][<<root, <<>>, x>>]
                 ELSE x
           IsF(f, N) == f = [n \in 0..N |-> IF n = 0 THEN best ELSE D(f[n - 1], n)]
           S == {n \in Nat : \E f : IsF(f, n)}
<1>1. Nat \subseteq S
  <2> HIDE DEF D
  <2>1. 0 \in S
    <3>1. IsF([n \in 0..0 |-> best], 0)
      OBVIOUS
    <3> QED
      BY <3>1
  <2>2. ASSUME NEW n \in Nat, n \in S PROVE n + 1 \in S
    <3>1. PICK f : IsF(f, n)
      BY <2>2
    <3> DEFINE g == [k \in 0..(n + 1) |-> IF k <= n THEN f[k] ELSE D(f[n], n + 1)]
    <3>2. \A k \in 0..(n + 1) : g[k] = IF k = 0 THEN best ELSE D(g[k - 1], k)
      BY <3>1
    <3>3. IsF(g, n + 1)
      BY <3>2
    <3> HIDE DEF g, IsF
    <3> QED
      BY <3>3
  <2> HIDE DEF S
  <2> QED
    BY <2>1, <2>2, SetInduction
<1>2. \E f : IsF(f, Len(Hosts(req.host)))
  BY <1>1
<1>3. FoundUpTo(tree, scheme, req, best) = CHOOSE f : IsF(f, Len(Hosts(req.host)))
  BY DEF FoundUpTo
<1>4. IsF(FoundUpTo(tree, scheme, req, best), Len(Hosts(req.host)))
  <2> HIDE DEF IsF
  <2> QED
    BY <1>2, <1>3
<1>5. /\ FoundUpTo(tree, scheme, req, best)[0] = best
      /\ \A n \in 1..Len(Hosts(req.host)) :
           FoundUpTo(tree, scheme, req, best)[n] = D(FoundUpTo(tree, scheme, req, best)[n - 1], n)
  <2> DEFINE F == FoundUpTo(tree, scheme, req, best)
             M == Len(Hosts(req.host))
  <2>1. M \in Nat /\ F = [n \in 0..M |-> IF n = 0 THEN best ELSE D(F[n - 1], n)]
    BY <1>4
  <2> HIDE DEF D, F, M
  <2>2. F[0] = best /\ \A n \in 1..M : F[n] = D(F[n - 1], n)
    BY <2>1
  <2> QED
    BY <2>2 DEF F, M
<1> QED
  BY <1>5

-----------------------------------------------------------------------------
(***************************************************************************)
(* Scripts.                                                                *)
(***************************************************************************)

\* What normalizeOutcomeNames keeps are names of its argument, normalized.
LEMMA KeptAreNames ==
    ASSUME NEW values \in Seq(DOMAIN Canon)
    PROVE  /\ NormalizeOutcomeNames(values) \in Seq(DOMAIN Canon)
           /\ \A k \in DOMAIN NormalizeOutcomeNames(values) :
                  \E i \in DOMAIN values : NormalizeOutcomeNames(values)[k] = Canon[values[i]]
<1> DEFINE K == KeptUpTo(values)
           IsKept(s, n) == /\ s \in Seq(DOMAIN Canon)
                           /\ \A k \in 1..Len(s) : \E i \in 1..n : s[k] = Canon[values[i]]
           S == {n \in Nat : n <= Len(values) => IsKept(K[n], n)}
<1>0. Len(values) \in Nat /\ DOMAIN values = 1..Len(values)
  OBVIOUS
<1>z. K[0] = <<>>
  BY <1>0, KeptUnfold
<1>1. \A n \in 1..Len(values) :
           K[n] = IF Canon[values[n]] = "" \/ Contains(K[n - 1], Canon[values[n]]) THEN K[n - 1]
                  ELSE Append(K[n - 1], Canon[values[n]])
  BY <1>0, KeptUnfold
<1> HIDE DEF K
<1>2. 0 \in S
  <2>1. <<>> \in Seq(DOMAIN Canon) /\ Len(<<>>) = 0
    OBVIOUS
  <2>2. IsKept(<<>>, 0)
    BY <2>1
  <2> HIDE DEF IsKept
  <2> QED
    BY <1>z, <2>2
<1>3. ASSUME NEW n \in Nat, n \in S PROVE n + 1 \in S
  <2>1. SUFFICES ASSUME n + 1 <= Len(values) PROVE IsKept(K[n + 1], n + 1)
    OBVIOUS
  <2>2. IsKept(K[n], n)
    BY <1>0, <1>3, <2>1
  <2>3. n + 1 \in 1..Len(values) /\ (n + 1) - 1 = n
    BY <1>0, <2>1
  <2>4. CASE K[n + 1] = K[n]
    BY <2>2, <2>4
  <2>5. CASE K[n + 1] = Append(K[n], Canon[values[n + 1]])
    <3>1. Canon[values[n + 1]] \in DOMAIN Canon
      BY <1>0, <2>3, CanonAssumption
    <3> QED
      BY <2>2, <2>5, <3>1
  <2> QED
    BY <1>1, <2>3, <2>4, <2>5
<1>4. Nat \subseteq S
  <2> HIDE DEF S
  <2> QED
    BY <1>2, <1>3, SetInduction
<1>5. IsKept(K[Len(values)], Len(values))
  <2> HIDE DEF IsKept
  <2>1. Len(values) \in S
    BY <1>0, <1>4
  <2> QED
    BY <1>0, <2>1
<1> QED
  BY SMTT(30), <1>0, <1>5 DEF NormalizeOutcomeNames, K

\* How a script ends: it may run, asks for input if it selects no outcome, and
\* selects what it called last, blanks aside, which is one of the outcomes it declares.
EndsWell(script, declared, calls, catches, asks) ==
    LET outcome == ExecuteScript(script, calls, catches, asks).outcome
    IN  /\ IsRunnableScriptType(script.type)
        /\ outcome = "" => asks
        /\ outcome # "" =>
             \E last \in DOMAIN calls :
                 /\ Canon[outcome] = Canon[calls[last]]
                 /\ \A i \in DOMAIN calls : i > last => Canon[calls[i]] = ""
                 /\ script.hasDeclared => \E i \in DOMAIN declared : Canon[declared[i]] = Canon[calls[last]]

\* A set of places of a sequence has a last one.
LEMMA LastSaid ==
    ASSUME NEW n \in Nat, NEW T \in SUBSET (1..n), T # {}
    PROVE  \E i \in T : \A j \in T : j <= i
<1> DEFINE Until(m) == \E i \in T : i + m >= n
           S == {m \in Nat : Until(m) => \E i \in T : \A j \in T : j <= i}
<1>1. 0 \in S
  OBVIOUS
<1>2. ASSUME NEW m \in Nat, m \in S PROVE m + 1 \in S
  <2> SUFFICES ASSUME Until(m + 1) PROVE \E i \in T : \A j \in T : j <= i
    OBVIOUS
  <2>1. CASE Until(m)
    BY <1>2, <2>1
  <2>2. CASE ~Until(m)
    <3>1. PICK i \in T : i + (m + 1) >= n
      OBVIOUS
    <3>2. \A j \in T : j + m < n
      BY <2>2
    <3>3. \A j \in T : j <= i
      BY <3>1, <3>2
    <3> QED
      BY <3>3
  <2> QED
    BY <2>1, <2>2
<1>3. Nat \subseteq S
  <2> HIDE DEF S
  <2> QED
    BY <1>1, <1>2, SetInduction
<1>4. Until(n)
  <2>1. PICK i \in T : TRUE
    OBVIOUS
  <2>2. i \in Nat /\ i + n >= n
    OBVIOUS
  <2> QED
    BY <2>2
<1> QED
  BY <1>3, <1>4

\* A script that was saved and ends without an error ends so.
LEMMA ScriptEnds ==
    ASSUME NEW type, NEW declared \in Seq(DOMAIN Canon), NEW hasDeclared \in BOOLEAN,
           NEW calls \in Seq(DOMAIN Canon), NEW catches, NEW asks,
           NEW script, script = SavedScript([type |-> type, declared |-> declared,
                                             hasDeclared |-> hasDeclared]),
           ExecuteScript(script, calls, catches, asks).ok
    PROVE  EndsWell(script, declared, calls, catches, asks)
<1> DEFINE outcome == SetOutcome(script, calls, catches)
           said == {i \in DOMAIN calls : Canon[calls[i]] # ""}
           place == CHOOSE i \in said : \A j \in said : j <= i
           last == calls[place]
<1>1. /\ script # NoScript /\ IsRunnableScriptType(script.type)
      /\ outcome # "throws" /\ (outcome = "" => asks)
      /\ outcome # "" /\ SupportsDeclaredOutcomes(script.type) /\ script.hasDeclared
           => \E d \in Range(DeclaredOutcomes(script)) : Canon[d] = Canon[outcome]
      /\ ExecuteScript(script, calls, catches, asks).outcome = outcome
  BY DEF ExecuteScript
<1>2. ASSUME outcome # ""
      PROVE  /\ Canon[outcome] = Canon[last] /\ place \in DOMAIN calls
             /\ \A i \in DOMAIN calls : i > place => Canon[calls[i]] = ""
  <2>1. said # {} /\ outcome \in {Canon[last], last}
    BY <1>1, <1>2 DEF SetOutcome
  <2>2. DOMAIN calls = 1..Len(calls) /\ Len(calls) \in Nat
    OBVIOUS
  <2>3. place \in said /\ \A j \in said : j <= place
    <3>1. \E i \in said : \A j \in said : j <= i
      <4>1. said \in SUBSET (1..Len(calls))
        BY <2>2
      <4> HIDE DEF said
      <4> QED
        BY <2>1, <2>2, <4>1, LastSaid
    <3> QED
      BY <3>1
  <2> HIDE DEF place
  <2>4. place \in DOMAIN calls /\ last \in DOMAIN Canon
    <3>1. place \in DOMAIN calls
      BY <2>3
    <3> QED
      BY <3>1
  <2>5. ASSUME NEW i \in DOMAIN calls, i > place PROVE Canon[calls[i]] = ""
    <3>1. i \in Nat /\ place \in Nat /\ ~(i <= place)
      BY <2>2, <2>4, <2>5
    <3>2. i \notin said
      BY <2>3, <3>1
    <3> QED
      BY <3>2
  <2> HIDE DEF said
  <2> QED
    BY <2>1, <2>4, <2>5, CanonAssumption
<1>3. ASSUME outcome # "", script.hasDeclared
      PROVE  \E i \in DOMAIN declared : Canon[declared[i]] = Canon[last]
  <2> DEFINE own == [type |-> NormalizeScriptType(type), declared |-> declared,
                     hasDeclared |-> hasDeclared]
             names == NormalizeOutcomeNames(declared)
  <2>1. script = NormalizeDeclared(own)
    <3>1. [[type |-> type, declared |-> declared, hasDeclared |-> hasDeclared]
             EXCEPT !.type = NormalizeScriptType(type)] = own
      OBVIOUS
    <3> QED
      BY <1>1, <3>1 DEF SavedScript
  <2>2. SupportsDeclaredOutcomes(own.type) /\ own.hasDeclared
    BY <1>1, <1>3, <2>1 DEF NormalizeDeclared
  <2>3. script = [own EXCEPT !.declared = names]
    BY <1>1, <2>1, <2>2 DEF NormalizeDeclared
  <2>4. /\ SupportsDeclaredOutcomes(script.type) /\ script.declared = names
        /\ DeclaredOutcomes(script) = NormalizeOutcomeNames(names)
    BY <1>3, <2>2, <2>3 DEF DeclaredOutcomes
  <2>5. PICK d \in Range(NormalizeOutcomeNames(names)) : Canon[d] = Canon[outcome]
    BY <1>1, <1>3, <2>4
  <2>6. /\ names \in Seq(DOMAIN Canon)
        /\ \A k \in DOMAIN names : \E i \in DOMAIN declared : names[k] = Canon[declared[i]]
    BY KeptAreNames
  <2> HIDE DEF names, outcome, last
  <2>7. PICK k \in DOMAIN names : d = Canon[names[k]]
    BY <2>5, <2>6, KeptAreNames DEF Range
  <2>8. PICK i \in DOMAIN declared : names[k] = Canon[declared[i]]
    BY <2>6, <2>7
  <2>9. declared[i] \in DOMAIN Canon
    BY <2>8
  <2>10. Canon[d] = Canon[declared[i]]
    BY <2>7, <2>8, <2>9, CanonAssumption
  <2> QED
    BY <1>2, <1>3, <2>5, <2>10
<1> HIDE DEF outcome, place
<1> QED
  BY <1>1, <1>2, <1>3 DEF EndsWell, outcome

\* What is missing of the bindings that are described: what the host describes and
\* does not bind, and the result of a schedule in a step, as long as a provider that
\* replaces the defaults describes its own.
Missing(type, providers, runBy) ==
    LET configured == ConfiguredBindings(type, providers)
    IN  (IF configured = <<>> THEN {} ELSE configured[1].described \ configured[1].bound)
          \cup IF NormalizeScriptType(type) = "schedule" /\ runBy = "step" THEN {"previousResult", "SetResult"} ELSE {}
Silent(type, providers) ==
    LET configured == ConfiguredBindings(type, providers)
    IN  configured # <<>> /\ configured[1].mode = "replace" /\ ~configured[1].describes
BoundBy(runBy, type, providers) ==
    IF runBy = "schedule" THEN ResolvedScheduleBindings(providers) ELSE StepBindings(type, providers)

\* Whatever providers are configured, nothing else that is described is missing.
LEMMA DescribedIsBound ==
    ASSUME NEW type, NEW providers, NEW runBy \in {"step", "schedule"},
           runBy = "schedule" => NormalizeScriptType(type) = "schedule",
           Descriptors(type, providers).ok, BoundBy(runBy, type, providers).ok,
           ~Silent(type, providers)
    PROVE  Descriptors(type, providers).names \ BoundBy(runBy, type, providers).names
             \subseteq Missing(type, providers, runBy)
<1> DEFINE own == NormalizeScriptType(type)
           configured == ConfiguredBindings(type, providers)
           defaults == IF runBy = "schedule" THEN ScheduleBindings ELSE DefaultBindings(type)
           results == IF own = "schedule" /\ runBy = "step" THEN {"previousResult", "SetResult"} ELSE {}
           logger == IF runBy = "schedule" THEN {} ELSE {"logger"}
           D == DescribedForType(type)
           names == IF configured = <<>> THEN {} ELSE configured[1].bound
           got == BoundBy(runBy, type, providers).names
           described == Descriptors(type, providers).names
<1>1. D \subseteq defaults \cup logger \cup results
  BY DEF DescribedForType, AllDescribed, Contexts, RequestNames, ScheduleBindings, DefaultBindings,
         Extensible
<1>2. runBy = "schedule" => configured = ConfiguredBindings("schedule", providers)
  BY DEF ConfiguredBindings, NormalizeScriptType, Extensible
<1>3. /\ Missing(type, providers, runBy) =
           (IF configured = <<>> THEN {} ELSE configured[1].described \ configured[1].bound) \cup results
      /\ configured # <<>> /\ configured[1].mode = "replace" => configured[1].describes
  BY DEF Missing, Silent
<1>4. described = IF configured # <<>> /\ configured[1].describes
                  THEN Merged(D, configured, configured[1].described) ELSE D
  BY DEF Descriptors
<1>5. got = Merged(defaults, configured, names) \cup logger
  <2>1. CASE runBy = "schedule"
    <3>1. BoundBy(runBy, type, providers) = ResolvedBindings(ScheduleBindings, configured)
      BY <1>2, <2>1 DEF BoundBy, ResolvedScheduleBindings
    <3> HIDE DEF configured
    <3>2. got = Merged(ScheduleBindings, configured, names)
      BY <3>1 DEF ResolvedBindings
    <3> QED
      BY <2>1, <3>2
  <2>2. CASE runBy = "step"
    <3> DEFINE r == ResolvedBindings(DefaultBindings(type), configured)
    <3>1. BoundBy(runBy, type, providers) = IF r.ok THEN [r EXCEPT !.names = r.names \cup {"logger"}] ELSE r
      BY <2>2 DEF BoundBy, StepBindings
    <3> HIDE DEF configured
    <3>2. r.ok
      BY <3>1
    <3>3. r = [ok |-> TRUE, names |-> Merged(DefaultBindings(type), configured, names)]
      BY <3>2 DEF ResolvedBindings
    <3> HIDE DEF r, names
    <3>4. got = Merged(DefaultBindings(type), configured, names) \cup {"logger"}
      BY <3>1, <3>3
    <3> QED
      BY <2>2, <3>4
  <2> QED
    BY <2>1, <2>2
<1> HIDE DEF configured, defaults, results, logger, D, got, described
<1> HIDE DEF names
<1>6. CASE configured = <<>>
  <2>1. described = D /\ got = defaults \cup logger
    BY <1>4, <1>5, <1>6 DEF Merged
  <2>2. results \subseteq Missing(type, providers, runBy)
    BY <1>3
  <2> QED
    BY <1>1, <2>1, <2>2 DEF got, described
<1>7. CASE configured # <<>> /\ configured[1].mode = "replace"
  <2>1. described = configured[1].described /\ got = configured[1].bound \cup logger
    BY <1>3, <1>4, <1>5, <1>7 DEF Merged, names
  <2>2. configured[1].described \ configured[1].bound \subseteq Missing(type, providers, runBy)
    BY <1>3, <1>7
  <2> QED
    BY <2>1, <2>2 DEF got, described
<1>8. CASE configured # <<>> /\ configured[1].mode # "replace"
  <2>1. /\ described \subseteq D \cup configured[1].described
        /\ got = defaults \cup configured[1].bound \cup logger
    BY <1>4, <1>5, <1>8 DEF Merged, names
  <2>2. (configured[1].described \ configured[1].bound) \cup results = Missing(type, providers, runBy)
    BY <1>3, <1>8
  <2> QED
    BY <1>1, <2>1, <2>2 DEF got, described
<1> QED
  BY <1>6, <1>7, <1>8

-----------------------------------------------------------------------------
(***************************************************************************)
(* The headers of a forwarded request.                                     *)
(***************************************************************************)

\* What one layer leaves of a header: what it adds, else what was there and is not
\* stripped.
LEMMA LayeredHeader ==
    ASSUME NEW headers, NEW layer, NEW n
    PROVE  /\ n \in DOMAIN layer.add =>
                n \in DOMAIN Layered(headers, layer) /\ Layered(headers, layer)[n] = layer.add[n]
           /\ n \notin DOMAIN layer.add /\ n \in layer.strip => n \notin DOMAIN Layered(headers, layer)
           /\ n \notin layer.strip \cup DOMAIN layer.add =>
                /\ n \in DOMAIN Layered(headers, layer) <=> n \in DOMAIN headers
                /\ n \in DOMAIN headers => Layered(headers, layer)[n] = headers[n]
BY DEF Layered

\* RouteHeaders gives every header the value of the innermost layer that speaks of
\* it, and none the layers or the request do not give it.
LEMMA HeadersAreInnermost ==
    ASSUME NEW headers, NEW hop, NEW a, NEW b, NEW c, NEW n
    PROVE  LET layers == <<a, b, c>>
               result == RouteHeaders(headers, hop, layers)
               expected == InnermostHeader(n, headers, hop, layers)
           IN  IF n \in DOMAIN result THEN expected = {result[n]} ELSE expected = {}
<1> DEFINE layers == <<a, b, c>>
           h0 == Layered(headers, [strip |-> hop, add |-> <<>>])
           h1 == Layered(h0, a)
           h2 == Layered(h1, b)
           h3 == Layered(h2, c)
           Speaks(l) == n \in l.strip \cup DOMAIN l.add
           speaking == {i \in DOMAIN layers : Speaks(layers[i])}
           inner == CHOOSE i \in speaking : \A j \in speaking : j <= i
           expected == InnermostHeader(n, headers, hop, layers)
           Says(l) == IF n \in DOMAIN l.add THEN {l.add[n]} ELSE {}
<1>1. RouteHeaders(headers, hop, layers) = h3
  BY DEF RouteHeaders
<1>2. /\ DOMAIN layers = {1, 2, 3} /\ layers[1] = a /\ layers[2] = b /\ layers[3] = c
  BY SMTT(30)
<1>3. /\ speaking # {} => expected = Says(layers[inner])
      /\ speaking = {} => expected = IF n \in DOMAIN headers /\ n \notin hop THEN {headers[n]} ELSE {}
  BY DEF InnermostHeader
<1>4. IF n \in DOMAIN headers /\ n \notin hop THEN n \in DOMAIN h0 /\ h0[n] = headers[n]
      ELSE n \notin DOMAIN h0
  BY DEF Layered
<1>5. CASE Speaks(c)
  <2>1. 3 \in speaking /\ \A j \in speaking : j <= 3
    BY <1>2, <1>5
  <2>2. inner = 3
    BY <1>2, <2>1
  <2>3. expected = Says(c)
    BY <1>2, <1>3, <2>1, <2>2
  <2> HIDE DEF h2, expected
  <2> QED
    BY <1>1, <1>5, <2>3, LayeredHeader DEF expected
<1>6. CASE ~Speaks(c) /\ Speaks(b)
  <2>1. 2 \in speaking /\ \A j \in speaking : j <= 2
    BY <1>2, <1>6
  <2>2. inner = 2
    BY <1>2, <2>1
  <2>3. expected = Says(b)
    BY <1>2, <1>3, <2>1, <2>2
  <2> HIDE DEF h1, expected
  <2>4. IF n \in DOMAIN h2 THEN expected = {h2[n]} ELSE expected = {}
    BY <1>6, <2>3, LayeredHeader
  <2> HIDE DEF h2
  <2> QED
    BY <1>1, <1>6, <2>4, LayeredHeader DEF expected
<1>7. CASE ~Speaks(c) /\ ~Speaks(b) /\ Speaks(a)
  <2>1. 1 \in speaking /\ \A j \in speaking : j <= 1
    BY <1>2, <1>7
  <2>2. inner = 1
    BY <1>2, <2>1
  <2>3. expected = Says(a)
    BY <1>2, <1>3, <2>1, <2>2
  <2> HIDE DEF h0, expected
  <2>4. IF n \in DOMAIN h1 THEN expected = {h1[n]} ELSE expected = {}
    BY <1>7, <2>3, LayeredHeader
  <2> HIDE DEF h1
  <2>5. IF n \in DOMAIN h2 THEN expected = {h2[n]} ELSE expected = {}
    BY <1>7, <2>4, LayeredHeader
  <2> HIDE DEF h2
  <2> QED
    BY <1>1, <1>7, <2>5, LayeredHeader DEF expected
<1>8. CASE ~Speaks(c) /\ ~Speaks(b) /\ ~Speaks(a)
  <2>1. speaking = {}
    BY <1>2, <1>8
  <2>2. IF n \in DOMAIN h0 THEN expected = {h0[n]} ELSE expected = {}
    BY <1>3, <1>4, <2>1
  <2> HIDE DEF h0, expected
  <2>3. IF n \in DOMAIN h1 THEN expected = {h1[n]} ELSE expected = {}
    BY <1>8, <2>2, LayeredHeader
  <2> HIDE DEF h1
  <2>4. IF n \in DOMAIN h2 THEN expected = {h2[n]} ELSE expected = {}
    BY <1>8, <2>3, LayeredHeader
  <2> HIDE DEF h2
  <2> QED
    BY <1>1, <1>8, <2>4, LayeredHeader DEF expected
<1> QED
  BY <1>5, <1>6, <1>7, <1>8

\* A policy holds exactly when it allows the request.
LEMMA PolicyAllows ==
    ASSUME NEW p, NEW req, IsPolicy(p)
    PROVE  (p.kind = "" \/ PolicyHolds(p, req)) <=> Allows(p, req)
<1> DEFINE given == IF p.source = "query" THEN req.query ELSE req.headers
           sent == p.name \in DOMAIN given /\ given[p.name] # ""
           value == PolicyValue(p, req)
<1>1. value = IF p.name \in DOMAIN given THEN given[p.name] ELSE ""
  BY DEF PolicyValue, IsPolicy
<1>2. /\ sent => value = given[p.name] /\ value # ""
      /\ ~sent => value = ""
  BY <1>1
<1>3. p.kind = "equals" => \E v : p.values = {v}
  BY DEF IsPolicy
<1> HIDE DEF value
<1>4. PolicyHolds(p, req) <=>
        /\ p.name # ""
        /\ \/ p.kind = "present" /\ value # ""
           \/ p.kind = "equals" /\ p.values # {""} /\ value \in p.values
           \/ p.kind = "matches" /\ p.values # {""} /\ value \in p.values
  BY DEF PolicyHolds, value
<1>5. Allows(p, req) <=>
        \/ p.kind = ""
        \/ /\ p.name # "" /\ sent
           /\ p.kind = "present" \/ (p.kind \in {"equals", "matches"} /\ given[p.name] \in p.values)
        \/ /\ p.name # "" /\ ~sent
           /\ p.kind = "matches" /\ "" \in p.values /\ p.values # {""}
  BY DEF Allows
<1> HIDE DEF given
<1>6. CASE sent
  BY <1>2, <1>4, <1>5, <1>6
<1>7. CASE ~sent
  BY <1>2, <1>3, <1>4, <1>5, <1>7
<1> QED
  BY <1>6, <1>7

-----------------------------------------------------------------------------
(***************************************************************************)
(* The tree of a table.  An entry is a URI, named by its place.            *)
(***************************************************************************)
UriOf(routes, e) == routes[e[1]].uris[e[2]]
PathOf(routes, e) == UriOf(routes, e).path
MethodsOf(routes, e) == Methods(routes[e[1]])
RefOf(routes, e) == [order |-> e[1], uri |-> e[2], params |-> ParamNames(PathOf(routes, e))]

Passes(routes, e, node) == \E n \in 0..Len(PathOf(routes, e)) : Node(UriOf(routes, e), n) = node
EndsAt(routes, e, node) == Node(UriOf(routes, e), Len(PathOf(routes, e))) = node

\* The nodes of a tree are those its entries pass, the first of which is known to
\* the node; the ends of the entries know the first of every method.
MinIsFirst(tree, routes, X) ==
    \A node \in DOMAIN tree : \E e \in X :
        /\ Passes(routes, e, node) /\ tree[node].min = RefOf(routes, e)
        /\ \A f \in X : Passes(routes, f, node) => ~Before(f, e)
MethodsAreFirst(tree, routes, X) ==
    \A node \in DOMAIN tree : \A m \in DOMAIN tree[node].byMethod :
        /\ tree[node].byMethod[m] \in Seq(RouteRefs) /\ Len(tree[node].byMethod[m]) > 0
        /\ \E e \in X :
             /\ EndsAt(routes, e, node) /\ m \in MethodsOf(routes, e)
             /\ tree[node].byMethod[m][1] = RefOf(routes, e)
             /\ \A f \in X : EndsAt(routes, f, node) /\ m \in MethodsOf(routes, f) => ~Before(f, e)
MethodsAreKnown(tree, routes, X) ==
    \A e \in X : \A node \in DOMAIN tree :
        EndsAt(routes, e, node) => MethodsOf(routes, e) \subseteq DOMAIN tree[node].byMethod
NodesArePassed(tree, routes, X) ==
    \A node : node \in DOMAIN tree <=> \E e \in X : Passes(routes, e, node)
IsTreeOf(tree, routes, X) ==
    /\ NodesArePassed(tree, routes, X) /\ MinIsFirst(tree, routes, X)
    /\ MethodsAreFirst(tree, routes, X) /\ MethodsAreKnown(tree, routes, X)

\* The segments of patterns.
LEMMA TokenTypes ==
    ASSUME NEW t \in Tokens
    PROVE  /\ t.kind \in {"literal", "param", "wildcard", "rest"}
           /\ t.kind = "literal" => t = Lit(t.value)
           /\ t.kind = "param" => t = Param(t.value)
           /\ t.kind = "wildcard" => t = Star
           /\ t.kind = "rest" <=> t = Rest
           /\ t.kind \in {"literal", "param"} => t.value \in STRING
<1>0. Star.kind = "wildcard" /\ Rest.kind = "rest"
  BY DEF Star, Rest
<1>1. CASE t = Star
  BY <1>0, <1>1
<1>2. CASE t = Rest
  BY <1>0, <1>2
<1>3. CASE t \in [kind : {"literal", "param"}, value : STRING]
  BY <1>0, <1>3 DEF Lit, Param
<1> QED
  BY <1>1, <1>2, <1>3 DEF Tokens

\* The names of a path are strings, one per turn at most.
LEMMA NamesType ==
    ASSUME NEW path \in Seq(Tokens)
    PROVE  ParamNames(path) \in Seq(STRING)
<1> DEFINE N == NamesUpTo(path)
           S == {n \in Nat : n <= Len(path) => N[n] \in Seq(STRING)}
<1>1. Len(path) \in Nat /\ DOMAIN path = 1..Len(path)
  OBVIOUS
<1>2. N[0] = <<>>
  BY <1>1, NamesUnfold
<1>3. \A n \in 1..Len(path) :
        N[n] = IF path[n].kind = "param" THEN Append(N[n - 1], path[n].value) ELSE N[n - 1]
  BY <1>1, NamesUnfold
<1> HIDE DEF N
<1>4. 0 \in S
  <2>1. <<>> \in Seq(STRING)
    OBVIOUS
  <2> QED
    BY <1>2, <2>1
<1>5. ASSUME NEW n \in Nat, n \in S PROVE n + 1 \in S
  <2>1. SUFFICES ASSUME n + 1 <= Len(path) PROVE N[n + 1] \in Seq(STRING)
    OBVIOUS
  <2>2. N[n] \in Seq(STRING) /\ n + 1 \in 1..Len(path) /\ (n + 1) - 1 = n
    BY <1>1, <1>5, <2>1
  <2>3. path[n + 1] \in Tokens
    BY <1>1, <2>2
  <2>4. path[n + 1].kind = "param" => path[n + 1].value \in STRING
    BY <2>3, TokenTypes
  <2>5. \/ path[n + 1].kind = "param" /\ N[n + 1] = Append(N[n], path[n + 1].value)
        \/ N[n + 1] = N[n]
    BY <1>3, <2>2
  <2>6. path[n + 1].kind = "param" => Append(N[n], path[n + 1].value) \in Seq(STRING)
    BY <2>2, <2>4, AppendProperties
  <2> QED
    BY <2>2, <2>5, <2>6
<1>6. Nat \subseteq S
  <2> HIDE DEF S
  <2> QED
    BY <1>4, <1>5, SetInduction
<1>7. N[Len(path)] \in Seq(STRING)
  BY <1>1, <1>6
<1> QED
  BY <1>7 DEF ParamNames, N

\* The places of a table, and what stands there.
LEMMA EntryFacts ==
    ASSUME NEW routes, IsTable(routes), NEW e \in Entries(routes)
    PROVE  /\ e = <<e[1], e[2]>> /\ e[1] \in Nat \ {0} /\ e[2] \in Nat \ {0}
           /\ e[1] \in 1..Len(routes) /\ e[2] \in 1..Len(routes[e[1]].uris)
           /\ UriOf(routes, e) \in URIs
           /\ PathOf(routes, e) \in Seq(Tokens) /\ Len(PathOf(routes, e)) \in Nat
           /\ RefOf(routes, e) \in RouteRefs /\ RefOf(routes, e) # NoRef
<1>1. PICK i \in DOMAIN routes : \E j \in DOMAIN routes[i].uris : e = <<i, j>>
  BY DEF Entries
<1>2. PICK j \in DOMAIN routes[i].uris : e = <<i, j>>
  BY <1>1
<1>3. Len(routes) \in Nat /\ DOMAIN routes = 1..Len(routes)
  BY DEF IsTable
<1>4. routes[i].uris \in Seq(URIs)
  BY <1>1 DEF IsTable
<1>5. Len(routes[i].uris) \in Nat /\ DOMAIN routes[i].uris = 1..Len(routes[i].uris)
  BY <1>4
<1>6. routes[i].uris[j] \in URIs
  BY <1>4, <1>2
<1>7. e[1] = i /\ e[2] = j
  BY <1>2
<1>8. UriOf(routes, e) \in URIs
  BY <1>6, <1>7 DEF UriOf
<1>9. PathOf(routes, e) \in Seq(Tokens)
  BY <1>8 DEF PathOf, URIs
<1>10. Len(PathOf(routes, e)) \in Nat
  BY <1>9
<1>11. ParamNames(PathOf(routes, e)) \in Seq(STRING)
  BY <1>9, NamesType
<1>12. /\ e[1] \in Nat \ {0} /\ e[2] \in Nat \ {0}
       /\ e[1] \in 1..Len(routes) /\ e[2] \in 1..Len(routes[e[1]].uris)
  BY <1>1, <1>2, <1>3, <1>5, <1>7
<1>13. RefOf(routes, e) \in RouteRefs /\ RefOf(routes, e) # NoRef
  BY <1>11, <1>12 DEF RefOf, RouteRefs, NoRef
<1> QED
  BY <1>2, <1>7, <1>8, <1>9, <1>10, <1>12, <1>13

\* The references of two entries are in the order of the entries.
LEMMA RefOrder ==
    ASSUME NEW routes, IsTable(routes), NEW e \in Entries(routes), NEW f \in Entries(routes)
    PROVE  RefLess(RefOf(routes, e), RefOf(routes, f)) <=> Before(e, f)
<1>1. /\ RefOf(routes, e) # NoRef /\ RefOf(routes, f) # NoRef
      /\ e[1] \in Nat /\ e[2] \in Nat /\ f[1] \in Nat /\ f[2] \in Nat
  BY EntryFacts
<1>2. /\ RefOf(routes, e).order = e[1] /\ RefOf(routes, e).uri = e[2]
      /\ RefOf(routes, f).order = f[1] /\ RefOf(routes, f).uri = f[2]
  BY DEF RefOf
<1> QED
  BY <1>1, <1>2 DEF RefLess, Before

\* The order of entries is total.
LEMMA BeforeIsTotal ==
    ASSUME NEW routes, IsTable(routes)
    PROVE  /\ \A e, f \in Entries(routes) : e # f => Before(e, f) \/ Before(f, e)
           /\ \A e, f \in Entries(routes) : Before(e, f) => ~Before(f, e) /\ e # f
           /\ \A e, f, g \in Entries(routes) : ~Before(f, e) /\ ~Before(g, f) => ~Before(g, e)
<1>1. \A e \in Entries(routes) : e = <<e[1], e[2]>> /\ e[1] \in Nat /\ e[2] \in Nat
  BY EntryFacts
<1>2. \A e, f \in Entries(routes) : e # f => Before(e, f) \/ Before(f, e)
  BY <1>1 DEF Before
<1>3. \A e, f \in Entries(routes) : Before(e, f) => ~Before(f, e) /\ e # f
  BY <1>1 DEF Before
<1>4. \A e, f, g \in Entries(routes) : ~Before(f, e) /\ ~Before(g, f) => ~Before(g, e)
  BY <1>1 DEF Before
<1> QED
  BY <1>2, <1>3, <1>4

\* The nodes a URI passes, and its end.
NodesOf(uri) == {Node(uri, n) : n \in 0..Len(uri.path)}
LastOf(uri) == Node(uri, Len(uri.path))

\* What insert leaves at the nodes of a tree.
Inserted(new, tree, nodes, last, methods, ref) ==
    /\ DOMAIN new = DOMAIN tree \cup nodes /\ last \in nodes
    /\ \A node \in DOMAIN tree : node \notin nodes => new[node] = tree[node]
    /\ \A node \in nodes : new[node].min = UpdateMinRef(ref, At(tree, node).min)
    /\ \A node \in nodes : node # last => new[node].byMethod = At(tree, node).byMethod
    /\ DOMAIN new[last].byMethod = DOMAIN At(tree, last).byMethod \cup methods
    /\ \A m \in DOMAIN At(tree, last).byMethod : m \notin methods =>
           new[last].byMethod[m] = At(tree, last).byMethod[m]
    /\ \A m \in methods : m \in DOMAIN At(tree, last).byMethod =>
           new[last].byMethod[m] = Append(At(tree, last).byMethod[m], ref)
    /\ \A m \in methods : m \notin DOMAIN At(tree, last).byMethod =>
           new[last].byMethod[m] = Append(<<>>, ref)

\* insert does just that.
LEMMA InsertShape ==
    ASSUME NEW tree, NEW uri, NEW methods, NEW ref, Len(uri.path) \in Nat
    PROVE  Inserted(Insert(tree, uri, methods, ref), tree, NodesOf(uri), LastOf(uri), methods, ref)
<1> DEFINE new == Insert(tree, uri, methods, ref)
           nodes == NodesOf(uri)
           last == LastOf(uri)
           RefsAt(m) == IF m \in DOMAIN At(tree, last).byMethod
                        THEN At(tree, last).byMethod[m] ELSE <<>>
           Updated(node) ==
               [min |-> UpdateMinRef(ref, At(tree, node).min),
                byMethod |-> IF node # last THEN At(tree, node).byMethod
                             ELSE [m \in DOMAIN At(tree, node).byMethod \cup methods |->
                                     IF m \in methods THEN Append(RefsAt(m), ref) ELSE RefsAt(m)]]
<1>1. new = [node \in DOMAIN tree \cup nodes |-> IF node \in nodes THEN Updated(node) ELSE tree[node]]
  BY DEF Insert, NodesOf, LastOf
<1>2. last \in nodes
  BY DEF NodesOf, LastOf
<1> HIDE DEF new, nodes, last
<1>3. /\ DOMAIN new = DOMAIN tree \cup nodes
      /\ \A node \in DOMAIN tree : node \notin nodes => new[node] = tree[node]
      /\ \A node \in nodes : new[node] = Updated(node)
  <2> HIDE DEF Updated
  <2> QED
    BY <1>1
<1>4. \A node \in nodes :
        /\ new[node].min = UpdateMinRef(ref, At(tree, node).min)
        /\ node # last => new[node].byMethod = At(tree, node).byMethod
  <2>1. SUFFICES ASSUME NEW node \in nodes
        PROVE  /\ new[node].min = UpdateMinRef(ref, At(tree, node).min)
               /\ node # last => new[node].byMethod = At(tree, node).byMethod
    OBVIOUS
  <2>2. new[node] = Updated(node)
    BY <1>3
  <2>3. /\ Updated(node).min = UpdateMinRef(ref, At(tree, node).min)
        /\ node # last => Updated(node).byMethod = At(tree, node).byMethod
    OBVIOUS
  <2> HIDE DEF Updated
  <2> QED
    BY <2>2, <2>3
<1>5. new[last].byMethod = [m \in DOMAIN At(tree, last).byMethod \cup methods |->
                               IF m \in methods THEN Append(RefsAt(m), ref) ELSE RefsAt(m)]
  <2>1. new[last] = Updated(last)
    BY <1>2, <1>3
  <2>2. Updated(last).byMethod = [m \in DOMAIN At(tree, last).byMethod \cup methods |->
                                     IF m \in methods THEN Append(RefsAt(m), ref) ELSE RefsAt(m)]
    OBVIOUS
  <2> HIDE DEF Updated
  <2> QED
    BY <2>1, <2>2
<1>6. /\ DOMAIN new[last].byMethod = DOMAIN At(tree, last).byMethod \cup methods
      /\ \A m \in DOMAIN At(tree, last).byMethod : m \notin methods =>
             new[last].byMethod[m] = At(tree, last).byMethod[m]
      /\ \A m \in methods : m \in DOMAIN At(tree, last).byMethod =>
             new[last].byMethod[m] = Append(At(tree, last).byMethod[m], ref)
      /\ \A m \in methods : m \notin DOMAIN At(tree, last).byMethod =>
             new[last].byMethod[m] = Append(<<>>, ref)
  BY <1>5
<1> QED
  BY <1>2, <1>3, <1>4, <1>6 DEF Inserted, new, nodes, last

\* Adding an entry that comes after all others gives the tree of one entry more.
LEMMA InsertKeepsTree ==
    ASSUME NEW routes, IsTable(routes), NEW X \in SUBSET Entries(routes),
           NEW x \in Entries(routes), \A f \in X : Before(f, x),
           NEW tree, IsTreeOf(tree, routes, X)
    PROVE  IsTreeOf(Insert(tree, UriOf(routes, x), MethodsOf(routes, x), RefOf(routes, x)),
                    routes, X \cup {x})
<1> DEFINE uri == UriOf(routes, x)
           methods == MethodsOf(routes, x)
           ref == RefOf(routes, x)
           new == Insert(tree, uri, methods, ref)
           nodes == NodesOf(uri)
           last == LastOf(uri)
           Y == X \cup {x}
<1>1. /\ Len(uri.path) \in Nat /\ ref \in RouteRefs /\ ref # NoRef
  BY EntryFacts DEF PathOf
<1>2. \A node : node \in nodes <=> Passes(routes, x, node)
  BY DEF Passes, PathOf, NodesOf
<1>3. \A node : node = last <=> EndsAt(routes, x, node)
  BY DEF EndsAt, PathOf, LastOf
<1> HIDE DEF uri, methods, ref, new, nodes, last
<1>e. Inserted(new, tree, nodes, last, methods, ref)
  BY <1>1, InsertShape DEF new, nodes, last
<1>4. /\ DOMAIN new = DOMAIN tree \cup nodes /\ last \in nodes
      /\ \A node \in DOMAIN tree : node \notin nodes => new[node] = tree[node]
      /\ \A node \in nodes : new[node].min = UpdateMinRef(ref, At(tree, node).min)
      /\ \A node \in nodes : node # last => new[node].byMethod = At(tree, node).byMethod
      /\ DOMAIN new[last].byMethod = DOMAIN At(tree, last).byMethod \cup methods
      /\ \A m \in DOMAIN At(tree, last).byMethod : m \notin methods =>
             new[last].byMethod[m] = At(tree, last).byMethod[m]
      /\ \A m \in methods : m \in DOMAIN At(tree, last).byMethod =>
             new[last].byMethod[m] = Append(At(tree, last).byMethod[m], ref)
      /\ \A m \in methods : m \notin DOMAIN At(tree, last).byMethod =>
             new[last].byMethod[m] = Append(<<>>, ref)
  BY <1>e DEF Inserted
<1>5. /\ NodesArePassed(tree, routes, X) /\ MinIsFirst(tree, routes, X)
      /\ MethodsAreFirst(tree, routes, X) /\ MethodsAreKnown(tree, routes, X)
  BY DEF IsTreeOf
<1>6. NodesArePassed(new, routes, Y)
  BY <1>2, <1>4, <1>5 DEF NodesArePassed
<1>7. \A f \in X : Before(f, x) /\ ~Before(x, f)
  BY BeforeIsTotal
<1>8. ~Before(x, x)
  BY BeforeIsTotal
<1>9. \A node : /\ node \in DOMAIN tree => At(tree, node) = tree[node]
                /\ node \notin DOMAIN tree => At(tree, node).min = NoRef /\ DOMAIN At(tree, node).byMethod = {}
  BY DEF At, EmptyNode
<1>10. MinIsFirst(new, routes, Y)
  <2>1. SUFFICES ASSUME NEW node \in DOMAIN new
        PROVE  \E e \in Y : /\ Passes(routes, e, node) /\ new[node].min = RefOf(routes, e)
                            /\ \A f \in Y : Passes(routes, f, node) => ~Before(f, e)
    BY DEF MinIsFirst
  <2>2. CASE node \in DOMAIN tree
    <3>1. PICK e \in X : /\ Passes(routes, e, node) /\ tree[node].min = RefOf(routes, e)
                         /\ \A f \in X : Passes(routes, f, node) => ~Before(f, e)
      BY <1>5, <2>2 DEF MinIsFirst
    <3>2. ~RefLess(ref, RefOf(routes, e))
      BY <1>7, RefOrder DEF ref
    <3>3. new[node].min = RefOf(routes, e)
      BY <1>4, <1>9, <2>2, <3>1, <3>2 DEF UpdateMinRef
    <3> QED
      BY <1>7, <3>1, <3>3
  <2>3. CASE node \notin DOMAIN tree
    <3>1. node \in nodes
      BY <1>4, <2>1, <2>3
    <3>2. \A f \in X : ~Passes(routes, f, node)
      BY <1>5, <2>3 DEF NodesArePassed
    <3>3. RefLess(ref, NoRef)
      BY <1>1 DEF RefLess
    <3>4. new[node].min = ref
      BY <1>4, <1>9, <2>3, <3>1, <3>3 DEF UpdateMinRef
    <3> QED
      BY <1>2, <1>8, <3>1, <3>2, <3>4 DEF ref
  <2> QED
    BY <2>2, <2>3
<1>11. MethodsAreFirst(new, routes, Y)
  <2>1. SUFFICES ASSUME NEW node \in DOMAIN new, NEW m \in DOMAIN new[node].byMethod
        PROVE  /\ new[node].byMethod[m] \in Seq(RouteRefs) /\ Len(new[node].byMethod[m]) > 0
               /\ \E e \in Y :
                    /\ EndsAt(routes, e, node) /\ m \in MethodsOf(routes, e)
                    /\ new[node].byMethod[m][1] = RefOf(routes, e)
                    /\ \A f \in Y : EndsAt(routes, f, node) /\ m \in MethodsOf(routes, f) => ~Before(f, e)
    BY DEF MethodsAreFirst
  <2>2. CASE node \in DOMAIN tree /\ m \in DOMAIN tree[node].byMethod
    <3>1. /\ tree[node].byMethod[m] \in Seq(RouteRefs) /\ Len(tree[node].byMethod[m]) > 0
          /\ \E e \in X :
               /\ EndsAt(routes, e, node) /\ m \in MethodsOf(routes, e)
               /\ tree[node].byMethod[m][1] = RefOf(routes, e)
               /\ \A f \in X : EndsAt(routes, f, node) /\ m \in MethodsOf(routes, f) => ~Before(f, e)
      BY <1>5, <2>2 DEF MethodsAreFirst
    <3>2. PICK e \in X : /\ EndsAt(routes, e, node) /\ m \in MethodsOf(routes, e)
                         /\ tree[node].byMethod[m][1] = RefOf(routes, e)
                         /\ \A f \in X : EndsAt(routes, f, node) /\ m \in MethodsOf(routes, f) => ~Before(f, e)
      BY <3>1
    <3>3. \/ new[node].byMethod[m] = tree[node].byMethod[m]
          \/ new[node].byMethod[m] = Append(tree[node].byMethod[m], ref)
      BY <1>4, <1>9, <2>1, <2>2
    <3>4. /\ Append(tree[node].byMethod[m], ref) \in Seq(RouteRefs)
          /\ Len(Append(tree[node].byMethod[m], ref)) > 0
          /\ Append(tree[node].byMethod[m], ref)[1] = tree[node].byMethod[m][1]
      BY <1>1, <3>1
    <3>5. /\ new[node].byMethod[m] \in Seq(RouteRefs) /\ Len(new[node].byMethod[m]) > 0
          /\ new[node].byMethod[m][1] = RefOf(routes, e)
      BY <3>1, <3>2, <3>3, <3>4
    <3> QED
      BY <1>7, <3>2, <3>5
  <2>3. CASE ~(node \in DOMAIN tree /\ m \in DOMAIN tree[node].byMethod)
    <3>1. node = last /\ m \in methods /\ new[node].byMethod[m] = Append(<<>>, ref)
      BY <1>4, <1>9, <2>1, <2>3
    <3>2. \A f \in X : ~(EndsAt(routes, f, node) /\ m \in MethodsOf(routes, f))
      <4>1. SUFFICES ASSUME NEW f \in X, EndsAt(routes, f, node), m \in MethodsOf(routes, f)
            PROVE  FALSE
        OBVIOUS
      <4>2. Passes(routes, f, node)
        BY <4>1, EntryFacts DEF EndsAt, Passes
      <4>3. node \in DOMAIN tree
        BY <1>5, <4>2 DEF NodesArePassed
      <4> QED
        BY <1>5, <2>3, <4>1, <4>3 DEF MethodsAreKnown
    <3>3. Append(<<>>, ref) \in Seq(RouteRefs) /\ Len(Append(<<>>, ref)) > 0 /\ Append(<<>>, ref)[1] = ref
      BY <1>1
    <3>4. EndsAt(routes, x, node) /\ m \in MethodsOf(routes, x)
      BY <1>3, <3>1 DEF methods
    <3> QED
      BY <1>8, <3>1, <3>2, <3>3, <3>4 DEF ref
  <2> QED
    BY <2>2, <2>3
<1>12. MethodsAreKnown(new, routes, Y)
  <2>1. SUFFICES ASSUME NEW e \in Y, NEW node \in DOMAIN new, EndsAt(routes, e, node)
        PROVE  MethodsOf(routes, e) \subseteq DOMAIN new[node].byMethod
    BY DEF MethodsAreKnown
  <2>2. node \in DOMAIN tree => DOMAIN tree[node].byMethod \subseteq DOMAIN new[node].byMethod
    BY <1>4, <1>9
  <2>3. CASE e = x
    <3>1. node = last
      BY <1>3, <2>1, <2>3
    <3> QED
      BY <1>4, <2>3, <3>1 DEF methods
  <2>4. CASE e \in X
    <3>1. Passes(routes, e, node)
      BY <2>1, <2>4, EntryFacts DEF EndsAt, Passes
    <3>2. node \in DOMAIN tree
      BY <1>5, <2>4, <3>1 DEF NodesArePassed
    <3> QED
      BY <1>5, <2>1, <2>2, <2>4, <3>2 DEF MethodsAreKnown
  <2> QED
    BY <2>3, <2>4
<1> QED
  BY <1>6, <1>10, <1>11, <1>12 DEF IsTreeOf, new, uri, methods, ref

\* The entries before the i-th route, and the first j of that route.
UpTo(routes, i, j) == {e \in Entries(routes) : e[1] < i \/ (e[1] = i /\ e[2] <= j)}

\* compileRoute adds the entries of a route to the tree.
LEMMA RouteCompiles ==
    ASSUME NEW routes, IsTable(routes), NEW i \in 1..Len(routes),
           NEW tree, IsTreeOf(tree, routes, UpTo(routes, i, 0))
    PROVE  IsTreeOf(CompileRoute(tree, routes[i], i), routes, UpTo(routes, i, Len(routes[i].uris)))
<1> DEFINE route == routes[i]
           A == Added(tree, route, i)
           M == Len(route.uris)
           S == {j \in Nat : j <= M => IsTreeOf(A[j], routes, UpTo(routes, i, j))}
<1>1. Len(routes) \in Nat /\ DOMAIN routes = 1..Len(routes) /\ i \in Nat
  BY DEF IsTable
<1>2. route.uris \in Seq(URIs)
  BY <1>1 DEF IsTable
<1>3. M \in Nat /\ DOMAIN route.uris = 1..M
  BY <1>2
<1>4. A[0] = tree
  BY <1>3, AddedUnfold
<1>5. \A n \in 1..M :
        A[n] = Insert(A[n - 1], route.uris[n], Methods(route),
                      [order |-> i, uri |-> n, params |-> ParamNames(route.uris[n].path)])
  BY <1>3, AddedUnfold
<1> HIDE DEF A, M
<1>6. 0 \in S
  BY <1>4
<1>7. ASSUME NEW j \in Nat, j \in S PROVE j + 1 \in S
  <2>1. SUFFICES ASSUME j + 1 <= M PROVE IsTreeOf(A[j + 1], routes, UpTo(routes, i, j + 1))
    OBVIOUS
  <2> DEFINE x == <<i, j + 1>>
             X == UpTo(routes, i, j)
  <2>2. IsTreeOf(A[j], routes, X) /\ j + 1 \in 1..M /\ (j + 1) - 1 = j
    BY <1>3, <1>7, <2>1
  <2>3. x \in Entries(routes)
    BY <1>1, <1>3, <2>2 DEF Entries
  <2>4. /\ UriOf(routes, x) = route.uris[j + 1] /\ MethodsOf(routes, x) = Methods(route)
        /\ RefOf(routes, x) = [order |-> i, uri |-> j + 1, params |-> ParamNames(route.uris[j + 1].path)]
    BY DEF UriOf, MethodsOf, RefOf, PathOf
  <2>5. A[j + 1] = Insert(A[j], UriOf(routes, x), MethodsOf(routes, x), RefOf(routes, x))
    BY <1>5, <2>2, <2>4
  <2>6. X \in SUBSET Entries(routes) /\ \A f \in X : Before(f, x)
    <3>1. \A f \in Entries(routes) : f[1] \in Nat /\ f[2] \in Nat
      BY EntryFacts
    <3> QED
      BY <1>1, <3>1 DEF UpTo, Before
  <2>7. UpTo(routes, i, j + 1) = X \cup {x}
    <3>1. \A f \in Entries(routes) : f = <<f[1], f[2]>> /\ f[1] \in Nat /\ f[2] \in Nat
      BY EntryFacts
    <3> QED
      BY <1>1, <2>3, <3>1 DEF UpTo
  <2> HIDE DEF x, X
  <2>8. IsTreeOf(Insert(A[j], UriOf(routes, x), MethodsOf(routes, x), RefOf(routes, x)), routes, X \cup {x})
    BY <2>2, <2>3, <2>6, InsertKeepsTree
  <2> QED
    BY <2>5, <2>7, <2>8
<1>8. Nat \subseteq S
  <2> HIDE DEF S
  <2> QED
    BY <1>6, <1>7, SetInduction
<1>9. IsTreeOf(A[M], routes, UpTo(routes, i, M))
  BY <1>3, <1>8
<1> QED
  BY <1>9 DEF CompileRoute, A, M

\* NewHTTPRouteTable builds the tree of all entries of the table.
LEMMA CompiledTree ==
    ASSUME NEW routes, IsTable(routes)
    PROVE  IsTreeOf(Compile(routes), routes, Entries(routes))
<1> DEFINE T == Trees(routes)
           S == {n \in Nat : n <= Len(routes) => IsTreeOf(T[n], routes, UpTo(routes, n + 1, 0))}
<1>1. Len(routes) \in Nat /\ DOMAIN routes = 1..Len(routes)
  BY DEF IsTable
<1>2. T[0] = EmptyTree
  BY <1>1, TreesUnfold
<1>3. \A n \in 1..Len(routes) : T[n] = CompileRoute(T[n - 1], routes[n], n)
  BY <1>1, TreesUnfold
<1>4. \A e \in Entries(routes) :
        /\ e[1] \in Nat \ {0} /\ e[2] \in Nat \ {0}
        /\ e[1] \in 1..Len(routes) /\ e[2] \in 1..Len(routes[e[1]].uris)
  BY EntryFacts
<1> HIDE DEF T
<1>5. 0 \in S
  <2>1. UpTo(routes, 0 + 1, 0) = {}
    BY <1>4 DEF UpTo
  <2>2. DOMAIN EmptyTree = {}
    BY DEF EmptyTree
  <2>3. IsTreeOf(EmptyTree, routes, {})
    BY <2>2 DEF IsTreeOf, NodesArePassed, MinIsFirst, MethodsAreFirst, MethodsAreKnown
  <2> QED
    <3>1. IsTreeOf(T[0], routes, UpTo(routes, 0 + 1, 0))
      BY <1>2, <2>1, <2>3, Zenon
    <3> QED
      BY <3>1
<1>6. ASSUME NEW n \in Nat, n \in S PROVE n + 1 \in S
  <2>1. SUFFICES ASSUME n + 1 <= Len(routes)
        PROVE  IsTreeOf(T[n + 1], routes, UpTo(routes, (n + 1) + 1, 0))
    OBVIOUS
  <2>2. IsTreeOf(T[n], routes, UpTo(routes, n + 1, 0)) /\ n + 1 \in 1..Len(routes) /\ (n + 1) - 1 = n
    BY <1>1, <1>6, <2>1
  <2>3. T[n + 1] = CompileRoute(T[n], routes[n + 1], n + 1)
    BY <1>3, <2>2
  <2>4. IsTreeOf(CompileRoute(T[n], routes[n + 1], n + 1), routes,
                 UpTo(routes, n + 1, Len(routes[n + 1].uris)))
    BY <2>2, RouteCompiles
  <2>5. UpTo(routes, n + 1, Len(routes[n + 1].uris)) = UpTo(routes, (n + 1) + 1, 0)
    <3>1. Len(routes[n + 1].uris) \in Nat
      BY <1>1, <2>2 DEF IsTable
    <3> QED
      BY <1>4, <3>1 DEF UpTo
  <2> QED
    BY <2>3, <2>4, <2>5
<1>7. Nat \subseteq S
  <2> HIDE DEF S
  <2> QED
    BY <1>5, <1>6, SetInduction
<1>8. IsTreeOf(T[Len(routes)], routes, UpTo(routes, Len(routes) + 1, 0))
  BY <1>1, <1>7
<1>9. UpTo(routes, Len(routes) + 1, 0) = Entries(routes)
  BY <1>1, <1>4 DEF UpTo
<1> QED
  BY <1>8, <1>9 DEF Compile, T

-----------------------------------------------------------------------------
(***************************************************************************)
(* Matches.  A lookup that ends at an entry captured the segments at the   *)
(* parameters of its path, and ** stands for the segments that are left.   *)
(***************************************************************************)
CapturedUpTo(path, parts) ==
    LET captured[n \in 0..Len(path)] ==
            IF n = 0 THEN <<>>
            ELSE IF path[n].kind = "param" THEN Append(captured[n - 1], parts[n])
            ELSE captured[n - 1]
    IN  captured

\* The captured segments, segment by segment.
LEMMA CapturedUnfold ==
    ASSUME NEW path, NEW parts, Len(path) \in Nat
    PROVE  /\ CapturedUpTo(path, parts)[0] = <<>>
           /\ \A n \in 1..Len(path) :
               CapturedUpTo(path, parts)[n] =
                 IF path[n].kind = "param" THEN Append(CapturedUpTo(path, parts)[n - 1], parts[n])
                 ELSE CapturedUpTo(path, parts)[n - 1]
<1> DEFINE D(x, n) == IF path[n].kind = "param" THEN Append(x, parts[n]) ELSE x
           IsF(f, N) == f = [n \in 0..N |-> IF n = 0 THEN <<>> ELSE D(f[n - 1], n)]
           S == {n \in Nat : \E f : IsF(f, n)}
<1>1. Nat \subseteq S
  <2> HIDE DEF D
  <2>1. 0 \in S
    <3>1. IsF([n \in 0..0 |-> <<>>], 0)
      OBVIOUS
    <3> QED
      BY <3>1
  <2>2. ASSUME NEW n \in Nat, n \in S PROVE n + 1 \in S
    <3>1. PICK f : IsF(f, n)
      BY <2>2
    <3> DEFINE g == [k \in 0..(n + 1) |-> IF k <= n THEN f[k] ELSE D(f[n], n + 1)]
    <3>2. \A k \in 0..(n + 1) : g[k] = IF k = 0 THEN <<>> ELSE D(g[k - 1], k)
      BY <3>1
    <3>3. IsF(g, n + 1)
      BY <3>2
    <3> HIDE DEF g, IsF
    <3> QED
      BY <3>3
  <2> HIDE DEF S
  <2> QED
    BY <2>1, <2>2, SetInduction
<1>2. \E f : IsF(f, Len(path))
  BY <1>1
<1>3. CapturedUpTo(path, parts) = CHOOSE f : IsF(f, Len(path))
  BY DEF CapturedUpTo
<1>4. IsF(CapturedUpTo(path, parts), Len(path))
  <2> HIDE DEF IsF
  <2> QED
    BY <1>2, <1>3
<1>5. /\ CapturedUpTo(path, parts)[0] = <<>>
      /\ \A n \in 1..Len(path) : CapturedUpTo(path, parts)[n] = D(CapturedUpTo(path, parts)[n - 1], n)
  <2> DEFINE F == CapturedUpTo(path, parts)
             M == Len(path)
  <2>1. M \in Nat /\ F = [n \in 0..M |-> IF n = 0 THEN <<>> ELSE D(F[n - 1], n)]
    BY <1>4
  <2> HIDE DEF D, F, M
  <2>2. F[0] = <<>> /\ \A n \in 1..M : F[n] = D(F[n - 1], n)
    BY <2>1
  <2> QED
    BY <2>2 DEF F, M
<1> QED
  BY <1>5

EndsInRest(path) == path # <<>> /\ path[Len(path)] = Rest
Sized(path, parts) ==
    IF EndsInRest(path) THEN Len(parts) >= Len(path) - 1 ELSE Len(parts) = Len(path)
MatchOf(routes, parts, e) ==
    [ref |-> RefOf(routes, e),
     captures |-> CapturedUpTo(PathOf(routes, e), parts)[Len(PathOf(routes, e))],
     wildcard |-> IF EndsInRest(PathOf(routes, e))
                  THEN SubSeq(parts, Len(PathOf(routes, e)), Len(parts)) ELSE <<>>]

\* The best match of a set of entries is the one of the first.
IsBest(routes, parts, b, X) ==
    \/ X = {} /\ b = NoMatch
    \/ \E e \in X : b = MatchOf(routes, parts, e) /\ \A f \in X : ~Before(f, e)

\* What is captured are segments of the request.
LEMMA CapturedType ==
    ASSUME NEW path \in Seq(Tokens), NEW parts \in Seq(STRING), Sized(path, parts)
    PROVE  CapturedUpTo(path, parts)[Len(path)] \in Seq(STRING)
<1> DEFINE C == CapturedUpTo(path, parts)
           S == {n \in Nat : n <= Len(path) => C[n] \in Seq(STRING)}
<1>1. Len(path) \in Nat /\ DOMAIN path = 1..Len(path)
  OBVIOUS
<1>2. C[0] = <<>>
  BY <1>1, CapturedUnfold
<1>3. \A n \in 1..Len(path) :
        C[n] = IF path[n].kind = "param" THEN Append(C[n - 1], parts[n]) ELSE C[n - 1]
  BY <1>1, CapturedUnfold
<1>p. \A n \in 1..Len(path) : path[n].kind = "param" => n <= Len(parts)
  <2>1. SUFFICES ASSUME NEW n \in 1..Len(path), path[n].kind = "param" PROVE n <= Len(parts)
    OBVIOUS
  <2>2. path # <<>> /\ Len(parts) \in Nat
    BY <1>1
  <2>r. Rest.kind = "rest"
    BY DEF Rest
  <2>3. path[n] # Rest
    <3>1. path[n].kind # Rest.kind
      BY <2>1, <2>r
    <3> QED
      BY <3>1
  <2>4. CASE EndsInRest(path)
    BY <1>1, <2>2, <2>3, <2>4 DEF Sized, EndsInRest
  <2>5. CASE ~EndsInRest(path)
    BY <1>1, <2>2, <2>5 DEF Sized
  <2> QED
    BY <2>4, <2>5
<1> HIDE DEF C
<1>4. 0 \in S
  <2>1. <<>> \in Seq(STRING)
    OBVIOUS
  <2> QED
    BY <1>2, <2>1
<1>5. ASSUME NEW n \in Nat, n \in S PROVE n + 1 \in S
  <2>1. SUFFICES ASSUME n + 1 <= Len(path) PROVE C[n + 1] \in Seq(STRING)
    OBVIOUS
  <2>2. C[n] \in Seq(STRING) /\ n + 1 \in 1..Len(path) /\ (n + 1) - 1 = n
    BY <1>1, <1>5, <2>1
  <2>3. CASE path[n + 1].kind = "param"
    <3>1. parts[n + 1] \in STRING
      BY <1>p, <2>2, <2>3
    <3>2. Append(C[n], parts[n + 1]) \in Seq(STRING)
      BY <2>2, <3>1, AppendProperties
    <3> QED
      BY <1>3, <2>2, <2>3, <3>2
  <2>4. CASE path[n + 1].kind # "param"
    BY <1>3, <2>2, <2>4
  <2> QED
    BY <2>3, <2>4
<1>6. Nat \subseteq S
  <2> HIDE DEF S
  <2> QED
    BY <1>4, <1>5, SetInduction
<1> QED
  BY <1>1, <1>6 DEF C

\* A match is one of the values a lookup carries along.
LEMMA MatchType ==
    ASSUME NEW routes, IsTable(routes), NEW parts \in Seq(STRING), NEW e \in Entries(routes),
           Sized(PathOf(routes, e), parts)
    PROVE  MatchOf(routes, parts, e) \in Matches
<1> DEFINE path == PathOf(routes, e)
<1>1. path \in Seq(Tokens) /\ Len(path) \in Nat /\ RefOf(routes, e) \in RouteRefs
  BY EntryFacts
<1>2. CapturedUpTo(path, parts)[Len(path)] \in Seq(STRING)
  BY <1>1, CapturedType
<1>3. EndsInRest(path) => SubSeq(parts, Len(path), Len(parts)) \in Seq(STRING)
  <2>1. SUFFICES ASSUME EndsInRest(path) PROVE SubSeq(parts, Len(path), Len(parts)) \in Seq(STRING)
    OBVIOUS
  <2>2. Len(path) \in 1..(Len(parts) + 1) /\ Len(parts) \in Nat
    <3>1. Len(path) # 0
      BY <1>1, <2>1 DEF EndsInRest
    <3>2. Len(parts) >= Len(path) - 1
      BY <2>1 DEF Sized
    <3> QED
      BY <1>1, <3>1, <3>2
  <2>3. \A k \in Len(path)..Len(parts) : parts[k] \in STRING
    BY <2>2
  <2> QED
    BY <2>2, <2>3, SubSeqProperties
<1>4. <<>> \in Seq(STRING)
  OBVIOUS
<1> HIDE DEF path
<1> QED
  BY <1>1, <1>2, <1>3, <1>4 DEF MatchOf, Matches, path

\* So is the best of a set of entries of fitting length.
LEMMA BestType ==
    ASSUME NEW routes, IsTable(routes), NEW parts \in Seq(STRING),
           NEW X \in SUBSET {e \in Entries(routes) : Sized(PathOf(routes, e), parts)},
           NEW b, IsBest(routes, parts, b, X)
    PROVE  b \in Matches
<1>1. CASE X = {} /\ b = NoMatch
  BY <1>1 DEF NoMatch, NoRef, Matches, RouteRefs
<1>2. CASE \E e \in X : b = MatchOf(routes, parts, e) /\ \A f \in X : ~Before(f, e)
  BY <1>2, MatchType
<1> QED
  BY <1>1, <1>2 DEF IsBest

-----------------------------------------------------------------------------
(***************************************************************************)
(* Lookups.  A URI starts with a node's scheme, host and segments when it  *)
(* passes the node.                                                        *)
(***************************************************************************)
NodeTokens == Tokens \cup {Param("")}
Starts(uri, s, h, toks) ==
    /\ uri.scheme = s /\ uri.host = h /\ Len(toks) <= Len(uri.path)
    /\ \A i \in 1..Len(toks) : Erased(uri.path[i]) = toks[i]

\* A node of a URI is known by its number of segments.
LEMMA NodeIs ==
    ASSUME NEW uri, Len(uri.path) \in Nat, NEW n \in 0..Len(uri.path), NEW s, NEW h,
           NEW toks \in Seq(NodeTokens)
    PROVE  Node(uri, n) = <<s, h, toks>> <=> Starts(uri, s, h, toks) /\ n = Len(toks)
<1> DEFINE erased == [i \in 1..n |-> Erased(uri.path[i])]
<1>1. toks = [i \in 1..Len(toks) |-> toks[i]] /\ Len(toks) \in Nat
  OBVIOUS
<1>2. Node(uri, n) = <<uri.scheme, uri.host, erased>>
  BY DEF Node
<1>3. DOMAIN erased = 1..n /\ \A i \in 1..n : erased[i] = Erased(uri.path[i])
  OBVIOUS
<1>4. erased = toks <=> n = Len(toks) /\ \A i \in 1..Len(toks) : Erased(uri.path[i]) = toks[i]
  <2>1. ASSUME erased = toks
        PROVE  n = Len(toks) /\ \A i \in 1..Len(toks) : Erased(uri.path[i]) = toks[i]
    <3> HIDE DEF erased
    <3>1. DOMAIN toks = 1..Len(toks)
      OBVIOUS
    <3>2. 1..n = 1..Len(toks)
      BY <1>3, <2>1, <3>1
    <3>3. n = Len(toks)
      BY <1>1, <3>2
    <3> QED
      BY <1>3, <2>1, <3>3
  <2>2. ASSUME n = Len(toks), \A i \in 1..Len(toks) : Erased(uri.path[i]) = toks[i]
        PROVE  erased = toks
    BY <1>1, <2>2
  <2> QED
    BY <2>1, <2>2
<1> HIDE DEF erased
<1> QED
  BY <1>1, <1>2, <1>4 DEF Starts

\* Passing a node, and ending there.
LEMMA PassesIs ==
    ASSUME NEW routes, IsTable(routes), NEW e \in Entries(routes), NEW s, NEW h,
           NEW toks \in Seq(NodeTokens)
    PROVE  /\ Passes(routes, e, <<s, h, toks>>) <=> Starts(UriOf(routes, e), s, h, toks)
           /\ EndsAt(routes, e, <<s, h, toks>>) <=>
                  Starts(UriOf(routes, e), s, h, toks) /\ Len(PathOf(routes, e)) = Len(toks)
<1> DEFINE uri == UriOf(routes, e)
<1>1. Len(uri.path) \in Nat /\ Len(toks) \in Nat
  BY EntryFacts DEF PathOf
<1> HIDE DEF uri
<1>2. \A n \in 0..Len(uri.path) :
        Node(uri, n) = <<s, h, toks>> <=> Starts(uri, s, h, toks) /\ n = Len(toks)
  BY <1>1, NodeIs
<1>5. Starts(uri, s, h, toks) => Len(toks) \in 0..Len(uri.path)
  BY <1>1 DEF Starts
<1>6. Len(uri.path) \in 0..Len(uri.path)
  BY <1>1
<1>3. (\E n \in 0..Len(uri.path) : Node(uri, n) = <<s, h, toks>>) <=> Starts(uri, s, h, toks)
  BY <1>2, <1>5
<1>4. Node(uri, Len(uri.path)) = <<s, h, toks>> <=> Starts(uri, s, h, toks) /\ Len(uri.path) = Len(toks)
  BY <1>2, <1>6
<1> QED
  BY <1>3, <1>4 DEF Passes, EndsAt, PathOf, uri

\* Passing a child.
LEMMA StartsChild ==
    ASSUME NEW uri, Len(uri.path) \in Nat, NEW s, NEW h, NEW toks \in Seq(NodeTokens), NEW t \in NodeTokens
    PROVE  /\ Append(toks, t) \in Seq(NodeTokens) /\ Len(Append(toks, t)) = Len(toks) + 1
           /\ Starts(uri, s, h, Append(toks, t)) <=>
                  /\ Starts(uri, s, h, toks) /\ Len(toks) < Len(uri.path)
                  /\ Erased(uri.path[Len(toks) + 1]) = t
<1> DEFINE new == Append(toks, t)
           n == Len(toks)
<1>1. n \in Nat /\ new \in Seq(NodeTokens) /\ Len(new) = n + 1
  BY AppendProperties
<1>2. (\A i \in 1..n : new[i] = toks[i]) /\ new[n + 1] = t
  BY AppendProperties
<1>3. 1..(n + 1) = (1..n) \cup {n + 1}
  BY <1>1
<1> HIDE DEF new
<1>4. (\A i \in 1..(n + 1) : Erased(uri.path[i]) = new[i]) <=>
          (\A i \in 1..n : Erased(uri.path[i]) = toks[i]) /\ Erased(uri.path[n + 1]) = t
  <2> HIDE DEF n
  <2> QED
    BY <1>2, <1>3
<1>5. (n + 1 <= Len(uri.path)) <=> (n <= Len(uri.path) /\ n < Len(uri.path))
  BY <1>1
<1>6. Starts(uri, s, h, new) <=>
        /\ Starts(uri, s, h, toks) /\ n < Len(uri.path)
        /\ Erased(uri.path[n + 1]) = t
  BY <1>1, <1>4, <1>5 DEF Starts
<1> QED
  BY <1>1, <1>6 DEF new

\* The reference of the first of a set of entries.
IsFirstRef(routes, ref, X) ==
    \/ X = {} /\ ref = NoRef
    \/ \E e \in X : ref = RefOf(routes, e) /\ \A f \in X : ~Before(f, e)

\* Of two such references the lesser is the one of both sets.
LEMMA LesserRef ==
    ASSUME NEW routes, IsTable(routes),
           NEW X \in SUBSET Entries(routes), NEW Y \in SUBSET Entries(routes),
           NEW p, IsFirstRef(routes, p, X), NEW q, IsFirstRef(routes, q, Y)
    PROVE  IsFirstRef(routes, IF RefLess(p, q) THEN p ELSE q, X \cup Y)
<1>1. \A e \in Entries(routes) : RefOf(routes, e) # NoRef
  BY EntryFacts
<1>2. \A e, f \in Entries(routes) : RefLess(RefOf(routes, e), RefOf(routes, f)) <=> Before(e, f)
  BY RefOrder
<1>3. /\ \A e, f \in Entries(routes) : Before(e, f) => ~Before(f, e) /\ e # f
      /\ \A e, f, g \in Entries(routes) : ~Before(f, e) /\ ~Before(g, f) => ~Before(g, e)
  BY BeforeIsTotal
<1>4. CASE Y = {} /\ q = NoRef
  <2>1. CASE X = {} /\ p = NoRef
    BY <1>4, <2>1 DEF IsFirstRef, RefLess
  <2>2. CASE X # {}
    <3>1. p # NoRef
      BY <1>1, <2>2 DEF IsFirstRef
    <3>2. RefLess(p, q)
      BY <1>4, <3>1 DEF RefLess
    <3>3. X \cup Y = X
      BY <1>4
    <3> QED
      BY <3>2, <3>3
  <2> QED
    BY <2>1, <2>2 DEF IsFirstRef
<1>5. ASSUME NEW y \in Y, q = RefOf(routes, y), \A f \in Y : ~Before(f, y)
      PROVE  IsFirstRef(routes, IF RefLess(p, q) THEN p ELSE q, X \cup Y)
  <2>1. CASE X = {} /\ p = NoRef
    <3>1. ~RefLess(p, q)
      BY <2>1 DEF RefLess
    <3>2. X \cup Y = Y
      BY <2>1
    <3> QED
      BY <3>1, <3>2
  <2>2. ASSUME NEW x \in X, p = RefOf(routes, x), \A f \in X : ~Before(f, x)
        PROVE  IsFirstRef(routes, IF RefLess(p, q) THEN p ELSE q, X \cup Y)
    <3>1. RefLess(p, q) <=> Before(x, y)
      BY <1>2, <1>5, <2>2
    <3>2. CASE Before(x, y)
      <4>1. ~Before(y, x)
        BY <1>3, <3>2
      <4>2. \A f \in X \cup Y : ~Before(f, x)
        BY <1>3, <1>5, <2>2, <4>1
      <4> QED
        BY <2>2, <3>1, <3>2, <4>2 DEF IsFirstRef
    <3>3. CASE ~Before(x, y)
      <4>1. \A f \in X \cup Y : ~Before(f, y)
        BY <1>3, <1>5, <2>2, <3>3
      <4> QED
        BY <1>5, <3>1, <3>3, <4>1 DEF IsFirstRef
    <3> QED
      BY <3>2, <3>3
  <2> QED
    BY <2>1, <2>2 DEF IsFirstRef
<1> QED
  BY <1>4, <1>5 DEF IsFirstRef

\* Entries of a method, and those that end at a node and serve a method.
Serves(routes, e, method) == MethodsOf(routes, e) \cap {"*", method} # {}
EndingWith(routes, m, node) ==
    {e \in Entries(routes) : EndsAt(routes, e, node) /\ m \in MethodsOf(routes, e)}
Ending(routes, method, node) ==
    {e \in Entries(routes) : EndsAt(routes, e, node) /\ Serves(routes, e, method)}

\* A node knows the first entry of every method that ends there.
LEMMA FirstOfMethod ==
    ASSUME NEW routes, IsTable(routes), NEW tree, IsTreeOf(tree, routes, Entries(routes)),
           NEW node, NEW m
    PROVE  IsFirstRef(routes, IF m \in DOMAIN At(tree, node).byMethod
                              THEN At(tree, node).byMethod[m][1] ELSE NoRef,
                      EndingWith(routes, m, node))
<1> DEFINE ref == IF m \in DOMAIN At(tree, node).byMethod THEN At(tree, node).byMethod[m][1] ELSE NoRef
<1>1. /\ NodesArePassed(tree, routes, Entries(routes)) /\ MethodsAreFirst(tree, routes, Entries(routes))
      /\ MethodsAreKnown(tree, routes, Entries(routes))
  BY DEF IsTreeOf
<1>2. \A e \in EndingWith(routes, m, node) :
        node \in DOMAIN tree /\ m \in DOMAIN tree[node].byMethod
  <2>1. SUFFICES ASSUME NEW e \in Entries(routes), EndsAt(routes, e, node), m \in MethodsOf(routes, e)
        PROVE  node \in DOMAIN tree /\ m \in DOMAIN tree[node].byMethod
    BY DEF EndingWith
  <2>2. Passes(routes, e, node)
    BY <2>1, EntryFacts DEF EndsAt, Passes
  <2>3. node \in DOMAIN tree
    BY <1>1, <2>2 DEF NodesArePassed
  <2> QED
    BY <1>1, <2>1, <2>3 DEF MethodsAreKnown
<1>3. CASE node \in DOMAIN tree /\ m \in DOMAIN tree[node].byMethod
  <2>1. ref = tree[node].byMethod[m][1]
    BY <1>3 DEF At
  <2> HIDE DEF ref
  <2>2. \E e \in Entries(routes) :
          /\ EndsAt(routes, e, node) /\ m \in MethodsOf(routes, e)
          /\ tree[node].byMethod[m][1] = RefOf(routes, e)
          /\ \A f \in Entries(routes) : EndsAt(routes, f, node) /\ m \in MethodsOf(routes, f) => ~Before(f, e)
    BY <1>1, <1>3 DEF MethodsAreFirst
  <2>3. IsFirstRef(routes, ref, EndingWith(routes, m, node))
    BY <2>1, <2>2 DEF IsFirstRef, EndingWith
  <2> QED
    BY <2>3 DEF ref
<1>4. CASE ~(node \in DOMAIN tree /\ m \in DOMAIN tree[node].byMethod)
  <2>1. ref = NoRef
    BY <1>4 DEF At, EmptyNode
  <2>2. EndingWith(routes, m, node) = {}
    BY <1>2, <1>4
  <2> QED
    BY <2>1, <2>2 DEF IsFirstRef
<1> QED
  BY <1>3, <1>4

\* All matches of a set of entries captured the same.
AllMatch(routes, parts, X, captures, wildcard) ==
    \A e \in X : /\ MatchOf(routes, parts, e).captures = captures
                 /\ MatchOf(routes, parts, e).wildcard = wildcard

\* selectMatch: the entries that end at a node are taken into account.
LEMMA Selected ==
    ASSUME NEW routes, IsTable(routes), NEW tree, IsTreeOf(tree, routes, Entries(routes)),
           NEW node, NEW method, NEW parts, NEW captures, NEW wildcard,
           AllMatch(routes, parts, Ending(routes, method, node), captures, wildcard),
           NEW X \in SUBSET Entries(routes), NEW b, IsBest(routes, parts, b, X)
    PROVE  IsBest(routes, parts, SelectMatch(At(tree, node), method, captures, wildcard, b),
                  X \cup Ending(routes, method, node))
<1> DEFINE First(m) == IF m \in DOMAIN At(tree, node).byMethod THEN At(tree, node).byMethod[m][1] ELSE NoRef
           candidate == IF RefLess(First("*"), First(method)) THEN First("*") ELSE First(method)
           Y == Ending(routes, method, node)
           selected == IF RefLess(candidate, b.ref)
                       THEN [ref |-> candidate, captures |-> captures, wildcard |-> wildcard] ELSE b
<1>1. SelectMatch(At(tree, node), method, captures, wildcard, b) = selected
  BY DEF SelectMatch
<1>2. /\ IsFirstRef(routes, First("*"), EndingWith(routes, "*", node))
      /\ IsFirstRef(routes, First(method), EndingWith(routes, method, node))
  BY FirstOfMethod
<1>3. Y = EndingWith(routes, "*", node) \cup EndingWith(routes, method, node)
  BY DEF Ending, EndingWith, Serves
<1>4. /\ EndingWith(routes, "*", node) \in SUBSET Entries(routes)
      /\ EndingWith(routes, method, node) \in SUBSET Entries(routes) /\ Y \in SUBSET Entries(routes)
  BY DEF EndingWith, Ending
<1> HIDE DEF First
<1>5. IsFirstRef(routes, candidate, Y)
  <2> DEFINE A == EndingWith(routes, "*", node)
             B == EndingWith(routes, method, node)
             p == First("*")
             q == First(method)
  <2>1. /\ A \in SUBSET Entries(routes) /\ B \in SUBSET Entries(routes) /\ Y = A \cup B
        /\ IsFirstRef(routes, p, A) /\ IsFirstRef(routes, q, B)
    BY <1>2, <1>3, <1>4
  <2>2. candidate = IF RefLess(p, q) THEN p ELSE q
    OBVIOUS
  <2> HIDE DEF A, B, p, q, Y, candidate
  <2>3. IsFirstRef(routes, IF RefLess(p, q) THEN p ELSE q, A \cup B)
    BY <2>1, LesserRef
  <2> QED
    BY <2>1, <2>2, <2>3
<1>6. IsFirstRef(routes, b.ref, X)
  BY DEF IsBest, IsFirstRef, MatchOf, NoMatch
<1> HIDE DEF candidate, Y
<1>7. IsFirstRef(routes, IF RefLess(candidate, b.ref) THEN candidate ELSE b.ref, Y \cup X)
  BY <1>4, <1>5, <1>6, LesserRef
<1>8. \A e \in Entries(routes) : RefOf(routes, e) # NoRef
  BY EntryFacts
<1>9. CASE RefLess(candidate, b.ref)
  <2>1. candidate # NoRef
    BY <1>9 DEF RefLess
  <2>2. PICK e \in Y \cup X : candidate = RefOf(routes, e) /\ \A f \in Y \cup X : ~Before(f, e)
    BY <1>7, <1>9, <2>1 DEF IsFirstRef
  <2>3. e \in Y
    <3>1. SUFFICES ASSUME e \in X PROVE FALSE
      BY <2>2
    <3>2. PICK x \in X : b.ref = RefOf(routes, x) /\ \A f \in X : ~Before(f, x)
      BY <1>6, <3>1 DEF IsFirstRef
    <3>3. Before(e, x)
      BY <1>4, <1>9, <2>2, <3>1, <3>2, RefOrder
    <3> QED
      BY <3>1, <3>2, <3>3
  <2>4. MatchOf(routes, parts, e) = [ref |-> candidate, captures |-> captures, wildcard |-> wildcard]
    <3>1. /\ MatchOf(routes, parts, e).captures = captures
          /\ MatchOf(routes, parts, e).wildcard = wildcard
      BY <2>3 DEF Y, AllMatch
    <3> QED
      BY <2>2, <3>1 DEF MatchOf
  <2> QED
    BY <1>1, <1>9, <2>2, <2>3, <2>4 DEF IsBest, Y
<1>10. CASE ~RefLess(candidate, b.ref)
  <2>1. selected = b
    BY <1>10
  <2>2. CASE X = {} /\ b = NoMatch
    <3>1. Y = {}
      BY <1>5, <1>8, <1>4, <1>10, <2>2 DEF IsFirstRef, RefLess, NoMatch
    <3> QED
      BY <1>1, <2>1, <2>2, <3>1 DEF IsBest, Y
  <2>3. ASSUME NEW x \in X, b = MatchOf(routes, parts, x), \A f \in X : ~Before(f, x)
        PROVE  \A f \in X \cup Y : ~Before(f, x)
    <3>1. b.ref = RefOf(routes, x)
      BY <2>3 DEF MatchOf
    <3>2. ASSUME NEW f \in Y PROVE ~Before(f, x)
      <4>1. PICK y \in Y : candidate = RefOf(routes, y) /\ \A g \in Y : ~Before(g, y)
        BY <1>5, <3>2 DEF IsFirstRef
      <4>2. ~Before(y, x)
        BY <1>4, <1>10, <3>1, <4>1, RefOrder
      <4> QED
        BY <1>4, <3>2, <4>1, <4>2, BeforeIsTotal
    <3> QED
      BY <2>3, <3>2
  <2> QED
    BY <1>1, <2>1, <2>2, <2>3 DEF IsBest, Y
<1> QED
  BY <1>9, <1>10

\* Erasing the name of a parameter keeps what a segment fits.
LEMMA ErasedToken ==
    ASSUME NEW t \in Tokens, NEW part
    PROVE  /\ Erased(t) \in NodeTokens /\ (Erased(t) = Rest <=> t = Rest)
           /\ SegmentFits(Erased(t), part) <=> SegmentFits(t, part)
           /\ t.kind = "literal" /\ SegmentFits(t, part) => Erased(t) = Lit(part)
           /\ t.kind = "param" <=> Erased(t) = Param("")
           /\ t.kind = "wildcard" => Erased(t) = Star
           /\ t.kind = "rest" <=> t = Rest
           /\ t.kind \in {"literal", "param", "wildcard", "rest"}
<1>1. /\ t.kind \in {"literal", "param", "wildcard", "rest"}
      /\ t.kind = "literal" => t = Lit(t.value)
      /\ t.kind = "wildcard" => t = Star
      /\ t.kind = "rest" <=> t = Rest
  BY TokenTypes
<1>2. Erased(t) = IF t.kind = "param" THEN Param("") ELSE t
  BY DEF Erased
<1>3. Param("") \in NodeTokens /\ Param("").kind = "param" /\ Rest.kind = "rest"
  BY DEF NodeTokens, Param, Rest
<1>6. t.kind = "literal" /\ SegmentFits(t, part) => t = Lit(part)
  BY <1>1 DEF SegmentFits
<1>7. t = Param("") => t.kind = "param"
  BY <1>3
<1>8. Param("") # Rest
  BY <1>3
<1>9. SegmentFits(Erased(t), part) <=> SegmentFits(t, part)
  BY <1>2, <1>3 DEF SegmentFits
<1>10. Erased(t) \in NodeTokens /\ (Erased(t) = Rest <=> t = Rest)
  BY <1>1, <1>2, <1>3, <1>8 DEF NodeTokens
<1>11. t.kind = "param" <=> Erased(t) = Param("")
  BY <1>2, <1>7
<1>12. /\ t.kind = "literal" /\ SegmentFits(t, part) => Erased(t) = Lit(part)
       /\ t.kind = "wildcard" => Erased(t) = Star
  BY <1>1, <1>2, <1>6
<1> QED
  BY <1>1, <1>9, <1>10, <1>11, <1>12

\* The segments that lead to a node fit the request so far.
Reaches(toks, parts) ==
    /\ Len(toks) <= Len(parts)
    /\ \A i \in 1..Len(toks) : toks[i] # Rest /\ SegmentFits(toks[i], parts[i])

\* A URI that starts with such segments fits as far.
LEMMA StartsFitting ==
    ASSUME NEW uri \in URIs, NEW s, NEW h, NEW toks \in Seq(NodeTokens), NEW parts \in Seq(STRING),
           Reaches(toks, parts), Starts(uri, s, h, toks)
    PROVE  /\ \A i \in 1..Len(toks) : uri.path[i] # Rest /\ SegmentFits(uri.path[i], parts[i])
           /\ Len(toks) = Len(uri.path) => ~EndsInRest(uri.path)
<1>1. uri.path \in Seq(Tokens)
  BY DEF URIs
<1>2. Len(uri.path) \in Nat /\ Len(toks) \in Nat /\ Len(toks) <= Len(uri.path)
  BY <1>1 DEF Starts
<1>3. ASSUME NEW i \in 1..Len(toks)
      PROVE  uri.path[i] # Rest /\ SegmentFits(uri.path[i], parts[i])
  <2>1. uri.path[i] \in Tokens
    BY <1>1, <1>2
  <2>2. Erased(uri.path[i]) = toks[i] /\ toks[i] # Rest /\ SegmentFits(toks[i], parts[i])
    BY DEF Starts, Reaches
  <2>3. /\ Erased(uri.path[i]) = Rest <=> uri.path[i] = Rest
        /\ SegmentFits(Erased(uri.path[i]), parts[i]) <=> SegmentFits(uri.path[i], parts[i])
    BY <2>1, ErasedToken
  <2> QED
    BY <2>2, <2>3
<1>4. Len(toks) = Len(uri.path) => ~EndsInRest(uri.path)
  <2>1. SUFFICES ASSUME Len(toks) = Len(uri.path), uri.path # <<>> PROVE uri.path[Len(uri.path)] # Rest
    BY DEF EndsInRest
  <2>2. Len(uri.path) \in 1..Len(toks)
    BY <1>1, <1>2, <2>1
  <2> QED
    BY <1>3, <2>2
<1> QED
  BY <1>3, <1>4

\* PathFits, by the end of the path.
LEMMA PathFitsIs ==
    ASSUME NEW path, NEW parts
    PROVE  PathFits(path, parts) <=>
               \/ /\ EndsInRest(path) /\ Len(parts) >= Len(path) - 1
                  /\ \A i \in 1..(Len(path) - 1) : SegmentFits(path[i], parts[i])
               \/ /\ ~EndsInRest(path) /\ Len(parts) = Len(path)
                  /\ \A i \in DOMAIN path : SegmentFits(path[i], parts[i])
  BY DEF PathFits, EndsInRest

\* A URI that goes on with ** ends there and fits.
LEMMA RestChild ==
    ASSUME NEW uri \in URIs, NEW s, NEW h, NEW toks \in Seq(NodeTokens), NEW parts \in Seq(STRING),
           Reaches(toks, parts), Starts(uri, s, h, toks), ValidPath(uri.path),
           Len(toks) < Len(uri.path), uri.path[Len(toks) + 1] = Rest
    PROVE  /\ Len(uri.path) = Len(toks) + 1 /\ EndsInRest(uri.path) /\ PathFits(uri.path, parts)
<1>1. uri.path \in Seq(Tokens)
  BY DEF URIs
<1>2. Len(uri.path) \in Nat /\ Len(toks) \in Nat /\ DOMAIN uri.path = 1..Len(uri.path)
  BY <1>1
<1>3. Len(uri.path) = Len(toks) + 1
  BY <1>2 DEF ValidPath
<1>4. EndsInRest(uri.path)
  BY <1>1, <1>2, <1>3 DEF EndsInRest
<1>5. \A i \in 1..Len(toks) : uri.path[i] # Rest /\ SegmentFits(uri.path[i], parts[i])
  BY StartsFitting
<1>6. Len(parts) >= Len(uri.path) - 1 /\ Len(uri.path) - 1 = Len(toks)
  BY <1>2, <1>3 DEF Reaches
<1> QED
  BY <1>3, <1>4, <1>5, <1>6, PathFitsIs

\* The end of a request: the URIs that end at the node, or with ** next.
LEMMA FitsAtEnd ==
    ASSUME NEW uri \in URIs, NEW s, NEW h, NEW toks \in Seq(NodeTokens), NEW parts \in Seq(STRING),
           Reaches(toks, parts), ValidPath(uri.path), Len(toks) = Len(parts)
    PROVE  Starts(uri, s, h, toks) /\ PathFits(uri.path, parts) <=>
               \/ Starts(uri, s, h, toks) /\ Len(uri.path) = Len(toks)
               \/ Starts(uri, s, h, Append(toks, Rest)) /\ Len(uri.path) = Len(Append(toks, Rest))
<1>1. uri.path \in Seq(Tokens)
  BY DEF URIs
<1>2. /\ Len(uri.path) \in Nat /\ Len(toks) \in Nat /\ Len(parts) \in Nat
      /\ DOMAIN uri.path = 1..Len(uri.path)
  BY <1>1
<1>3. Rest \in NodeTokens
  BY DEF NodeTokens, Tokens
<1>4. /\ Len(Append(toks, Rest)) = Len(toks) + 1
      /\ Starts(uri, s, h, Append(toks, Rest)) <=>
             /\ Starts(uri, s, h, toks) /\ Len(toks) < Len(uri.path)
             /\ Erased(uri.path[Len(toks) + 1]) = Rest
  BY <1>2, <1>3, StartsChild
<1>5. Len(toks) < Len(uri.path) => uri.path[Len(toks) + 1] \in Tokens
  BY <1>1, <1>2
<1>6. Len(toks) < Len(uri.path) =>
        (Erased(uri.path[Len(toks) + 1]) = Rest <=> uri.path[Len(toks) + 1] = Rest)
  BY <1>5, ErasedToken
<1>7. ASSUME Starts(uri, s, h, toks), PathFits(uri.path, parts)
      PROVE  \/ Len(uri.path) = Len(toks)
             \/ /\ Len(toks) < Len(uri.path) /\ uri.path[Len(toks) + 1] = Rest
                /\ Len(uri.path) = Len(toks) + 1
  <2>1. Len(toks) <= Len(uri.path)
    BY <1>7 DEF Starts
  <2>2. EndsInRest(uri.path) => Len(uri.path) # Len(toks)
    BY <1>7, StartsFitting
  <2>3. CASE EndsInRest(uri.path)
    <3>1. Len(parts) >= Len(uri.path) - 1
      BY <1>7, <2>3, PathFitsIs
    <3>2. Len(uri.path) = Len(toks) + 1
      BY <1>2, <2>1, <2>2, <2>3, <3>1
    <3> QED
      BY <1>2, <2>3, <3>2 DEF EndsInRest
  <2>4. CASE ~EndsInRest(uri.path)
    BY <1>7, <2>4, PathFitsIs
  <2> QED
    BY <2>3, <2>4
<1>8. ASSUME Starts(uri, s, h, toks), Len(uri.path) = Len(toks)
      PROVE  PathFits(uri.path, parts)
  BY <1>2, <1>8, StartsFitting, PathFitsIs
<1>9. ASSUME Starts(uri, s, h, toks), Len(toks) < Len(uri.path), uri.path[Len(toks) + 1] = Rest
      PROVE  PathFits(uri.path, parts)
  BY <1>9, RestChild
<1> QED
  BY <1>4, <1>6, <1>7, <1>8, <1>9

\* A segment further: the URIs below the children for the segment, for {name} and
\* for *, or with ** next.
LEMMA FitsDeeper ==
    ASSUME NEW uri \in URIs, NEW s, NEW h, NEW toks \in Seq(NodeTokens), NEW parts \in Seq(STRING),
           Reaches(toks, parts), ValidPath(uri.path), Len(toks) < Len(parts)
    PROVE  Starts(uri, s, h, toks) /\ PathFits(uri.path, parts) <=>
               \/ Starts(uri, s, h, Append(toks, Lit(parts[Len(toks) + 1]))) /\ PathFits(uri.path, parts)
               \/ Starts(uri, s, h, Append(toks, Param(""))) /\ PathFits(uri.path, parts)
               \/ Starts(uri, s, h, Append(toks, Star)) /\ PathFits(uri.path, parts)
               \/ Starts(uri, s, h, Append(toks, Rest)) /\ Len(uri.path) = Len(Append(toks, Rest))
<1> DEFINE d == Len(toks)
           part == parts[d + 1]
           t == uri.path[d + 1]
<1>1. uri.path \in Seq(Tokens)
  BY DEF URIs
<1>2. /\ Len(uri.path) \in Nat /\ d \in Nat /\ Len(parts) \in Nat
      /\ DOMAIN uri.path = 1..Len(uri.path)
  BY <1>1
<1>3. part \in STRING
  BY <1>2
<1>4. Rest \in NodeTokens /\ Star \in NodeTokens /\ Param("") \in NodeTokens /\ Lit(part) \in NodeTokens
  BY <1>3 DEF NodeTokens, Tokens, Lit
<1> HIDE DEF part, t
<1>5. \A c \in NodeTokens :
        /\ Len(Append(toks, c)) = d + 1
        /\ Starts(uri, s, h, Append(toks, c)) <=>
             Starts(uri, s, h, toks) /\ d < Len(uri.path) /\ Erased(t) = c
  BY <1>2, StartsChild DEF t
<1>6. d < Len(uri.path) => t \in Tokens
  BY <1>1, <1>2 DEF t
<1>7. d < Len(uri.path) =>
           /\ (Erased(t) = Rest <=> t = Rest)
           /\ t.kind = "literal" /\ SegmentFits(t, part) => Erased(t) = Lit(part)
           /\ t.kind = "param" => Erased(t) = Param("")
           /\ t.kind = "wildcard" => Erased(t) = Star
           /\ t.kind = "rest" => t = Rest
           /\ t.kind \in {"literal", "param", "wildcard", "rest"}
  BY <1>6, ErasedToken
<1>8. ASSUME Starts(uri, s, h, toks), PathFits(uri.path, parts)
      PROVE  d < Len(uri.path) /\ (t = Rest \/ SegmentFits(t, part))
  <2>1. d <= Len(uri.path)
    BY <1>8 DEF Starts
  <2>2. EndsInRest(uri.path) => Len(uri.path) # d
    BY <1>8, StartsFitting
  <2>3. CASE EndsInRest(uri.path)
    <3>1. d < Len(uri.path)
      BY <1>2, <2>1, <2>2, <2>3
    <3>2. \A i \in 1..(Len(uri.path) - 1) : SegmentFits(uri.path[i], parts[i])
      BY <1>8, <2>3, PathFitsIs
    <3>3. uri.path[Len(uri.path)] = Rest
      BY <2>3 DEF EndsInRest
    <3>4. d + 1 = Len(uri.path) \/ d + 1 \in 1..(Len(uri.path) - 1)
      BY <1>2, <3>1
    <3> QED
      BY <3>1, <3>2, <3>3, <3>4 DEF part, t
  <2>4. CASE ~EndsInRest(uri.path)
    <3>1. Len(parts) = Len(uri.path) /\ \A i \in DOMAIN uri.path : SegmentFits(uri.path[i], parts[i])
      BY <1>8, <2>4, PathFitsIs
    <3>2. d + 1 \in DOMAIN uri.path
      BY <1>2, <3>1
    <3> QED
      BY <1>2, <3>1, <3>2 DEF part, t
  <2> QED
    BY <2>3, <2>4
<1>9. ASSUME Starts(uri, s, h, toks), d < Len(uri.path), t = Rest
      PROVE  PathFits(uri.path, parts) /\ Len(uri.path) = d + 1
  BY <1>9, RestChild DEF t
<1> HIDE DEF d
<1>10. /\ Len(Append(toks, Rest)) = d + 1
       /\ Starts(uri, s, h, Append(toks, Rest)) <=>
             Starts(uri, s, h, toks) /\ d < Len(uri.path) /\ Erased(t) = Rest
       /\ Starts(uri, s, h, Append(toks, Star)) <=>
             Starts(uri, s, h, toks) /\ d < Len(uri.path) /\ Erased(t) = Star
       /\ Starts(uri, s, h, Append(toks, Param(""))) <=>
             Starts(uri, s, h, toks) /\ d < Len(uri.path) /\ Erased(t) = Param("")
       /\ Starts(uri, s, h, Append(toks, Lit(part))) <=>
             Starts(uri, s, h, toks) /\ d < Len(uri.path) /\ Erased(t) = Lit(part)
  BY <1>4, <1>5
<1>11. Starts(uri, s, h, toks) /\ PathFits(uri.path, parts) <=>
               \/ Starts(uri, s, h, Append(toks, Lit(part))) /\ PathFits(uri.path, parts)
               \/ Starts(uri, s, h, Append(toks, Param(""))) /\ PathFits(uri.path, parts)
               \/ Starts(uri, s, h, Append(toks, Star)) /\ PathFits(uri.path, parts)
               \/ Starts(uri, s, h, Append(toks, Rest)) /\ Len(uri.path) = Len(Append(toks, Rest))
  BY <1>7, <1>8, <1>9, <1>10
<1> QED
  BY <1>11 DEF part, d

\* The entries a lookup may find below a node, and what it has captured there.
Below(routes, parts, method, s, h, toks) ==
    {e \in Entries(routes) :
        /\ Starts(UriOf(routes, e), s, h, toks) /\ PathFits(PathOf(routes, e), parts)
        /\ Serves(routes, e, method)}
Aligned(routes, parts, s, h, toks, captures) ==
    \A e \in Entries(routes) : Starts(UriOf(routes, e), s, h, toks) =>
        CapturedUpTo(PathOf(routes, e), parts)[Len(toks)] = captures
OfLength(routes, parts) == {e \in Entries(routes) : Sized(PathOf(routes, e), parts)}

\* A path fits only if its length does.
LEMMA BelowIsSized ==
    ASSUME NEW routes, NEW parts, NEW method, NEW s, NEW h, NEW toks
    PROVE  Below(routes, parts, method, s, h, toks) \in SUBSET OfLength(routes, parts)
  BY PathFitsIs DEF Below, OfLength, Sized

\* The paths of a table that is not refused go on after ** nowhere.
LEMMA EntryIsValid ==
    ASSUME NEW routes, IsTable(routes), Valid(routes), NEW e \in Entries(routes)
    PROVE  ValidPath(PathOf(routes, e))
<1>1. /\ e[1] \in 1..Len(routes) /\ e[2] \in 1..Len(routes[e[1]].uris)
  BY EntryFacts
<1>2. e[1] \in DOMAIN routes
  BY <1>1 DEF IsTable
<1>3. e[2] \in DOMAIN routes[e[1]].uris
  <2>1. routes[e[1]].uris \in Seq(URIs)
    BY <1>2 DEF IsTable
  <2> QED
    BY <1>1, <2>1
<1> QED
  BY <1>2, <1>3 DEF Valid, PathOf, UriOf

\* The entries a lookup takes at a node when the request ends there.
TakenAtEnd(routes, method, s, h, toks) ==
    Ending(routes, method, <<s, h, toks>>) \cup Ending(routes, method, <<s, h, Append(toks, Rest)>>)

\* The entries below the children for a segment, and those that end with **.
TakenDeeper(routes, parts, method, s, h, toks, part) ==
    ((Below(routes, parts, method, s, h, Append(toks, Lit(part)))
        \cup Below(routes, parts, method, s, h, Append(toks, Param(""))))
        \cup Below(routes, parts, method, s, h, Append(toks, Star)))
    \cup Ending(routes, method, <<s, h, Append(toks, Rest)>>)

\* At the end of the request.
LEMMA BelowAtEnd ==
    ASSUME NEW routes, IsTable(routes), Valid(routes), NEW parts \in Seq(STRING), NEW method,
           NEW s, NEW h, NEW toks \in Seq(NodeTokens), Reaches(toks, parts), Len(toks) = Len(parts)
    PROVE  Below(routes, parts, method, s, h, toks) = TakenAtEnd(routes, method, s, h, toks)
<1>1. Append(toks, Rest) \in Seq(NodeTokens)
  <2>1. Rest \in NodeTokens
    BY DEF NodeTokens, Tokens
  <2> QED
    BY <2>1, AppendProperties
<1> DEFINE more == Append(toks, Rest)
<1>2. ASSUME NEW e \in Entries(routes)
      PROVE  Starts(UriOf(routes, e), s, h, toks) /\ PathFits(PathOf(routes, e), parts) <=>
               EndsAt(routes, e, <<s, h, toks>>) \/ EndsAt(routes, e, <<s, h, more>>)
  <2>1. UriOf(routes, e) \in URIs /\ ValidPath(UriOf(routes, e).path)
    BY EntryFacts, EntryIsValid DEF PathOf
  <2>2. Starts(UriOf(routes, e), s, h, toks) /\ PathFits(UriOf(routes, e).path, parts) <=>
               \/ Starts(UriOf(routes, e), s, h, toks) /\ Len(UriOf(routes, e).path) = Len(toks)
               \/ Starts(UriOf(routes, e), s, h, more) /\ Len(UriOf(routes, e).path) = Len(more)
    BY <2>1, FitsAtEnd
  <2>3. EndsAt(routes, e, <<s, h, toks>>) <=>
          Starts(UriOf(routes, e), s, h, toks) /\ Len(PathOf(routes, e)) = Len(toks)
    BY PassesIs
  <2> HIDE DEF more
  <2>4. EndsAt(routes, e, <<s, h, more>>) <=>
          Starts(UriOf(routes, e), s, h, more) /\ Len(PathOf(routes, e)) = Len(more)
    BY <1>1, PassesIs DEF more
  <2> QED
    BY <2>2, <2>3, <2>4 DEF PathOf
<1> HIDE DEF more
<1>3. Below(routes, parts, method, s, h, toks)
        = Ending(routes, method, <<s, h, toks>>) \cup Ending(routes, method, <<s, h, more>>)
  BY <1>2 DEF Below, Ending
<1> QED
  BY <1>3 DEF more, TakenAtEnd

\* A segment further.
LEMMA BelowDeeper ==
    ASSUME NEW routes, IsTable(routes), Valid(routes), NEW parts \in Seq(STRING), NEW method,
           NEW s, NEW h, NEW toks \in Seq(NodeTokens), Reaches(toks, parts), Len(toks) < Len(parts)
    PROVE  Below(routes, parts, method, s, h, toks)
             = TakenDeeper(routes, parts, method, s, h, toks, parts[Len(toks) + 1])
<1>1. Append(toks, Rest) \in Seq(NodeTokens)
  <2>1. Rest \in NodeTokens
    BY DEF NodeTokens, Tokens
  <2> QED
    BY <2>1, AppendProperties
<1> DEFINE lit == Append(toks, Lit(parts[Len(toks) + 1]))
           param == Append(toks, Param(""))
           star == Append(toks, Star)
           more == Append(toks, Rest)
<1>2. ASSUME NEW e \in Entries(routes)
      PROVE  Starts(UriOf(routes, e), s, h, toks) /\ PathFits(PathOf(routes, e), parts) <=>
               \/ Starts(UriOf(routes, e), s, h, lit) /\ PathFits(PathOf(routes, e), parts)
               \/ Starts(UriOf(routes, e), s, h, param) /\ PathFits(PathOf(routes, e), parts)
               \/ Starts(UriOf(routes, e), s, h, star) /\ PathFits(PathOf(routes, e), parts)
               \/ EndsAt(routes, e, <<s, h, more>>)
  <2>1. UriOf(routes, e) \in URIs /\ ValidPath(UriOf(routes, e).path)
    BY EntryFacts, EntryIsValid DEF PathOf
  <2>2. Starts(UriOf(routes, e), s, h, toks) /\ PathFits(UriOf(routes, e).path, parts) <=>
               \/ Starts(UriOf(routes, e), s, h, lit) /\ PathFits(UriOf(routes, e).path, parts)
               \/ Starts(UriOf(routes, e), s, h, param) /\ PathFits(UriOf(routes, e).path, parts)
               \/ Starts(UriOf(routes, e), s, h, star) /\ PathFits(UriOf(routes, e).path, parts)
               \/ Starts(UriOf(routes, e), s, h, more) /\ Len(UriOf(routes, e).path) = Len(more)
    BY <2>1, FitsDeeper
  <2> HIDE DEF more, lit, param, star
  <2>3. EndsAt(routes, e, <<s, h, more>>) <=>
          Starts(UriOf(routes, e), s, h, more) /\ Len(PathOf(routes, e)) = Len(more)
    BY <1>1, PassesIs DEF more
  <2> QED
    BY <2>2, <2>3 DEF PathOf
<1> HIDE DEF more, lit, param, star
<1>3. Below(routes, parts, method, s, h, toks)
        = ((Below(routes, parts, method, s, h, lit) \cup Below(routes, parts, method, s, h, param))
             \cup Below(routes, parts, method, s, h, star))
          \cup Ending(routes, method, <<s, h, more>>)
  BY <1>2 DEF Below, Ending
<1> QED
  BY <1>3 DEF more, lit, param, star, TakenDeeper

\* A child captures the next segment if it is a parameter.
LEMMA ChildAligned ==
    ASSUME NEW routes, IsTable(routes), NEW parts, NEW s, NEW h, NEW toks \in Seq(NodeTokens),
           NEW captures, Aligned(routes, parts, s, h, toks, captures), NEW t \in NodeTokens
    PROVE  Aligned(routes, parts, s, h, Append(toks, t),
                   IF t = Param("") THEN Append(captures, parts[Len(toks) + 1]) ELSE captures)
<1> DEFINE n == Len(toks) + 1
           new == Append(toks, t)
<1>1. SUFFICES ASSUME NEW e \in Entries(routes), Starts(UriOf(routes, e), s, h, new)
      PROVE  CapturedUpTo(PathOf(routes, e), parts)[Len(new)]
               = IF t = Param("") THEN Append(captures, parts[n]) ELSE captures
  BY DEF Aligned
<1> DEFINE uri == UriOf(routes, e)
           path == PathOf(routes, e)
<1>2. path \in Seq(Tokens) /\ Len(path) \in Nat /\ uri.path = path
  BY EntryFacts DEF PathOf
<1> HIDE DEF uri, path
<1>3. Len(new) = n /\ Starts(uri, s, h, toks) /\ Len(toks) < Len(path) /\ Erased(path[n]) = t
  BY <1>1, <1>2, StartsChild DEF uri
<1>4. n \in 1..Len(path) /\ n - 1 = Len(toks)
  BY <1>2, <1>3
<1>5. path[n] \in Tokens
  BY <1>2, <1>4
<1>6. path[n].kind = "param" <=> t = Param("")
  BY <1>3, <1>5, ErasedToken
<1>7. CapturedUpTo(path, parts)[Len(toks)] = captures
  BY <1>3 DEF Aligned, uri, path
<1>8. CapturedUpTo(path, parts)[n] = IF path[n].kind = "param"
          THEN Append(CapturedUpTo(path, parts)[n - 1], parts[n]) ELSE CapturedUpTo(path, parts)[n - 1]
  BY <1>2, <1>4, CapturedUnfold
<1> HIDE DEF n, new
<1>9. CapturedUpTo(path, parts)[n] = IF t = Param("") THEN Append(captures, parts[n]) ELSE captures
  BY <1>4, <1>6, <1>7, <1>8
<1> QED
  BY <1>3, <1>9 DEF path

\* The entries that end at a node, and those that end with ** there.
LEMMA EndMatches ==
    ASSUME NEW routes, IsTable(routes), Valid(routes), NEW parts \in Seq(STRING), NEW method,
           NEW s, NEW h, NEW toks \in Seq(NodeTokens), Reaches(toks, parts),
           NEW captures, Aligned(routes, parts, s, h, toks, captures)
    PROVE  /\ AllMatch(routes, parts, Ending(routes, method, <<s, h, toks>>), captures, <<>>)
           /\ AllMatch(routes, parts, Ending(routes, method, <<s, h, Append(toks, Rest)>>),
                       captures, SubSeq(parts, Len(toks) + 1, Len(parts)))
<1>1. ASSUME NEW e \in Ending(routes, method, <<s, h, toks>>)
      PROVE  /\ MatchOf(routes, parts, e).captures = captures
             /\ MatchOf(routes, parts, e).wildcard = <<>>
  <2>1. e \in Entries(routes) /\ EndsAt(routes, e, <<s, h, toks>>)
    BY DEF Ending
  <2>2. Starts(UriOf(routes, e), s, h, toks) /\ Len(PathOf(routes, e)) = Len(toks)
    BY <2>1, PassesIs
  <2>3. CapturedUpTo(PathOf(routes, e), parts)[Len(PathOf(routes, e))] = captures
    BY <2>1, <2>2 DEF Aligned
  <2>4. UriOf(routes, e) \in URIs
    BY <2>1, EntryFacts
  <2>5. ~EndsInRest(PathOf(routes, e))
    BY <2>2, <2>4, StartsFitting DEF PathOf
  <2> QED
    BY <2>3, <2>5 DEF MatchOf
<1>2. ASSUME NEW e \in Ending(routes, method, <<s, h, Append(toks, Rest)>>)
      PROVE  /\ MatchOf(routes, parts, e).captures = captures
             /\ MatchOf(routes, parts, e).wildcard = SubSeq(parts, Len(toks) + 1, Len(parts))
  <2> DEFINE more == Append(toks, Rest)
  <2>0. Rest \in NodeTokens /\ Rest # Param("")
    BY DEF NodeTokens, Tokens, Rest, Param
  <2>1. e \in Entries(routes) /\ EndsAt(routes, e, <<s, h, more>>)
    BY DEF Ending
  <2>2. UriOf(routes, e) \in URIs /\ Len(UriOf(routes, e).path) \in Nat /\ ValidPath(UriOf(routes, e).path)
    BY <2>1, EntryFacts, EntryIsValid DEF PathOf
  <2>3. more \in Seq(NodeTokens) /\ Len(more) = Len(toks) + 1
    BY <2>0, AppendProperties
  <2>4. Aligned(routes, parts, s, h, more, captures)
    BY <2>0, ChildAligned
  <2> HIDE DEF more
  <2>5. Starts(UriOf(routes, e), s, h, more) /\ Len(PathOf(routes, e)) = Len(more)
    BY <2>1, <2>3, PassesIs
  <2>6. CapturedUpTo(PathOf(routes, e), parts)[Len(PathOf(routes, e))] = captures
    BY <2>1, <2>4, <2>5 DEF Aligned
  <2>7. /\ Starts(UriOf(routes, e), s, h, toks) /\ Len(toks) < Len(UriOf(routes, e).path)
        /\ Erased(UriOf(routes, e).path[Len(toks) + 1]) = Rest
    BY <2>0, <2>2, <2>5, StartsChild DEF more
  <2>8. UriOf(routes, e).path[Len(toks) + 1] = Rest
    <3>1. UriOf(routes, e).path[Len(toks) + 1] \in Tokens
      BY <2>2, <2>7 DEF URIs
    <3> QED
      BY <2>7, <3>1, ErasedToken
  <2>9. EndsInRest(PathOf(routes, e))
    BY <2>2, <2>7, <2>8, RestChild DEF PathOf
  <2> QED
    BY <2>3, <2>5, <2>6, <2>9 DEF MatchOf
<1> QED
  BY <1>1, <1>2 DEF AllMatch

\* A branch whose first entry is not before the best match has nothing to add.
LEMMA Pruned ==
    ASSUME NEW routes, IsTable(routes), NEW tree, IsTreeOf(tree, routes, Entries(routes)),
           NEW parts, NEW method, NEW s, NEW h, NEW toks \in Seq(NodeTokens),
           <<s, h, toks>> \in DOMAIN tree, NEW X \in SUBSET Entries(routes),
           NEW b, IsBest(routes, parts, b, X), b.ref # NoRef,
           ~RefLess(tree[<<s, h, toks>>].min, b.ref)
    PROVE  IsBest(routes, parts, b, X \cup Below(routes, parts, method, s, h, toks))
<1>1. PICK e \in Entries(routes) :
        /\ Passes(routes, e, <<s, h, toks>>) /\ tree[<<s, h, toks>>].min = RefOf(routes, e)
        /\ \A f \in Entries(routes) : Passes(routes, f, <<s, h, toks>>) => ~Before(f, e)
  BY DEF IsTreeOf, MinIsFirst
<1>2. b # NoMatch
  BY DEF NoMatch
<1>3. PICK x \in X : b = MatchOf(routes, parts, x) /\ \A f \in X : ~Before(f, x)
  BY <1>2 DEF IsBest
<1>4. b.ref = RefOf(routes, x)
  BY <1>3 DEF MatchOf
<1>5. ~Before(e, x)
  BY <1>1, <1>4, RefOrder
<1>6. ASSUME NEW f \in Below(routes, parts, method, s, h, toks) PROVE ~Before(f, x)
  <2>1. f \in Entries(routes) /\ Starts(UriOf(routes, f), s, h, toks)
    BY DEF Below
  <2>2. ~Before(f, e)
    BY <1>1, <2>1, PassesIs
  <2> QED
    BY <1>5, <2>1, <2>2, BeforeIsTotal
<1> QED
  BY <1>3, <1>6 DEF IsBest

\* No node, no entries below.
LEMMA NothingBelow ==
    ASSUME NEW routes, IsTable(routes), NEW tree, IsTreeOf(tree, routes, Entries(routes)),
           NEW parts, NEW method, NEW s, NEW h, NEW toks \in Seq(NodeTokens),
           <<s, h, toks>> \notin DOMAIN tree
    PROVE  Below(routes, parts, method, s, h, toks) = {}
<1>1. SUFFICES ASSUME NEW e \in Entries(routes), Starts(UriOf(routes, e), s, h, toks) PROVE FALSE
  BY DEF Below
<1>2. Passes(routes, e, <<s, h, toks>>)
  BY <1>1, PassesIs
<1> QED
  BY <1>2 DEF IsTreeOf, NodesArePassed

\* What a match of nodes has to do: go on with the best of the entries seen and of
\* those below the node.
Finds(F, routes, parts, method, tree, n) ==
    \A s, h : \A toks \in Seq(NodeTokens) : \A captures \in Seq(STRING) :
      \A X \in SUBSET OfLength(routes, parts) : \A b :
        /\ Len(toks) = n /\ <<s, h, toks>> \in DOMAIN tree /\ Reaches(toks, parts)
        /\ Aligned(routes, parts, s, h, toks, captures) /\ IsBest(routes, parts, b, X)
        => IsBest(routes, parts, F[<< <<s, h, toks>>, captures, b>>],
                  X \cup Below(routes, parts, method, s, h, toks))

\* Trying a child that may be there.
LEMMA Tried ==
    ASSUME NEW routes, IsTable(routes), NEW tree, IsTreeOf(tree, routes, Entries(routes)),
           NEW parts \in Seq(STRING), NEW method, NEW F, NEW s, NEW h, NEW toks \in Seq(NodeTokens),
           Finds(F, routes, parts, method, tree, Len(toks)), Reaches(toks, parts),
           NEW captures \in Seq(STRING), Aligned(routes, parts, s, h, toks, captures),
           NEW X \in SUBSET OfLength(routes, parts), NEW b, IsBest(routes, parts, b, X)
    PROVE  IsBest(routes, parts, IF <<s, h, toks>> \in DOMAIN tree THEN F[<< <<s, h, toks>>, captures, b>>] ELSE b,
                  X \cup Below(routes, parts, method, s, h, toks))
<1>1. CASE <<s, h, toks>> \in DOMAIN tree
  BY <1>1 DEF Finds
<1>2. CASE <<s, h, toks>> \notin DOMAIN tree
  <2>1. Below(routes, parts, method, s, h, toks) = {}
    BY <1>2, NothingBelow
  <2> QED
    BY <1>2, <2>1
<1> QED
  BY <1>1, <1>2

\* Going on to a child keeps to the request.
LEMMA ReachesChild ==
    ASSUME NEW parts \in Seq(STRING), NEW toks \in Seq(NodeTokens), Reaches(toks, parts),
           Len(toks) < Len(parts), NEW t \in NodeTokens, t # Rest, SegmentFits(t, parts[Len(toks) + 1])
    PROVE  /\ Append(toks, t) \in Seq(NodeTokens) /\ Len(Append(toks, t)) = Len(toks) + 1
           /\ Reaches(Append(toks, t), parts)
<1> DEFINE new == Append(toks, t)
           n == Len(toks)
<1>1. n \in Nat /\ Len(parts) \in Nat /\ new \in Seq(NodeTokens) /\ Len(new) = n + 1
  BY AppendProperties
<1>2. (\A i \in 1..n : new[i] = toks[i]) /\ new[n + 1] = t
  BY AppendProperties
<1>3. \A i \in 1..n : toks[i] # Rest /\ SegmentFits(toks[i], parts[i])
  BY DEF Reaches
<1>4. 1..(n + 1) = (1..n) \cup {n + 1} /\ n + 1 <= Len(parts)
  BY <1>1
<1> HIDE DEF new
<1>5. \A i \in 1..(n + 1) : new[i] # Rest /\ SegmentFits(new[i], parts[i])
  <2> HIDE DEF n
  <2> QED
    BY <1>2, <1>3, <1>4 DEF n
<1> QED
  BY <1>1, <1>4, <1>5 DEF Reaches, new

\* match of the nodes with so many segments left, if that of their children is right.
LEMMA NodesMatch ==
    ASSUME NEW routes, IsTable(routes), Valid(routes),
           NEW tree, IsTreeOf(tree, routes, Entries(routes)),
           NEW parts \in Seq(STRING), NEW method, NEW left \in 0..Len(parts), NEW F,
           left # 0 => Finds(F, routes, parts, method, tree, Len(parts) - left + 1)
    PROVE  Finds(MatchNodes(tree, parts, method, left, F), routes, parts, method, tree, Len(parts) - left)
<1>1. SUFFICES ASSUME NEW s, NEW h, NEW toks \in Seq(NodeTokens), NEW captures \in Seq(STRING),
                      NEW X \in SUBSET OfLength(routes, parts), NEW b,
                      Len(toks) = Len(parts) - left, <<s, h, toks>> \in DOMAIN tree,
                      Reaches(toks, parts), Aligned(routes, parts, s, h, toks, captures),
                      IsBest(routes, parts, b, X)
      PROVE  IsBest(routes, parts,
                    MatchNodes(tree, parts, method, left, F)[<< <<s, h, toks>>, captures, b>>],
                    X \cup Below(routes, parts, method, s, h, toks))
  BY ZenonT(60) DEF Finds
<1> DEFINE node == <<s, h, toks>>
           Child(t) == <<s, h, Append(toks, t)>>
           i == Len(parts) - left + 1
           B == Below(routes, parts, method, s, h, toks)
<1>2. /\ Len(parts) \in Nat /\ left \in Nat /\ i = Len(toks) + 1 /\ Len(toks) \in Nat
      /\ X \in SUBSET Entries(routes) /\ b \in Matches
  <2>1. X \in SUBSET Entries(routes)
    BY DEF OfLength
  <2>2. b \in Matches
    BY <1>1, BestType DEF OfLength
  <2> QED
    BY <1>1, <2>1, <2>2
<1>3. MatchNodes(tree, parts, method, left, F)[<<node, captures, b>>]
        = MatchNode(tree, parts, method, left, F, node, captures, b)
  <2> HIDE DEF node
  <2>1. <<node, captures, b>> \in (DOMAIN tree) \X Seq(STRING) \X Matches
    BY <1>1, <1>2 DEF node
  <2> QED
    BY <2>1 DEF MatchNodes
<1>4. node[1] = s /\ node[2] = h /\ node[3] = toks
  OBVIOUS
<1>5. Rest \in NodeTokens /\ Star \in NodeTokens /\ Param("") \in NodeTokens
  BY DEF NodeTokens, Tokens
<1>6. CASE b.ref # NoRef /\ ~RefLess(tree[node].min, b.ref)
  <2>1. MatchNode(tree, parts, method, left, F, node, captures, b) = b
    BY <1>6 DEF MatchNode
  <2>2. IsBest(routes, parts, b, X \cup B)
    BY <1>1, <1>2, <1>6, Pruned
  <2> QED
    BY <1>3, <2>1, <2>2
<1>7. CASE ~(b.ref # NoRef /\ ~RefLess(tree[node].min, b.ref)) /\ left = 0
  <2> DEFINE b1 == SelectMatch(At(tree, node), method, captures, <<>>, b)
             b2 == SelectMatch(At(tree, Child(Rest)), method, captures, <<>>, b1)
             E1 == Ending(routes, method, node)
             E2 == Ending(routes, method, Child(Rest))
  <2>1. At(tree, node) = tree[node]
    BY <1>1 DEF At
  <2>2. MatchNode(tree, parts, method, left, F, node, captures, b) = b2
    BY <1>4, <1>7, <2>1 DEF MatchNode
  <2>3. /\ AllMatch(routes, parts, E1, captures, <<>>)
        /\ AllMatch(routes, parts, E2, captures, SubSeq(parts, Len(toks) + 1, Len(parts)))
    BY <1>1, EndMatches
  <2>4. SubSeq(parts, Len(toks) + 1, Len(parts)) = <<>> /\ Len(toks) = Len(parts)
    BY <1>1, <1>2, <1>7
  <2>5. E1 \in SUBSET Entries(routes) /\ E2 \in SUBSET Entries(routes) /\ B = E1 \cup E2
    <3>1. B = TakenAtEnd(routes, method, s, h, toks)
      BY <1>1, <2>4, BelowAtEnd
    <3>2. B = E1 \cup E2
      BY <3>1 DEF TakenAtEnd
    <3> QED
      BY <3>2 DEF Ending
  <2> HIDE DEF node, Child, B
  <2>6. IsBest(routes, parts, b1, X \cup E1)
    BY <1>1, <1>2, <2>3, Selected
  <2> HIDE DEF b1
  <2>7. IsBest(routes, parts, b2, (X \cup E1) \cup E2)
    <3> DEFINE Y == X \cup E1
    <3>1. Y \in SUBSET Entries(routes)
      BY <1>2, <2>5
    <3>2. AllMatch(routes, parts, E2, captures, <<>>)
      BY <2>3, <2>4
    <3> HIDE DEF Y
    <3>3. IsBest(routes, parts, b1, Y)
      BY <2>6 DEF Y
    <3>4. IsBest(routes, parts, b2, Y \cup E2)
      BY <3>1, <3>2, <3>3, Selected
    <3> QED
      BY <3>4 DEF Y
  <2>8. (X \cup E1) \cup E2 = X \cup B
    BY <2>5
  <2> QED
    BY <1>3, <2>2, <2>7, <2>8 DEF node, B
<1>8. CASE ~(b.ref # NoRef /\ ~RefLess(tree[node].min, b.ref)) /\ left # 0
  <2> DEFINE part == parts[i]
             lit == Append(toks, Lit(part))
             param == Append(toks, Param(""))
             star == Append(toks, Star)
             caught == Append(captures, part)
             Try(ts, c, x) == IF <<s, h, ts>> \in DOMAIN tree THEN F[<< <<s, h, ts>>, c, x>>] ELSE x
             b1 == Try(lit, captures, b)
             b2 == Try(param, caught, b1)
             b3 == Try(star, captures, b2)
             b4 == SelectMatch(At(tree, Child(Rest)), method, captures, SubSeq(parts, i, Len(parts)), b3)
             B1 == Below(routes, parts, method, s, h, lit)
             B2 == Below(routes, parts, method, s, h, param)
             B3 == Below(routes, parts, method, s, h, star)
             B4 == Ending(routes, method, Child(Rest))
  <2>1. MatchNode(tree, parts, method, left, F, node, captures, b) = b4
    BY <1>4, <1>8 DEF MatchNode
  <2>2. Len(toks) < Len(parts) /\ part \in STRING /\ Lit(part) \in NodeTokens
    <3>1. Len(toks) < Len(parts) /\ part \in STRING
      BY <1>1, <1>2, <1>8
    <3> QED
      BY <3>1 DEF Lit, NodeTokens, Tokens
  <2>3. /\ Lit(part) # Rest /\ Star # Rest /\ Param("") # Rest
        /\ Lit(part) # Param("") /\ Star # Param("")
        /\ SegmentFits(Lit(part), part) /\ SegmentFits(Star, part) /\ SegmentFits(Param(""), part)
    <3>1. Lit(part).kind = "literal" /\ Lit(part).value = part
      BY DEF Lit
    <3>2. Star.kind = "wildcard" /\ Rest.kind = "rest" /\ Param("").kind = "param"
      BY DEF Star, Rest, Param
    <3> HIDE DEF part
    <3>3. /\ Lit(part) # Rest /\ Star # Rest /\ Param("") # Rest
          /\ Lit(part) # Param("") /\ Star # Param("")
      BY <3>1, <3>2
    <3> QED
      BY <3>1, <3>2, <3>3 DEF SegmentFits
  <2>4. /\ lit \in Seq(NodeTokens) /\ Len(lit) = i /\ Reaches(lit, parts)
        /\ param \in Seq(NodeTokens) /\ Len(param) = i /\ Reaches(param, parts)
        /\ star \in Seq(NodeTokens) /\ Len(star) = i /\ Reaches(star, parts)
    <3>1. part = parts[Len(toks) + 1]
      BY <1>2
    <3> HIDE DEF part
    <3> QED
      BY <1>1, <1>2, <1>5, <2>2, <2>3, <3>1, ReachesChild
  <2>5. /\ Aligned(routes, parts, s, h, lit, captures) /\ Aligned(routes, parts, s, h, star, captures)
        /\ Aligned(routes, parts, s, h, param, caught)
    <3>1. part = parts[Len(toks) + 1]
      BY <1>2
    <3> HIDE DEF part
    <3>2. /\ Aligned(routes, parts, s, h, lit, IF Lit(part) = Param("") THEN caught ELSE captures)
          /\ Aligned(routes, parts, s, h, star, IF Star = Param("") THEN caught ELSE captures)
          /\ Aligned(routes, parts, s, h, param, IF Param("") = Param("") THEN caught ELSE captures)
      BY <1>1, <1>5, <2>2, <3>1, ChildAligned
    <3> QED
      BY <2>3, <3>2
  <2>6. caught \in Seq(STRING)
    BY <2>2, AppendProperties
  <2>7. Finds(F, routes, parts, method, tree, i)
    BY <1>8
  <2>8. B = ((B1 \cup B2) \cup B3) \cup B4
    <3>1. part = parts[Len(toks) + 1]
      BY <1>2
    <3>2. B = TakenDeeper(routes, parts, method, s, h, toks, parts[Len(toks) + 1])
      BY <1>1, <2>2, BelowDeeper
    <3> HIDE DEF part
    <3> QED
      BY <3>1, <3>2 DEF TakenDeeper
  <2>9. AllMatch(routes, parts, B4, captures, SubSeq(parts, i, Len(parts)))
    BY <1>1, <1>2, EndMatches
  <2>10. B1 \in SUBSET OfLength(routes, parts) /\ B2 \in SUBSET OfLength(routes, parts)
        /\ B3 \in SUBSET OfLength(routes, parts)
    BY BelowIsSized
  <2> HIDE DEF node, Child, B, lit, param, star, caught, i, part
  <2>11. IsBest(routes, parts, b1, X \cup B1)
    <3>1. Finds(F, routes, parts, method, tree, Len(lit))
      BY <2>4, <2>7
    <3> QED
      BY <1>1, <2>4, <2>5, <3>1, Tried
  <2> HIDE DEF B1, b1
  <2>12. IsBest(routes, parts, b2, (X \cup B1) \cup B2)
    <3> DEFINE Y == X \cup B1
    <3>1. Y \in SUBSET OfLength(routes, parts) /\ IsBest(routes, parts, b1, Y)
      BY <2>10, <2>11
    <3>2. Finds(F, routes, parts, method, tree, Len(param))
      BY <2>4, <2>7
    <3> HIDE DEF Y
    <3>3. IsBest(routes, parts, b2, Y \cup B2)
      BY <2>4, <2>5, <2>6, <3>1, <3>2, Tried
    <3> QED
      BY <3>3 DEF Y
  <2> HIDE DEF B2, b2
  <2>13. IsBest(routes, parts, b3, ((X \cup B1) \cup B2) \cup B3)
    <3> DEFINE Y == (X \cup B1) \cup B2
    <3>1. Y \in SUBSET OfLength(routes, parts) /\ IsBest(routes, parts, b2, Y)
      BY <2>10, <2>12
    <3>2. Finds(F, routes, parts, method, tree, Len(star))
      BY <2>4, <2>7
    <3> HIDE DEF Y
    <3>3. IsBest(routes, parts, b3, Y \cup B3)
      BY <1>1, <2>4, <2>5, <3>1, <3>2, Tried
    <3> QED
      BY <3>3 DEF Y
  <2> HIDE DEF B3, b3
  <2>14. IsBest(routes, parts, b4, (((X \cup B1) \cup B2) \cup B3) \cup B4)
    <3> DEFINE Y == ((X \cup B1) \cup B2) \cup B3
    <3>1. Y \in SUBSET Entries(routes) /\ IsBest(routes, parts, b3, Y)
      BY <1>2, <2>10, <2>13 DEF OfLength
    <3> HIDE DEF Y
    <3>2. IsBest(routes, parts, b4, Y \cup B4)
      BY <2>9, <3>1, Selected
    <3> QED
      BY <3>2 DEF Y
  <2> HIDE DEF B4
  <2>15. (((X \cup B1) \cup B2) \cup B3) \cup B4 = X \cup B
    BY <2>8
  <2> QED
    BY <1>3, <2>1, <2>14, <2>15 DEF node, B
<1> QED
  BY <1>6, <1>7, <1>8

\* match finds the best entry below every node, whatever is left of the request.
LEMMA PathsMatch ==
    ASSUME NEW routes, IsTable(routes), Valid(routes),
           NEW tree, IsTreeOf(tree, routes, Entries(routes)), NEW parts \in Seq(STRING), NEW method
    PROVE  Finds(MatchPath(tree, parts, method)[Len(parts)], routes, parts, method, tree, 0)
<1> DEFINE M == MatchPath(tree, parts, method)
           L == Len(parts)
           S == {n \in Nat : n <= L => Finds(M[n], routes, parts, method, tree, L - n)}
<1>1. L \in Nat
  OBVIOUS
<1>2. M[0] = MatchNodes(tree, parts, method, 0, <<>>)
  BY <1>1, PathUnfold
<1>3. \A n \in 1..L : M[n] = MatchNodes(tree, parts, method, n, M[n - 1])
  BY <1>1, PathUnfold
<1>s. \A n \in 0..L : \A F : (n # 0 => Finds(F, routes, parts, method, tree, L - n + 1))
        => Finds(MatchNodes(tree, parts, method, n, F), routes, parts, method, tree, L - n)
  BY NodesMatch
<1> HIDE DEF M, L
<1>4. 0 \in S
  <2>1. Finds(MatchNodes(tree, parts, method, 0, <<>>), routes, parts, method, tree, L - 0)
    BY <1>1, <1>s
  <2> QED
    BY <1>2, <2>1
<1>5. ASSUME NEW n \in Nat, n \in S PROVE n + 1 \in S
  <2>1. SUFFICES ASSUME n + 1 <= L PROVE Finds(M[n + 1], routes, parts, method, tree, L - (n + 1))
    OBVIOUS
  <2>2. /\ n + 1 \in 1..L /\ n + 1 \in 0..L /\ (n + 1) - 1 = n /\ L - (n + 1) + 1 = L - n
        /\ Finds(M[n], routes, parts, method, tree, L - n)
    BY <1>1, <1>5, <2>1
  <2>3. M[n + 1] = MatchNodes(tree, parts, method, n + 1, M[n])
    BY <1>3, <2>2
  <2>4. Finds(M[n], routes, parts, method, tree, L - (n + 1) + 1)
    BY <2>2
  <2>5. Finds(MatchNodes(tree, parts, method, n + 1, M[n]), routes, parts, method, tree, L - (n + 1))
    BY <1>s, <2>2, <2>4
  <2> QED
    BY <2>3, <2>5
<1>6. Nat \subseteq S
  <2> HIDE DEF S
  <2> QED
    BY <1>4, <1>5, SetInduction
<1>7. Finds(M[L], routes, parts, method, tree, L - L) /\ L - L = 0
  BY <1>1, <1>6
<1> QED
  BY <1>7 DEF M, L

\* Looking below one root.
LEMMA RootMatch ==
    ASSUME NEW routes, IsTable(routes), Valid(routes),
           NEW tree, IsTreeOf(tree, routes, Entries(routes)), NEW parts \in Seq(STRING), NEW method,
           NEW s, NEW h, NEW X \in SUBSET OfLength(routes, parts), NEW b, IsBest(routes, parts, b, X)
    PROVE  IsBest(routes, parts,
                  IF <<s, h, <<>> >> \in DOMAIN tree
                  THEN MatchPath(tree, parts, method)[Len(parts)][<< <<s, h, <<>> >>, <<>>, b>>] ELSE b,
                  X \cup Below(routes, parts, method, s, h, <<>>))
<1> DEFINE F == MatchPath(tree, parts, method)[Len(parts)]
           no == <<>>
<1>1. no \in Seq(NodeTokens) /\ Len(no) = 0 /\ no \in Seq(STRING)
  OBVIOUS
<1>2. Finds(F, routes, parts, method, tree, 0)
  BY PathsMatch
<1>3. Reaches(no, parts)
  BY DEF Reaches
<1>4. Aligned(routes, parts, s, h, no, no)
  <2>1. SUFFICES ASSUME NEW e \in Entries(routes) PROVE CapturedUpTo(PathOf(routes, e), parts)[0] = <<>>
    BY DEF Aligned
  <2>2. Len(PathOf(routes, e)) \in Nat
    BY EntryFacts
  <2> QED
    BY <2>2, CapturedUnfold
<1> HIDE DEF F, no
<1>5. Finds(F, routes, parts, method, tree, Len(no))
  BY <1>1, <1>2
<1>6. IsBest(routes, parts, IF <<s, h, no>> \in DOMAIN tree THEN F[<< <<s, h, no>>, no, b>>] ELSE b,
             X \cup Below(routes, parts, method, s, h, no))
  BY <1>1, <1>3, <1>4, <1>5, Tried
<1> QED
  BY <1>6 DEF F, no

\* The hosts matchHost looks at are those that fit.
LEMMA HostsFit ==
    ASSUME NEW labels \in Seq(STRING), NEW host \in HostPatterns
    PROVE  /\ Len(Hosts(labels)) = Len(labels) + 1
           /\ HostFits(host, labels) <=> \E n \in 1..(Len(labels) + 1) : host = Hosts(labels)[n]
<1> DEFINE L == Len(labels)
<1>1. L \in Nat /\ Len(Hosts(labels)) = L + 1
  BY DEF Hosts
<1>2. \A n \in 1..(L + 1) : Hosts(labels)[n] = IF n = 1 THEN AnyHost
        ELSE IF n <= L THEN Under(Suffix(labels, n - 1)) ELSE Host(labels)
  BY DEF Hosts
<1>3. /\ host.kind \in {"any", "wildcard", "exact"} /\ host = [kind |-> host.kind, labels |-> host.labels]
      /\ host.kind = "any" => host.labels = <<>>
  BY DEF HostPatterns
<1>4. /\ host = AnyHost <=> host.kind = "any"
      /\ \A x : host = Under(x) <=> host.kind = "wildcard" /\ host.labels = x
      /\ \A x : host = Host(x) <=> host.kind = "exact" /\ host.labels = x
  BY <1>3 DEF AnyHost, Under, Host
<1>5. labels # <<>> <=> L >= 1
  BY <1>1
<1> HIDE DEF L
<1>6. ASSUME HostFits(host, labels) PROVE \E n \in 1..(L + 1) : host = Hosts(labels)[n]
  <2>1. CASE host.kind = "any"
    <3>1. 1 \in 1..(L + 1) /\ Hosts(labels)[1] = AnyHost
      BY <1>1, <1>2
    <3> QED
      BY <1>4, <2>1, <3>1
  <2>2. CASE host.kind = "exact" /\ labels # <<>> /\ host.labels = labels
    <3>1. L + 1 \in 1..(L + 1) /\ L + 1 # 1 /\ ~(L + 1 <= L)
      BY <1>1, <1>5, <2>2
    <3>2. Hosts(labels)[L + 1] = Host(labels)
      BY <1>2, <3>1
    <3> QED
      BY <1>4, <2>2, <3>1, <3>2
  <2>3. ASSUME host.kind = "wildcard", NEW n \in 1..(L - 1), host.labels = Suffix(labels, n)
        PROVE  \E k \in 1..(L + 1) : host = Hosts(labels)[k]
    <3>1. n + 1 \in 1..(L + 1) /\ n + 1 # 1 /\ n + 1 <= L /\ (n + 1) - 1 = n
      BY <1>1
    <3>2. Hosts(labels)[n + 1] = Under(Suffix(labels, n))
      BY <1>2, <3>1
    <3> QED
      BY <1>4, <2>3, <3>1, <3>2
  <2> QED
    BY <1>6, <2>1, <2>2, <2>3 DEF HostFits, L
<1>7. ASSUME NEW n \in 1..(L + 1), host = Hosts(labels)[n] PROVE HostFits(host, labels)
  <2>1. CASE n = 1
    BY <1>2, <1>4, <1>7, <2>1 DEF HostFits
  <2>2. CASE n # 1 /\ n <= L
    <3>1. n - 1 \in 1..(L - 1) /\ host = Under(Suffix(labels, n - 1))
      BY <1>1, <1>2, <1>7, <2>2
    <3> QED
      BY <1>4, <3>1 DEF HostFits, L
  <2>3. CASE n # 1 /\ ~(n <= L)
    <3>1. host = Host(labels) /\ L >= 1
      BY <1>1, <1>2, <1>7, <2>3
    <3> QED
      BY <1>4, <1>5, <3>1 DEF HostFits
  <2> QED
    BY <2>1, <2>2, <2>3
<1> QED
  BY <1>1, <1>6, <1>7 DEF L

\* The entries of a scheme that fit, with one of the first n hosts.
OnHosts(routes, req, scheme, n) ==
    {e \in Entries(routes) :
        /\ UriOf(routes, e).scheme = scheme /\ \E k \in 1..n : UriOf(routes, e).host = Hosts(req.host)[k]
        /\ PathFits(PathOf(routes, e), req.path) /\ Serves(routes, e, req.method)}

\* matchHost looks below the roots of all hosts that fit.
LEMMA HostsMatch ==
    ASSUME NEW routes, IsTable(routes), Valid(routes),
           NEW tree, IsTreeOf(tree, routes, Entries(routes)), NEW req, IsRequest(req), NEW scheme,
           NEW X \in SUBSET OfLength(routes, req.path), NEW b, IsBest(routes, req.path, b, X)
    PROVE  IsBest(routes, req.path, MatchHost(tree, scheme, req, b),
                  X \cup OnHosts(routes, req, scheme, Len(req.host) + 1))
<1> DEFINE G == FoundUpTo(tree, scheme, req, b)
           N == Len(req.host) + 1
           H == Hosts(req.host)
           parts == req.path
           Root(n) == <<scheme, H[n], <<>> >>
           On(n) == OnHosts(routes, req, scheme, n)
           S == {n \in Nat : n <= N => IsBest(routes, parts, G[n], X \cup On(n))}
<1>1. req.host \in Seq(STRING) /\ parts \in Seq(STRING)
  BY DEF IsRequest
<1>2. N \in Nat /\ Len(H) = N
  <2>1. Len(req.host) \in Nat
    BY <1>1
  <2> QED
    BY <1>1, <2>1 DEF Hosts
<1>3. G[0] = b
  BY <1>2, FoundUnfold
<1>4. \A n \in 1..N : G[n] = IF Root(n) \in DOMAIN tree
        THEN MatchPath(tree, req.path, req.method)[Len(req.path)][<<Root(n), <<>>, G[n - 1]>>] ELSE G[n - 1]
  BY <1>2, FoundUnfold
<1> HIDE DEF G, N, H
<1>5. 0 \in S
  <2>1. X \cup On(0) = X
    BY DEF OnHosts
  <2> HIDE DEF On
  <2>2. IsBest(routes, parts, G[0], X \cup On(0))
    BY <1>3, <2>1
  <2> QED
    BY <2>2
<1>6. ASSUME NEW n \in Nat, n \in S PROVE n + 1 \in S
  <2>1. SUFFICES ASSUME n + 1 <= N PROVE IsBest(routes, parts, G[n + 1], X \cup On(n + 1))
    OBVIOUS
  <2>2. n + 1 \in 1..N /\ (n + 1) - 1 = n /\ IsBest(routes, parts, G[n], X \cup On(n))
    BY <1>2, <1>6, <2>1
  <2> DEFINE Y == X \cup On(n)
             B == Below(routes, parts, req.method, scheme, H[n + 1], <<>>)
  <2>3. Y \in SUBSET OfLength(routes, parts)
    BY PathFitsIs DEF OnHosts, OfLength, Sized
  <2>4. On(n + 1) = On(n) \cup B
    <3>1. \A uri : \A s, h : Starts(uri, s, h, <<>>) <=> uri.scheme = s /\ uri.host = h /\ 0 <= Len(uri.path)
      BY DEF Starts
    <3>2. \A e \in Entries(routes) : 0 <= Len(UriOf(routes, e).path)
      <4>1. \A e \in Entries(routes) : Len(PathOf(routes, e)) \in Nat
        BY EntryFacts
      <4> QED
        BY <4>1 DEF PathOf
    <3>3. B = {e \in Entries(routes) :
                 /\ UriOf(routes, e).scheme = scheme /\ UriOf(routes, e).host = H[n + 1]
                 /\ PathFits(PathOf(routes, e), parts) /\ Serves(routes, e, req.method)}
      BY <3>1, <3>2 DEF Below
    <3>4. 1..(n + 1) = (1..n) \cup {n + 1}
      OBVIOUS
    <3> HIDE DEF B
    <3> QED
      BY <3>3, <3>4 DEF OnHosts, H
  <2> HIDE DEF Y, B, On, parts
  <2>5. G[n + 1] = IF Root(n + 1) \in DOMAIN tree
          THEN MatchPath(tree, parts, req.method)[Len(parts)][<<Root(n + 1), <<>>, G[n]>>] ELSE G[n]
    BY <1>4, <2>2 DEF parts
  <2>6. IsBest(routes, parts, G[n], Y)
    BY <2>2 DEF Y
  <2>7. IsBest(routes, parts, IF Root(n + 1) \in DOMAIN tree
          THEN MatchPath(tree, parts, req.method)[Len(parts)][<<Root(n + 1), <<>>, G[n]>>] ELSE G[n], Y \cup B)
    BY <1>1, <2>3, <2>6, RootMatch DEF B
  <2>8. Y \cup B = X \cup On(n + 1)
    BY <2>4 DEF Y
  <2> QED
    BY <2>5, <2>7, <2>8
<1>7. Nat \subseteq S
  <2> HIDE DEF S
  <2> QED
    BY <1>5, <1>6, SetInduction
<1>8. IsBest(routes, parts, G[N], X \cup On(N))
  <2> HIDE DEF On, parts
  <2>1. N \in S
    <3> HIDE DEF S
    <3> QED
      BY <1>2, <1>7
  <2>2. N <= N
    BY <1>2
  <2> QED
    BY <2>1, <2>2
<1> QED
  BY <1>8 DEF MatchHost, G, N

\* The entries that fit a request.
Fitting(routes, req) == {e \in Entries(routes) : Fits(routes[e[1]], e[2], req)}

\* match, with the scheme of the request and with every scheme, finds the best of
\* the entries that fit.
LEMMA BestIsFound ==
    ASSUME NEW routes, IsTable(routes), Valid(routes), NEW req, IsRequest(req)
    PROVE  LET tree == Compile(routes)
           IN  IsBest(routes, req.path,
                      MatchHost(tree, "*", req, MatchHost(tree, req.scheme, req, NoMatch)),
                      Fitting(routes, req))
<1> DEFINE tree == Compile(routes)
           N == Len(req.host) + 1
           A == OnHosts(routes, req, req.scheme, N)
           B == OnHosts(routes, req, "*", N)
           b == MatchHost(tree, req.scheme, req, NoMatch)
           none == {}
<1>1. IsTreeOf(tree, routes, Entries(routes))
  BY CompiledTree
<1>2. none \in SUBSET OfLength(routes, req.path) /\ IsBest(routes, req.path, NoMatch, none)
  BY DEF IsBest
<1>3. A \in SUBSET OfLength(routes, req.path)
  BY PathFitsIs DEF OnHosts, OfLength, Sized
<1>4. Fitting(routes, req) = A \cup B
  <2>1. req.host \in Seq(STRING)
    BY DEF IsRequest
  <2>2. \A e \in Entries(routes) : UriOf(routes, e).host \in HostPatterns
    BY EntryFacts DEF URIs
  <2>3. \A e \in Entries(routes) : HostFits(UriOf(routes, e).host, req.host) <=>
          \E k \in 1..N : UriOf(routes, e).host = Hosts(req.host)[k]
    BY <2>1, <2>2, HostsFit
  <2> HIDE DEF N
  <2>4. \A e \in Entries(routes) : Fits(routes[e[1]], e[2], req) <=>
          /\ UriOf(routes, e).scheme \in {"*", req.scheme} /\ HostFits(UriOf(routes, e).host, req.host)
          /\ PathFits(PathOf(routes, e), req.path) /\ Serves(routes, e, req.method)
    BY DEF Fits, UriOf, PathOf, Serves, MethodsOf
  <2> QED
    BY <2>3, <2>4 DEF Fitting, OnHosts
<1> HIDE DEF tree, none
<1>5. IsBest(routes, req.path, b, none \cup A)
  BY <1>1, <1>2, HostsMatch DEF N
<1>6. none \cup A = A
  BY DEF none
<1> HIDE DEF A, b
<1>7. IsBest(routes, req.path, MatchHost(tree, "*", req, b), A \cup B)
  BY <1>1, <1>3, <1>5, <1>6, HostsMatch DEF N
<1> QED
  BY <1>4, <1>7 DEF b, tree

-----------------------------------------------------------------------------
(***************************************************************************)
(* Captures by name.  The k-th name of a path and the k-th captured        *)
(* segment belong to one place of the path, and the places are in order.   *)
(***************************************************************************)
Places(path, parts, names, captured, n, pos) ==
    /\ names \in Seq(STRING) /\ captured \in Seq({parts[i] : i \in Nat}) /\ Len(captured) = Len(names)
    /\ pos \in [1..Len(names) -> 1..n]
    /\ \A k \in 1..Len(names) : /\ path[pos[k]].kind = "param" /\ names[k] = path[pos[k]].value
                                /\ captured[k] = parts[pos[k]]
    /\ \A j, k \in 1..Len(names) : j < k => pos[j] < pos[k]
    /\ \A i \in 1..n : path[i].kind = "param" => \E k \in 1..Len(names) : pos[k] = i

\* A parameter adds a place.
LEMMA PlaceAdded ==
    ASSUME NEW path \in Seq(Tokens), NEW parts, NEW n \in Nat, n + 1 <= Len(path),
           NEW names, NEW captured, NEW pos, Places(path, parts, names, captured, n, pos),
           path[n + 1].kind = "param"
    PROVE  \E q : Places(path, parts, Append(names, path[n + 1].value), Append(captured, parts[n + 1]), n + 1, q)
<1> DEFINE L == Len(names)
           V == {parts[i] : i \in Nat}
           names2 == Append(names, path[n + 1].value)
           captured2 == Append(captured, parts[n + 1])
           q == [k \in 1..(L + 1) |-> IF k <= L THEN pos[k] ELSE n + 1]
<1>1. /\ names \in Seq(STRING) /\ captured \in Seq(V) /\ Len(captured) = L /\ L \in Nat
      /\ pos \in [1..L -> 1..n]
  BY DEF Places
<1>2. \A k \in 1..L : /\ path[pos[k]].kind = "param" /\ names[k] = path[pos[k]].value
                      /\ captured[k] = parts[pos[k]]
  BY DEF Places
<1>3. /\ \A j, k \in 1..L : j < k => pos[j] < pos[k]
      /\ \A i \in 1..n : path[i].kind = "param" => \E k \in 1..L : pos[k] = i
  BY DEF Places
<1>4. path[n + 1].value \in STRING /\ parts[n + 1] \in V
  <2>1. path[n + 1] \in Tokens
    OBVIOUS
  <2>2. n + 1 \in Nat
    OBVIOUS
  <2> QED
    BY <2>1, <2>2, TokenTypes
<1> HIDE DEF V, L
<1>5. /\ names2 \in Seq(STRING) /\ Len(names2) = L + 1 /\ (\A k \in 1..L : names2[k] = names[k])
      /\ names2[L + 1] = path[n + 1].value
  BY <1>1, <1>4, AppendProperties DEF L
<1>6. /\ captured2 \in Seq(V) /\ Len(captured2) = L + 1 /\ (\A k \in 1..L : captured2[k] = captured[k])
      /\ captured2[L + 1] = parts[n + 1]
  BY <1>1, <1>4, AppendProperties
<1> HIDE DEF names2, captured2
<1>7. q \in [1..(L + 1) -> 1..(n + 1)] /\ q[L + 1] = n + 1 /\ \A k \in 1..L : q[k] = pos[k]
  BY <1>1
<1> HIDE DEF q
<1>8. 1..(L + 1) = (1..L) \cup {L + 1} /\ 1..(n + 1) = (1..n) \cup {n + 1} /\ L + 1 \notin 1..L
  BY <1>1
<1>9. \A k \in 1..(L + 1) : /\ path[q[k]].kind = "param" /\ names2[k] = path[q[k]].value
                            /\ captured2[k] = parts[q[k]]
  BY <1>2, <1>5, <1>6, <1>7, <1>8
<1>10. ASSUME NEW j \in 1..(L + 1), NEW k \in 1..(L + 1), j < k PROVE q[j] < q[k]
  <2>1. j \in 1..L
    BY <1>1, <1>10
  <2>2. CASE k \in 1..L
    BY <1>3, <1>7, <1>10, <2>1, <2>2
  <2>3. CASE k = L + 1
    <3>1. q[k] = n + 1 /\ q[j] = pos[j] /\ pos[j] \in 1..n
      BY <1>1, <1>7, <2>1, <2>3
    <3> QED
      BY <3>1
  <2> QED
    BY <1>8, <2>2, <2>3
<1>11. ASSUME NEW i \in 1..(n + 1), path[i].kind = "param" PROVE \E k \in 1..(L + 1) : q[k] = i
  <2>1. CASE i \in 1..n
    <3>1. PICK k \in 1..L : pos[k] = i
      BY <1>3, <1>11, <2>1
    <3> QED
      BY <1>7, <1>8, <3>1
  <2>2. CASE i = n + 1
    BY <1>7, <1>8, <2>2
  <2> QED
    BY <1>8, <2>1, <2>2
<1>12. Places(path, parts, names2, captured2, n + 1, q)
  BY <1>5, <1>6, <1>7, <1>9, <1>10, <1>11 DEF Places, V
<1> QED
  BY <1>12 DEF names2, captured2

\* Another segment adds none.
LEMMA NoPlaceAdded ==
    ASSUME NEW path, NEW parts, NEW n \in Nat, NEW names, NEW captured, NEW pos,
           Places(path, parts, names, captured, n, pos), path[n + 1].kind # "param"
    PROVE  Places(path, parts, names, captured, n + 1, pos)
<1>1. 1..(n + 1) = (1..n) \cup {n + 1} /\ 1..n \subseteq 1..(n + 1)
  OBVIOUS
<1>2. pos \in [1..Len(names) -> 1..(n + 1)]
  BY <1>1 DEF Places
<1>3. \A i \in 1..(n + 1) : path[i].kind = "param" => \E k \in 1..Len(names) : pos[k] = i
  BY <1>1 DEF Places
<1> QED
  BY <1>2, <1>3 DEF Places

\* The places of all names of a path.
LEMMA PlacesExist ==
    ASSUME NEW path \in Seq(Tokens), NEW parts
    PROVE  \E pos : Places(path, parts, ParamNames(path), CapturedUpTo(path, parts)[Len(path)], Len(path), pos)
<1> DEFINE N == NamesUpTo(path)
           C == CapturedUpTo(path, parts)
           S == {n \in Nat : n <= Len(path) => \E pos : Places(path, parts, N[n], C[n], n, pos)}
<1>1. Len(path) \in Nat /\ DOMAIN path = 1..Len(path)
  OBVIOUS
<1>2. N[0] = <<>> /\ C[0] = <<>>
  BY <1>1, NamesUnfold, CapturedUnfold
<1>3. \A n \in 1..Len(path) :
        N[n] = IF path[n].kind = "param" THEN Append(N[n - 1], path[n].value) ELSE N[n - 1]
  BY <1>1, NamesUnfold
<1>4. \A n \in 1..Len(path) :
        C[n] = IF path[n].kind = "param" THEN Append(C[n - 1], parts[n]) ELSE C[n - 1]
  BY <1>1, CapturedUnfold
<1> HIDE DEF N, C
<1>5. 0 \in S
  <2> DEFINE no == <<>>
  <2>1. no \in Seq(STRING) /\ no \in Seq({parts[i] : i \in Nat}) /\ Len(no) = 0
    OBVIOUS
  <2>2. \E pos : pos \in [1..0 -> 1..0]
    <3>1. [k \in 1..0 |-> k] \in [1..0 -> 1..0]
      OBVIOUS
    <3> QED
      BY <3>1
  <2>3. PICK pos : pos \in [1..0 -> 1..0]
    BY <2>2
  <2> HIDE DEF no
  <2>4. Places(path, parts, no, no, 0, pos)
    BY <2>1, <2>3 DEF Places
  <2>5. Places(path, parts, N[0], C[0], 0, pos)
    BY <1>2, <2>4 DEF no
  <2> QED
    BY <2>5
<1>6. ASSUME NEW n \in Nat, n \in S PROVE n + 1 \in S
  <2>1. SUFFICES ASSUME n + 1 <= Len(path) PROVE \E pos : Places(path, parts, N[n + 1], C[n + 1], n + 1, pos)
    OBVIOUS
  <2>2. n + 1 \in 1..Len(path) /\ (n + 1) - 1 = n /\ \E pos : Places(path, parts, N[n], C[n], n, pos)
    BY <1>1, <1>6, <2>1
  <2>3. PICK pos : Places(path, parts, N[n], C[n], n, pos)
    BY <2>2
  <2>4. CASE path[n + 1].kind = "param"
    <3>1. N[n + 1] = Append(N[n], path[n + 1].value) /\ C[n + 1] = Append(C[n], parts[n + 1])
      BY <1>3, <1>4, <2>2, <2>4
    <3>2. \E q : Places(path, parts, Append(N[n], path[n + 1].value), Append(C[n], parts[n + 1]), n + 1, q)
      BY <2>1, <2>3, <2>4, PlaceAdded
    <3> QED
      BY <3>1, <3>2
  <2>5. CASE path[n + 1].kind # "param"
    <3>1. N[n + 1] = N[n] /\ C[n + 1] = C[n]
      BY <1>3, <1>4, <2>2, <2>5
    <3>2. Places(path, parts, N[n], C[n], n + 1, pos)
      BY <2>3, <2>5, NoPlaceAdded
    <3> QED
      BY <3>1, <3>2
  <2> QED
    BY <2>4, <2>5
<1>7. Nat \subseteq S
  <2> HIDE DEF S
  <2> QED
    BY <1>5, <1>6, SetInduction
<1>8. \E pos : Places(path, parts, N[Len(path)], C[Len(path)], Len(path), pos)
  BY <1>1, <1>7
<1> QED
  BY <1>8 DEF ParamNames, N, C

\* A set of places with an element has a last one.
LEMMA LastPlace ==
    ASSUME NEW n \in Nat, NEW T \in SUBSET (1..n), NEW x \in T
    PROVE  \E i \in T : \A j \in T : j <= i
<1> DEFINE S == {d \in Nat : \A y \in T : n - y <= d => \E i \in T : \A j \in T : j <= i}
<1>1. 0 \in S
  <2>1. SUFFICES ASSUME NEW y \in T, n - y <= 0 PROVE \A j \in T : j <= y
    OBVIOUS
  <2> QED
    BY <2>1
<1>2. ASSUME NEW d \in Nat, d \in S PROVE d + 1 \in S
  <2>1. SUFFICES ASSUME NEW y \in T, n - y <= d + 1 PROVE \E i \in T : \A j \in T : j <= i
    OBVIOUS
  <2>2. CASE \A j \in T : j <= y
    BY <2>2
  <2>3. CASE \E j \in T : ~(j <= y)
    <3>1. PICK j \in T : ~(j <= y)
      BY <2>3
    <3>2. n - j <= d
      BY <2>1, <3>1
    <3> QED
      BY <1>2, <3>2
  <2> QED
    BY <2>2, <2>3
<1>3. Nat \subseteq S
  <2> HIDE DEF S
  <2> QED
    BY <1>1, <1>2, SetInduction
<1>4. n - x \in Nat /\ n - x <= n - x
  OBVIOUS
<1>5. n - x \in S
  <2> HIDE DEF S
  <2> QED
    BY <1>3, <1>4
<1> QED
  BY <1>4, <1>5

\* The place of a name in a sequence, and of a parameter in a path.
LastName(names, n) ==
    CHOOSE i \in DOMAIN names : names[i] = n /\ \A j \in DOMAIN names : names[j] = n => j <= i
LastParam(path, n) ==
    CHOOSE i \in DOMAIN path : /\ path[i] = Param(n)
                               /\ \A k \in DOMAIN path : path[k] = Param(n) => k <= i
NamesOf(path) == {path[i].value : i \in {k \in DOMAIN path : path[k].kind = "param"}}

\* Captures go by name to the last parameter of that name.
LEMMA CapturesByName ==
    ASSUME NEW path \in Seq(Tokens), NEW parts
    PROVE  Params(ParamNames(path), CapturedUpTo(path, parts)[Len(path)])
             = [n \in NamesOf(path) |-> parts[LastParam(path, n)]]
<1> DEFINE names == ParamNames(path)
           captured == CapturedUpTo(path, parts)[Len(path)]
<1>1. PICK pos : Places(path, parts, names, captured, Len(path), pos)
  BY PlacesExist
<1> HIDE DEF names, captured
<1> DEFINE L == Len(names)
           M == Len(path)
<1>2. /\ names \in Seq(STRING) /\ L \in Nat /\ DOMAIN names = 1..L /\ M \in Nat /\ DOMAIN path = 1..M
      /\ pos \in [1..L -> 1..M]
  BY <1>1 DEF Places
<1>3. \A k \in 1..L : /\ path[pos[k]].kind = "param" /\ names[k] = path[pos[k]].value
                      /\ captured[k] = parts[pos[k]]
  BY <1>1 DEF Places
<1>4. \A j, k \in 1..L : j < k => pos[j] < pos[k]
  BY <1>1 DEF Places
<1>5. \A i \in 1..M : path[i].kind = "param" => \E k \in 1..L : pos[k] = i
  BY <1>1 DEF Places
<1>6. \A i \in 1..M : \A v : path[i] = Param(v) <=> path[i].kind = "param" /\ path[i].value = v
  <2>1. ASSUME NEW i \in 1..M, NEW v
        PROVE  path[i] = Param(v) <=> path[i].kind = "param" /\ path[i].value = v
    <3>1. path[i] \in Tokens
      BY <1>2
    <3>2. path[i].kind = "param" => path[i] = Param(path[i].value)
      BY <3>1, TokenTypes
    <3>3. Param(v).kind = "param" /\ Param(v).value = v
      BY DEF Param
    <3> QED
      BY <3>2, <3>3
  <2> QED
    BY <2>1
<1> HIDE DEF L, M
<1>7. Range(names) = NamesOf(path)
  <2>1. Range(names) = {names[k] : k \in 1..L}
    BY <1>2 DEF Range
  <2>2. NamesOf(path) = {path[i].value : i \in {k \in 1..M : path[k].kind = "param"}}
    BY <1>2 DEF NamesOf
  <2>3. ASSUME NEW k \in 1..L PROVE \E i \in {m \in 1..M : path[m].kind = "param"} : names[k] = path[i].value
    BY <1>2, <1>3
  <2>4. ASSUME NEW i \in 1..M, path[i].kind = "param" PROVE \E k \in 1..L : path[i].value = names[k]
    BY <1>3, <1>5, <2>4
  <2> DEFINE P == {k \in 1..M : path[k].kind = "param"}
  <2>5. \A i \in P : \E k \in 1..L : path[i].value = names[k]
    BY <2>4
  <2>6. \A k \in 1..L : \E i \in P : names[k] = path[i].value
    BY <2>3
  <2> HIDE DEF P
  <2>7. {names[k] : k \in 1..L} = {path[i].value : i \in P}
    BY <2>5, <2>6
  <2> QED
    BY <2>1, <2>2, <2>7 DEF P
<1>8. ASSUME NEW n \in Range(names) PROVE captured[LastName(names, n)] = parts[LastParam(path, n)]
  <2> DEFINE T == {k \in 1..L : names[k] = n}
  <2>1. \E x \in T : TRUE
    BY <1>2, <1>8 DEF Range
  <2>2. PICK x \in T : \A j \in T : j <= x
    BY <1>2, <2>1, LastPlace
  <2>3. x \in DOMAIN names /\ names[x] = n /\ \A j \in DOMAIN names : names[j] = n => j <= x
    BY <1>2, <2>2
  <2>4. LastName(names, n) = x
    <3>1. ASSUME NEW y \in DOMAIN names, names[y] = n, \A j \in DOMAIN names : names[j] = n => j <= y
          PROVE  y = x
      BY <1>2, <2>3, <3>1
    <3> QED
      BY <2>3, <3>1 DEF LastName
  <2>5. pos[x] \in DOMAIN path /\ path[pos[x]] = Param(n)
    BY <1>2, <1>3, <1>6, <2>3
  <2>6. ASSUME NEW k \in DOMAIN path, path[k] = Param(n) PROVE k <= pos[x]
    <3>1. PICK j \in 1..L : pos[j] = k
      BY <1>2, <1>5, <1>6, <2>6
    <3>2. names[j] = n
      BY <1>2, <1>3, <1>6, <2>6, <3>1
    <3>3. j <= x
      BY <1>2, <2>3, <3>2
    <3>4. x \in 1..L /\ pos[x] \in Nat /\ pos[j] \in Nat
      BY <1>2, <2>3
    <3>5. j = x \/ pos[j] < pos[x]
      BY <1>2, <1>4, <3>3, <3>4
    <3> QED
      BY <3>1, <3>4, <3>5
  <2>7. LastParam(path, n) = pos[x]
    <3>1. ASSUME NEW y \in DOMAIN path, path[y] = Param(n), \A k \in DOMAIN path : path[k] = Param(n) => k <= y
          PROVE  y = pos[x]
      BY <1>2, <2>5, <2>6, <3>1
    <3> QED
      BY <2>5, <2>6, <3>1 DEF LastParam
  <2> QED
    BY <1>2, <1>3, <2>3, <2>4, <2>7
<1>9. Params(names, captured) = [n \in Range(names) |-> captured[LastName(names, n)]]
  BY DEF Params, LastName
<1>10. Params(names, captured) = [n \in NamesOf(path) |-> parts[LastParam(path, n)]]
  BY <1>7, <1>8, <1>9
<1> QED
  BY <1>10 DEF names, captured

-----------------------------------------------------------------------------
(***************************************************************************)
(* The route table finds the first declared route.                         *)
(***************************************************************************)
Unusable(routes) ==
    \E r \in Range(routes) :
        \/ r.name = "" \/ ~r.upstream.known \/ r.uris = <<>>
        \/ \E u \in Range(r.uris) :
             \/ u.scheme = "" \/ u.host = Host(<<>>)
             \/ \E k \in DOMAIN u.path : u.path[k] = Lit("?")
             \/ \E k \in 1..(Len(u.path) - 1) : u.path[k] = Rest

FirstOf(X) == CHOOSE f \in X : \A g \in X : ~Before(g, f)

\* What FirstDeclared promises, with the parts of it named.
LEMMA FirstDeclaredIs ==
    ASSUME NEW routes, NEW req
    PROVE  LET first == FirstOf(Fitting(routes, req))
               path == PathOf(routes, first)
           IN  FirstDeclared(routes, req) =
                 IF Unusable(routes) THEN NoTable
                 ELSE IF Fitting(routes, req) = {}
                 THEN [order |-> 0, uri |-> 0, wildcard |-> <<>>, params |-> [n \in {} |-> ""]]
                 ELSE [order |-> first[1], uri |-> first[2],
                       wildcard |-> IF Rest \in Range(path) THEN SubSeq(req.path, Len(path), Len(req.path))
                                    ELSE <<>>,
                       params |-> [n \in NamesOf(path) |-> req.path[LastParam(path, n)]]]
  BY DEF FirstDeclared, Unusable, FirstOf, Fitting, PathOf, UriOf, NamesOf, LastParam

\* The factory refuses just the unusable tables.
LEMMA ValidIsUsable ==
    ASSUME NEW routes, IsTable(routes)
    PROVE  Valid(routes) <=> ~Unusable(routes)
<1>1. \A i \in DOMAIN routes : \A j \in DOMAIN routes[i].uris :
        LET path == routes[i].uris[j].path
        IN  Len(path) \in Nat /\ DOMAIN path = 1..Len(path)
  <2>1. ASSUME NEW i \in DOMAIN routes, NEW j \in DOMAIN routes[i].uris
        PROVE  Len(routes[i].uris[j].path) \in Nat
               /\ DOMAIN routes[i].uris[j].path = 1..Len(routes[i].uris[j].path)
    <3>1. routes[i].uris \in Seq(URIs)
      BY DEF IsTable
    <3>2. routes[i].uris[j] \in URIs
      BY <3>1
    <3>3. routes[i].uris[j].path \in Seq(Tokens)
      BY <3>2 DEF URIs
    <3> QED
      BY <3>3
  <2> QED
    BY <2>1
<1>2. \A i \in DOMAIN routes : \A j \in DOMAIN routes[i].uris :
        ValidPath(routes[i].uris[j].path) <=>
            ~\E k \in 1..(Len(routes[i].uris[j].path) - 1) : routes[i].uris[j].path[k] = Rest
  <2>1. ASSUME NEW path, Len(path) \in Nat, DOMAIN path = 1..Len(path)
        PROVE  ValidPath(path) <=> ~\E k \in 1..(Len(path) - 1) : path[k] = Rest
    <3>0. \A m \in Nat : \A k \in 1..m : k \in 1..(m - 1) <=> k # m
      BY SMTT(30)
    <3>1. \A k \in 1..Len(path) : k \in 1..(Len(path) - 1) <=> k # Len(path)
      BY <2>1, <3>0
    <3>2. 1..(Len(path) - 1) \subseteq 1..Len(path)
      BY <2>1
    <3> QED
      BY <2>1, <3>1, <3>2 DEF ValidPath
  <2> QED
    BY <1>1, <2>1
<1>3. Unusable(routes) <=>
        \E i \in DOMAIN routes :
          \/ routes[i].name = "" \/ ~routes[i].upstream.known \/ routes[i].uris = <<>>
          \/ \E j \in DOMAIN routes[i].uris :
               \/ routes[i].uris[j].scheme = "" \/ routes[i].uris[j].host = Host(<<>>)
               \/ \E k \in DOMAIN routes[i].uris[j].path : routes[i].uris[j].path[k] = Lit("?")
               \/ \E k \in 1..(Len(routes[i].uris[j].path) - 1) : routes[i].uris[j].path[k] = Rest
  <2> DEFINE BadURI(u) == \/ u.scheme = "" \/ u.host = Host(<<>>)
                          \/ \E k \in DOMAIN u.path : u.path[k] = Lit("?")
                          \/ \E k \in 1..(Len(u.path) - 1) : u.path[k] = Rest
             BadRoute(r) == \/ r.name = "" \/ ~r.upstream.known \/ r.uris = <<>>
                            \/ \E u \in Range(r.uris) : BadURI(u)
  <2>1. Unusable(routes) <=> \E r \in Range(routes) : BadRoute(r)
    BY DEF Unusable
  <2> HIDE DEF BadURI
  <2>2. \A r : (\E u \in Range(r.uris) : BadURI(u)) <=> \E j \in DOMAIN r.uris : BadURI(r.uris[j])
    BY DEF Range
  <2> HIDE DEF BadRoute
  <2>3. (\E r \in Range(routes) : BadRoute(r)) <=> \E i \in DOMAIN routes : BadRoute(routes[i])
    BY DEF Range
  <2>4. \A i \in DOMAIN routes :
          BadRoute(routes[i]) <=>
            \/ routes[i].name = "" \/ ~routes[i].upstream.known \/ routes[i].uris = <<>>
            \/ \E j \in DOMAIN routes[i].uris : BadURI(routes[i].uris[j])
    BY <2>2 DEF BadRoute
  <2> QED
    BY <2>1, <2>3, <2>4 DEF BadURI
<1>4. \A uri : Parses(uri) <=> ~(\/ uri.scheme = "" \/ uri.host = Host(<<>>)
                                \/ \E k \in DOMAIN uri.path : uri.path[k] = Lit("?"))
  BY DEF Parses, Range
<1> QED
  BY <1>2, <1>3, <1>4 DEF Valid

\* A path that is not refused has ** at its end or nowhere.
LEMMA RestAtEnd ==
    ASSUME NEW path \in Seq(Tokens), ValidPath(path)
    PROVE  Rest \in Range(path) <=> EndsInRest(path)
<1>1. Len(path) \in Nat /\ DOMAIN path = 1..Len(path) /\ (path # <<>> <=> Len(path) \in DOMAIN path)
  OBVIOUS
<1>2. Rest \in Range(path) <=> \E i \in DOMAIN path : path[i] = Rest
  BY DEF Range
<1> QED
  BY <1>1, <1>2 DEF ValidPath, EndsInRest

\* For every table and request the lookup in the tree, with its pruning, gives what
\* FirstDeclared promises: the first fitting route, its captures and what ** took.
THEOREM MatchIsFirstDeclared ==
    ASSUME NEW routes, IsTable(routes), NEW req, IsRequest(req)
    PROVE  Match(routes, req) = FirstDeclared(routes, req)
<1> DEFINE tree == Compile(routes)
           best == MatchHost(tree, "*", req, MatchHost(tree, req.scheme, req, NoMatch))
           F == Fitting(routes, req)
           first == FirstOf(F)
           path == PathOf(routes, first)
<1>1. Match(routes, req) =
        IF ~Valid(routes) THEN NoTable
        ELSE [order |-> best.ref.order, uri |-> best.ref.uri, wildcard |-> best.wildcard,
              params |-> Params(best.ref.params, best.captures)]
  BY DEF Match
<1>2. FirstDeclared(routes, req) =
                 IF Unusable(routes) THEN NoTable
                 ELSE IF F = {}
                 THEN [order |-> 0, uri |-> 0, wildcard |-> <<>>, params |-> [n \in {} |-> ""]]
                 ELSE [order |-> first[1], uri |-> first[2],
                       wildcard |-> IF Rest \in Range(path) THEN SubSeq(req.path, Len(path), Len(req.path))
                                    ELSE <<>>,
                       params |-> [n \in NamesOf(path) |-> req.path[LastParam(path, n)]]]
  BY FirstDeclaredIs
<1>3. Valid(routes) <=> ~Unusable(routes)
  BY ValidIsUsable
<1>4. CASE ~Valid(routes)
  BY <1>1, <1>2, <1>3, <1>4
<1>5. ASSUME Valid(routes) PROVE Match(routes, req) = FirstDeclared(routes, req)
  <2>1. IsBest(routes, req.path, best, F)
    BY <1>5, BestIsFound
  <2> HIDE DEF best, F
  <2>2. CASE F = {} /\ best = NoMatch
    <3>1. Params(<<>>, <<>>) = [n \in {} |-> ""]
      <4>1. Range(<<>>) = {}
        BY DEF Range
      <4> QED
        BY <4>1 DEF Params
    <3>2. best.ref.order = 0 /\ best.ref.uri = 0 /\ best.wildcard = <<>>
          /\ best.ref.params = <<>> /\ best.captures = <<>>
      BY <2>2 DEF NoMatch, NoRef
    <3> QED
      BY <1>1, <1>2, <1>3, <1>5, <2>2, <3>1, <3>2
  <2>3. ASSUME NEW e \in F, best = MatchOf(routes, req.path, e), \A f \in F : ~Before(f, e)
        PROVE  Match(routes, req) = FirstDeclared(routes, req)
    <3>1. F \subseteq Entries(routes)
      BY DEF F, Fitting
    <3>2. first = e
      <4>1. \A f \in F : (\A g \in F : ~Before(g, f)) => f = e
        BY <2>3, <3>1, BeforeIsTotal
      <4> QED
        BY <2>3, <4>1 DEF FirstOf
    <3> HIDE DEF first
    <3>3. path \in Seq(Tokens) /\ ValidPath(path)
      BY <1>5, <3>1, <3>2, EntryFacts, EntryIsValid
    <3>4. Rest \in Range(path) <=> EndsInRest(path)
      BY <3>3, RestAtEnd
    <3>5. /\ best.ref.order = first[1] /\ best.ref.uri = first[2] /\ best.ref.params = ParamNames(path)
          /\ best.captures = CapturedUpTo(path, req.path)[Len(path)]
          /\ best.wildcard = IF EndsInRest(path) THEN SubSeq(req.path, Len(path), Len(req.path)) ELSE <<>>
      BY <2>3, <3>2 DEF MatchOf, RefOf
    <3> HIDE DEF path
    <3>6. Params(best.ref.params, best.captures) = [n \in NamesOf(path) |-> req.path[LastParam(path, n)]]
      BY <3>3, <3>5, CapturesByName
    <3>7. best.wildcard = IF Rest \in Range(path) THEN SubSeq(req.path, Len(path), Len(req.path)) ELSE <<>>
      BY <3>4, <3>5
    <3>8. F # {}
      BY <2>3
    <3> QED
      BY <1>1, <1>2, <1>3, <1>5, <3>5, <3>6, <3>7, <3>8
  <2> QED
    BY <2>1, <2>2, <2>3 DEF IsBest
<1> QED
  BY <1>4, <1>5

-----------------------------------------------------------------------------
(***************************************************************************)
(* The HTTPProxy step.                                                     *)
(***************************************************************************)

\* A rewritten path is a path.
LEMMA RewrittenPath ==
    ASSUME NEW path \in Seq(STRING), NEW rewrites,
           \A p \in DOMAIN rewrites : p \in Seq(STRING) /\ rewrites[p] \in Seq(STRING)
    PROVE  RewritePath(path, rewrites) \in Seq(STRING)
<1> DEFINE fits == {p \in DOMAIN rewrites : IsPrefix(p, path)}
           longest == CHOOSE p \in fits : \A q \in fits : Len(q) <= Len(p)
           kept == SubSeq(path, Len(longest) + 1, Len(path))
<1>1. RewritePath(path, rewrites) = IF fits = {} THEN path ELSE rewrites[longest] \o kept
  BY DEF RewritePath
<1>2. \A p \in fits : p \in DOMAIN rewrites /\ Len(p) \in Nat /\ Len(p) <= Len(path)
  BY DEF IsPrefix
<1>3. Len(path) \in Nat
  OBVIOUS
<1>4. ASSUME fits # {} PROVE rewrites[longest] \o kept \in Seq(STRING)
  <2> DEFINE T == {Len(p) + 1 : p \in fits}
  <2>1. T \in SUBSET (1..(Len(path) + 1)) /\ Len(path) + 1 \in Nat
    BY <1>2, <1>3
  <2>2. \E x \in T : TRUE
    BY <1>4
  <2>3. \E i \in T : \A j \in T : j <= i
    <3> HIDE DEF T
    <3> QED
      BY <2>1, <2>2, LastPlace
  <2> HIDE DEF fits
  <2>4. PICK p \in fits : \A q \in fits : Len(q) + 1 <= Len(p) + 1
    BY <2>3
  <2>5. \A q \in fits : Len(q) <= Len(p)
    BY <1>2, <2>4
  <2>6. longest \in fits
    BY <2>4, <2>5
  <2> HIDE DEF longest
  <2>7. rewrites[longest] \in Seq(STRING) /\ Len(longest) \in Nat /\ Len(longest) <= Len(path)
    BY <1>2, <2>6
  <2>8. kept \in Seq(STRING)
    <3>1. Len(longest) + 1 \in 1..(Len(path) + 1)
      BY <1>3, <2>7
    <3>2. \A k \in (Len(longest) + 1)..Len(path) : path[k] \in STRING
      BY <1>3, <2>7
    <3> QED
      BY <1>3, <3>1, <3>2, SubSeqProperties
  <2> QED
    BY <2>7, <2>8, ConcatProperties
<1> HIDE DEF fits, longest, kept
<1> QED
  BY <1>1, <1>4

\* An escaped path is a path.
LEMMA EscapedPath ==
    ASSUME NEW path \in Seq(STRING)
    PROVE  Escaped(path) \in Seq(STRING)
<1>1. PICK n \in Nat : path \in [1..n -> STRING] /\ DOMAIN path = 1..n
  BY SeqDef
<1>2. \A x \in STRING : Escape(x) \in STRING
  BY EscapeAssumption DEF Escape
<1>3. Escaped(path) \in [1..n -> STRING]
  BY <1>1, <1>2 DEF Escaped
<1> QED
  BY <1>3, SeqDef

\* What the step looks up is a request.
LEMMA LookupIsRequest ==
    ASSUME NEW config, IsProxyConfig(config), NEW req, IsRequest(req)
    PROVE  IsRequest(RequestOf(EffectiveURI(config, req), req.method))
<1> DEFINE path == RewritePath(req.path, config.rewrites)
           uri == EffectiveURI(config, req)
<1>1. path \in Seq(STRING) /\ req.host \in Seq(STRING)
  BY RewrittenPath DEF IsProxyConfig, IsRequest
<1>2. uri = IF config.base = <<>>
            THEN [base |-> <<IF req.scheme = "" THEN "http" ELSE req.scheme, req.host>>, path |-> path]
            ELSE [base |-> config.base[1], path |-> config.base[2] \o path]
  BY DEF EffectiveURI
<1> HIDE DEF path, uri
<1>3. uri.base[2] \in Seq(STRING) /\ uri.path \in Seq(STRING)
  <2>1. CASE config.base = <<>>
    <3>1. uri.base[2] = req.host /\ uri.path = path
      BY <1>2, <2>1
    <3> QED
      BY <1>1, <3>1
  <2>2. CASE config.base # <<>>
    <3>1. uri.base = config.base[1] /\ uri.path = config.base[2] \o path
      BY <1>2, <2>2
    <3>2. config.base[1][2] \in Seq(STRING) /\ config.base[2] \in Seq(STRING)
      BY <2>2 DEF IsProxyConfig
    <3>3. config.base[2] \o path \in Seq(STRING)
      BY <1>1, <3>2, ConcatProperties
    <3> QED
      BY <3>1, <3>2, <3>3
  <2> QED
    BY <2>1, <2>2
<1>4. Escaped(uri.path) \in Seq(STRING)
  BY <1>3, EscapedPath
<1>5. IsRequest(RequestOf(uri, req.method))
  BY <1>3, <1>4 DEF IsRequest, RequestOf
<1> QED
  BY <1>5 DEF uri

\* A route that is chosen is one of the table.
LEMMA ChosenRoute ==
    ASSUME NEW routes, IsTable(routes), NEW req, IsRequest(req),
           ~(FirstDeclared(routes, req).order <= 0)
    PROVE  FirstDeclared(routes, req).order \in DOMAIN routes
<1> DEFINE F == Fitting(routes, req)
           first == FirstOf(F)
           chosen == FirstDeclared(routes, req)
<1>1. \/ chosen.order = -1 \/ chosen.order = 0
      \/ F # {} /\ Valid(routes) /\ chosen.order = first[1]
  BY FirstDeclaredIs, ValidIsUsable DEF NoTable
<1>2. F # {} /\ Valid(routes) /\ chosen.order = first[1]
  BY <1>1
<1>3. PICK e \in F : \A f \in F : ~Before(f, e)
  BY <1>2, BestIsFound DEF IsBest
<1>4. first \in F
  BY <1>3 DEF FirstOf
<1> HIDE DEF first, chosen
<1>5. first \in Entries(routes)
  BY <1>4 DEF Fitting
<1>6. first[1] \in 1..Len(routes)
  BY <1>5, EntryFacts
<1>7. first[1] \in DOMAIN routes
  BY <1>6 DEF IsTable
<1> QED
  BY <1>2, <1>7 DEF chosen

\* No table, no route, or one of the table.
LEMMA ChosenOrder ==
    ASSUME NEW routes, IsTable(routes), NEW req, IsRequest(req)
    PROVE  LET chosen == FirstDeclared(routes, req)
           IN  chosen.order \in Int /\ (chosen = NoTable <=> chosen.order < 0)
<1> DEFINE chosen == FirstDeclared(routes, req)
           F == Fitting(routes, req)
           first == FirstOf(F)
<1>1. \/ chosen = NoTable \/ chosen.order = 0
      \/ F # {} /\ Valid(routes) /\ chosen.order = first[1]
  BY FirstDeclaredIs, ValidIsUsable
<1>2. NoTable.order = -1
  BY DEF NoTable
<1>3. ASSUME F # {}, Valid(routes) PROVE first[1] \in Nat \ {0}
  <2>1. PICK e \in F : \A f \in F : ~Before(f, e)
    BY <1>3, BestIsFound DEF IsBest
  <2>2. first \in F
    BY <2>1 DEF FirstOf
  <2> HIDE DEF first
  <2>3. first \in Entries(routes)
    BY <2>2 DEF Fitting
  <2> QED
    BY <2>3, EntryFacts
<1> HIDE DEF chosen, first, F
<1>4. chosen.order \in Int /\ (chosen = NoTable <=> chosen.order < 0)
  BY <1>1, <1>2, <1>3
<1> QED
  BY <1>4 DEF chosen

\* HTTPProxy.Execute answers and forwards as its table is configured, for every
\* table, configuration and request.
LEMMA ProxyForwards ==
    ASSUME NEW table, NEW config, NEW req, IsTable(table.routes), IsRequest(req), IsProxyConfig(config),
           \A i \in DOMAIN table.routes : \A j \in DOMAIN table.routes[i].policies :
               IsPolicy(table.routes[i].policies[j])
    PROVE  Forwarded(table, config, req, Proxy(table, config, req))
<1> DEFINE uri == EffectiveURI(config, req)
           asked == RequestOf(uri, req.method)
           m == Match(table.routes, asked)
           chosen == FirstDeclared(table.routes, asked)
           route == table.routes[chosen.order]
           layers == <<table.layer, route.upstream, route.layer>>
           allowed == \A i \in DOMAIN route.policies : Allows(route.policies[i], req)
           direct == config.base # <<>> \/ route.upstream.url = ""
           able == config.savable /\ req.readable /\ (direct \/ route.upstream.parses)
           Expected(n) == ExpectedHeader(n, req, table.hop, layers)
           headers == WithContentType(RouteHeaders(req.headers, table.hop, layers), req.bodyType)
           target == IF direct THEN [base |-> uri.base, path |-> Escaped(uri.path)]
                     ELSE TargetURI(route, chosen, uri)
           path == Escaped(route.upstream.path
                             \o IF route.rewrite = <<>> THEN Escaped(uri.path)
                                ELSE ApplyRewrite(route.rewrite, chosen, Escaped(uri.path)))
           answer == IF req.upstreamFails \/ ~config.copyHeaders THEN {}
                     ELSE CopyResponseHeaders(req.answer, table.hop)
           status == IF req.upstreamFails THEN 502 ELSE 200
           result == Proxy(table, config, req)
<1>1. m = chosen
  BY LookupIsRequest, MatchIsFirstDeclared
<1>2. result = IF m.order < 0 THEN Refused(404)
        ELSE IF ~Complete(uri) THEN Failed
        ELSE IF m.order = 0 THEN Refused(404)
        ELSE IF ~PoliciesHold(table.routes[m.order].policies, req) THEN Refused(403)
        ELSE IF \/ ~config.savable
                \/ (config.base = <<>> /\ table.routes[m.order].upstream.url # "")
                   /\ ~table.routes[m.order].upstream.parses
                \/ ~req.readable THEN Failed
        ELSE [status |-> status,
              target |-> IF config.base = <<>> /\ table.routes[m.order].upstream.url # ""
                         THEN TargetURI(table.routes[m.order], m, uri)
                         ELSE [base |-> uri.base, path |-> Escaped(uri.path)],
              headers |-> WithContentType(
                            RouteHeaders(req.headers, table.hop,
                              <<table.layer, table.routes[m.order].upstream, table.routes[m.order].layer>>),
                            req.bodyType),
              answer |-> answer]
  BY DEF Proxy
<1>d. Forwarded(table, config, req, result) =
        (/\ result.status = IF chosen = NoTable THEN 404 ELSE IF ~Complete(uri) THEN 0
                            ELSE IF chosen.order = 0 THEN 404 ELSE IF ~allowed THEN 403
                            ELSE IF ~able THEN 0 ELSE status
         /\ result.status \in {200, 502} =>
              /\ direct => result.target.base = uri.base /\ result.target.path = Escaped(uri.path)
              /\ ~direct => result.target.base = route.upstream.url /\ result.target.path = path
              /\ result.answer \cap (table.hop \cup {"Content-Length"}) = {}
              /\ \A n \in DOMAIN result.headers : Expected(n) = {result.headers[n]}
              /\ \A n \in DOMAIN req.headers \cup UNION {DOMAIN layers[i].add : i \in 1..3} :
                     n \notin DOMAIN result.headers => Expected(n) = {})
  BY DEF Forwarded
<1>3. Refused(404).status = 404 /\ Refused(403).status = 403 /\ Failed.status = 0
  BY DEF Refused, Failed
<1>4. \A n : IF n \in DOMAIN headers THEN Expected(n) = {headers[n]} ELSE Expected(n) = {}
  <2> DEFINE inner == RouteHeaders(req.headers, table.hop, layers)
  <2>1. \A n : IF n \in DOMAIN inner THEN InnermostHeader(n, req.headers, table.hop, layers) = {inner[n]}
               ELSE InnermostHeader(n, req.headers, table.hop, layers) = {}
    BY SMTT(30), HeadersAreInnermost
  <2> HIDE DEF inner
  <2>2. IF "Content-Type" \in DOMAIN inner \/ req.bodyType = "" THEN headers = inner
        ELSE /\ DOMAIN headers = DOMAIN inner \cup {"Content-Type"} /\ headers["Content-Type"] = req.bodyType
             /\ \A n \in DOMAIN inner : headers[n] = inner[n]
    BY DEF WithContentType, Layered, inner
  <2> HIDE DEF headers, layers
  <2> QED
    BY <2>1, <2>2 DEF ExpectedHeader
<1>5. answer \cap (table.hop \cup {"Content-Length"}) = {}
  BY DEF CopyResponseHeaders
<1>6. /\ direct => target.base = uri.base /\ target.path = Escaped(uri.path)
      /\ ~direct => target.base = route.upstream.url /\ target.path = path
  BY DEF TargetURI
<1>7. ASSUME ~(chosen.order <= 0) PROVE PoliciesHold(route.policies, req) <=> allowed
  <2>1. chosen.order \in DOMAIN table.routes
    BY <1>7, LookupIsRequest, ChosenRoute
  <2>2. \A j \in DOMAIN route.policies : IsPolicy(route.policies[j])
    BY <2>1
  <2>3. \A j \in DOMAIN route.policies :
          (route.policies[j].kind = "" \/ PolicyHolds(route.policies[j], req)) <=> Allows(route.policies[j], req)
    BY <2>2, PolicyAllows
  <2> HIDE DEF route
  <2> QED
    BY <2>3 DEF PoliciesHold
<1>0. /\ chosen = NoTable <=> chosen.order < 0
      /\ chosen.order \in Int
  BY LookupIsRequest, ChosenOrder
<1> HIDE DEF m, chosen, result, answer, target, headers, uri, asked, status, path
<1>8. result = IF chosen.order < 0 THEN Refused(404)
        ELSE IF ~Complete(uri) THEN Failed
        ELSE IF chosen.order = 0 THEN Refused(404)
        ELSE IF ~PoliciesHold(route.policies, req) THEN Refused(403)
        ELSE IF ~able THEN Failed
        ELSE [status |-> status, target |-> target, headers |-> headers, answer |-> answer]
  <2>1. target = IF config.base = <<>> /\ route.upstream.url # "" THEN TargetURI(route, chosen, uri)
                 ELSE [base |-> uri.base, path |-> Escaped(uri.path)]
    BY DEF target
  <2>2. ~able <=> \/ ~config.savable
                  \/ (config.base = <<>> /\ route.upstream.url # "") /\ ~route.upstream.parses
                  \/ ~req.readable
    OBVIOUS
  <2>3. headers = WithContentType(RouteHeaders(req.headers, table.hop, layers), req.bodyType)
    BY DEF headers
  <2>4. route = table.routes[m.order] /\ chosen = m
    BY <1>1
  <2>5. layers = <<table.layer, table.routes[m.order].upstream, table.routes[m.order].layer>>
    BY <2>4
  <2> HIDE DEF route, layers, able, direct
  <2>6. ~able <=> \/ ~config.savable
                  \/ (config.base = <<>> /\ table.routes[m.order].upstream.url # "")
                     /\ ~table.routes[m.order].upstream.parses
                  \/ ~req.readable
    BY <2>2, <2>4
  <2>7. target = IF config.base = <<>> /\ table.routes[m.order].upstream.url # ""
                 THEN TargetURI(table.routes[m.order], m, uri)
                 ELSE [base |-> uri.base, path |-> Escaped(uri.path)]
    BY <2>1, <2>4
  <2>8. headers = WithContentType(
                    RouteHeaders(req.headers, table.hop,
                      <<table.layer, table.routes[m.order].upstream, table.routes[m.order].layer>>),
                    req.bodyType)
    BY <2>3, <2>5
  <2>9. result = IF m.order < 0 THEN Refused(404)
          ELSE IF ~Complete(uri) THEN Failed
          ELSE IF m.order = 0 THEN Refused(404)
          ELSE IF ~PoliciesHold(table.routes[m.order].policies, req) THEN Refused(403)
          ELSE IF ~able THEN Failed
          ELSE [status |-> status, target |-> target, headers |-> headers, answer |-> answer]
    BY <1>2, <2>6, <2>7, <2>8, ZenonT(60)
  <2> QED
    BY <2>4, <2>9, ZenonT(60)
<1> HIDE DEF route, layers, allowed, Expected, direct, able
<1>9. CASE chosen = NoTable
  <2>1. result.status = 404
    BY <1>0, <1>3, <1>8, <1>9
  <2> QED
    BY <1>d, <1>9, <2>1 DEF result
<1>10. CASE chosen # NoTable /\ ~Complete(uri)
  <2>1. result.status = 0
    BY <1>0, <1>3, <1>8, <1>10
  <2> QED
    BY <1>d, <1>10, <2>1 DEF result
<1>11. CASE chosen # NoTable /\ Complete(uri) /\ chosen.order = 0
  <2>1. result.status = 404
    BY <1>0, <1>3, <1>8, <1>11
  <2> QED
    BY <1>d, <1>11, <2>1 DEF result
<1>12. CASE chosen # NoTable /\ Complete(uri) /\ chosen.order # 0 /\ ~allowed
  <2>1. result.status = 403
    BY <1>0, <1>3, <1>7, <1>8, <1>12
  <2> QED
    BY <1>d, <1>12, <2>1 DEF result
<1>13. CASE chosen # NoTable /\ Complete(uri) /\ chosen.order # 0 /\ allowed /\ ~able
  <2>1. result.status = 0
    BY <1>0, <1>3, <1>7, <1>8, <1>13
  <2> QED
    BY <1>d, <1>13, <2>1 DEF result
<1>14. CASE chosen # NoTable /\ Complete(uri) /\ chosen.order # 0 /\ allowed /\ able
  <2>1. result = [status |-> status, target |-> target, headers |-> headers, answer |-> answer]
    BY <1>0, <1>7, <1>8, <1>14
  <2>2. /\ result.status = status /\ result.target = target /\ result.headers = headers
        /\ result.answer = answer
    BY <2>1
  <2> QED
    BY <1>d, <1>4, <1>5, <1>6, <1>14, <2>2 DEF result
<1> QED
  BY <1>9, <1>10, <1>11, <1>12, <1>13, <1>14

-----------------------------------------------------------------------------
(***************************************************************************)
(* The loops over strings, turn by turn.                                   *)
(***************************************************************************)

\* Concatenation, under a name that the provers do not look through.
Cat(x, y) == x \o y

\* The least of some places of a string.
LEMMA FirstPlace ==
    ASSUME NEW n \in Nat, NEW T \in SUBSET (1..n), T # {}
    PROVE  Min(T) \in T /\ \A y \in T : Min(T) <= y
<1> DEFINE U == {n + 1 - x : x \in T}
<1>1. U \in SUBSET (1..n)
  OBVIOUS
<1>2. PICK x \in T : TRUE
  OBVIOUS
<1>3. n + 1 - x \in U
  OBVIOUS
<1>4. PICK u \in U : \A v \in U : v <= u
  <2> HIDE DEF U
  <2> QED
    BY <1>1, <1>3, LastPlace
<1>5. PICK y \in T : u = n + 1 - y
  BY <1>4
<1>6. \A z \in T : y <= z
  <2> SUFFICES ASSUME NEW z \in T PROVE y <= z
    OBVIOUS
  <2>1. n + 1 - z <= u
    BY <1>4
  <2>2. z \in Nat /\ y \in Nat /\ z \in 1..n /\ y \in 1..n
    OBVIOUS
  <2> QED
    BY <1>5, <2>1, <2>2
<1> QED
  BY <1>5, <1>6 DEF Min

\* The first place of a symbol, if there is one.
LEMMA FirstAt ==
    ASSUME NEW s, Len(s) \in Nat, NEW x, NEW from \in Nat, from >= 1, NextAt(s, x, from) # {}
    PROVE  /\ Min(NextAt(s, x, from)) \in from..Len(s)
           /\ s[Min(NextAt(s, x, from))] = x
           /\ \A k \in from..(Min(NextAt(s, x, from)) - 1) : s[k] # x
<1> DEFINE T == NextAt(s, x, from)
           m == Min(T)
<1>1. T # {} /\ T \in SUBSET (1..Len(s)) /\ T = {i \in from..Len(s) : s[i] = x}
  BY DEF NextAt
<1>2. m \in T /\ \A y \in T : m <= y
  <2> HIDE DEF T
  <2> QED
    BY <1>1, FirstPlace
<1> HIDE DEF m
<1>3. m \in from..Len(s) /\ s[m] = x
  BY <1>1, <1>2
<1>4. \A k \in from..(m - 1) : s[k] # x
  BY <1>1, <1>2, <1>3
<1> QED
  BY <1>3, <1>4 DEF m

\* Whether a placeholder is open, symbol by symbol.
LEMMA InsideUnfold ==
    ASSUME NEW s, Len(s) \in Nat
    PROVE  /\ ~InsideUpTo(s)[0]
           /\ \A n \in 1..Len(s) :
               InsideUpTo(s)[n] = (IF InsideUpTo(s)[n - 1] THEN s[n] # Close ELSE s[n] = Open)
<1> DEFINE D(x, n) == IF x THEN s[n] # Close ELSE s[n] = Open
           IsF(f, N) == f = [n \in 0..N |-> IF n = 0 THEN FALSE ELSE D(f[n - 1], n)]
           S == {n \in Nat : \E f : IsF(f, n)}
<1>1. Nat \subseteq S
  <2> HIDE DEF D
  <2>1. 0 \in S
    <3>1. IsF([n \in 0..0 |-> FALSE], 0)
      OBVIOUS
    <3> QED
      BY <3>1
  <2>2. ASSUME NEW n \in Nat, n \in S PROVE n + 1 \in S
    <3>1. PICK f : IsF(f, n)
      BY <2>2
    <3> DEFINE g == [k \in 0..(n + 1) |-> IF k <= n THEN f[k] ELSE D(f[n], n + 1)]
    <3>2. \A k \in 0..(n + 1) : g[k] = IF k = 0 THEN FALSE ELSE D(g[k - 1], k)
      BY <3>1
    <3>3. IsF(g, n + 1)
      BY <3>2
    <3> HIDE DEF g, IsF
    <3> QED
      BY <3>3
  <2> HIDE DEF S
  <2> QED
    BY <2>1, <2>2, SetInduction
<1>2. \E f : IsF(f, Len(s))
  BY <1>1
<1>3. InsideUpTo(s) = CHOOSE f : IsF(f, Len(s))
  BY DEF InsideUpTo
<1>4. IsF(InsideUpTo(s), Len(s))
  <2> HIDE DEF IsF
  <2> QED
    BY <1>2, <1>3
<1>5. /\ InsideUpTo(s)[0] = FALSE
      /\ \A n \in 1..Len(s) : InsideUpTo(s)[n] = D(InsideUpTo(s)[n - 1], n)
  <2> DEFINE F == InsideUpTo(s)
             M == Len(s)
  <2>1. M \in Nat /\ F = [n \in 0..M |-> IF n = 0 THEN FALSE ELSE D(F[n - 1], n)]
    BY <1>4
  <2> HIDE DEF D, F, M
  <2>2. F[0] = FALSE /\ \A n \in 1..M : F[n] = D(F[n - 1], n)
    BY <2>1
  <2> QED
    BY <2>2 DEF F, M
<1> QED
  BY <1>5

\* What discoverPlaceholders finds from a cursor on.
LEMMA PlaceholdersUnfold ==
    ASSUME NEW s, Len(s) \in Nat, NEW cursor \in 1..(Len(s) + 1)
    PROVE  LET opens == NextAt(s, Open, cursor)
               start == Min(opens)
               closes == NextAt(s, Close, start + 1)
               end == Min(closes)
               path == SubSeq(s, start + 1, end - 1)
               rest == PlaceholdersFrom(s)[end + 1]
           IN  PlaceholdersFrom(s)[cursor] =
                 IF opens = {} THEN <<>>
                 ELSE IF closes = {} \/ Split(path) = 0 \/ rest = MalformedPlaceholder
                 THEN MalformedPlaceholder
                 ELSE <<[template |-> path, startsAt |-> start, endsAt |-> end + 1]>> \o rest
<1> DEFINE opens(c) == NextAt(s, Open, c)
           start(c) == Min(opens(c))
           closes(c) == NextAt(s, Close, start(c) + 1)
           end(c) == Min(closes(c))
           path(c) == SubSeq(s, start(c) + 1, end(c) - 1)
           D(x, c) == IF opens(c) = {} THEN <<>>
                      ELSE IF closes(c) = {} \/ Split(path(c)) = 0 \/ x = MalformedPlaceholder
                      THEN MalformedPlaceholder
                      ELSE <<[template |-> path(c), startsAt |-> start(c), endsAt |-> end(c) + 1]>> \o x
           nx(c) == end(c) + 1
           N == Len(s) + 1
           IsF(f, m) == f = [c \in m..N |-> D(f[nx(c)], c)]
           S == {n \in Nat : n < N => \E f : IsF(f, N - n)}
<1>0. \A c \in 1..N : nx(c) \in (c + 1)..N \/ \A x, y : D(x, c) = D(y, c)
  <2> SUFFICES ASSUME NEW c \in 1..N, opens(c) # {}, closes(c) # {} PROVE nx(c) \in (c + 1)..N
    OBVIOUS
  <2>1. start(c) \in c..Len(s)
    <3> HIDE DEF opens
    <3> QED
      BY FirstAt DEF opens
  <2> HIDE DEF start
  <2>2. end(c) \in (start(c) + 1)..Len(s)
    <3>1. start(c) + 1 \in Nat /\ start(c) + 1 >= 1
      BY <2>1
    <3> QED
      BY <3>1, FirstAt
  <2> HIDE DEF end
  <2> QED
    BY <2>1, <2>2
<1>n. N \in Nat
  OBVIOUS
<1>1. Nat \subseteq S
  <2> HIDE DEF D, nx, N
  <2>1. 0 \in S
    <3>1. IsF([c \in N..N |-> D(<<>>, N)], N)
      <4>1. \A x, y : D(x, N) = D(y, N)
        BY <1>0, <1>n DEF N
      <4> QED
        BY <1>n, <4>1
    <3>2. N - 0 = N
      BY <1>n
    <3> HIDE DEF IsF
    <3> QED
      BY <3>1, <3>2
  <2>2. ASSUME NEW n \in Nat, n \in S PROVE n + 1 \in S
    <3>1. SUFFICES ASSUME n + 1 < N PROVE \E f : IsF(f, N - (n + 1))
      OBVIOUS
    <3>2. PICK f : IsF(f, N - n)
      BY <1>n, <2>2, <3>1
    <3> DEFINE m == N - (n + 1)
               g == [k \in m..N |-> IF k > m THEN f[k] ELSE D(f[nx(m)], m)]
    <3>3. m \in 1..N /\ N - n = m + 1
      BY <1>n, <3>1
    <3> HIDE DEF m
    <3>4. \A k \in m..N : g[k] = D(g[nx(k)], k)
      <4> SUFFICES ASSUME NEW k \in m..N PROVE g[k] = D(g[nx(k)], k)
        OBVIOUS
      <4>1. k \in 1..N /\ (k > m => k \in (m + 1)..N)
        BY <1>n, <3>3
      <4>2. g[k] = D(f[nx(k)], k)
        <5>1. CASE k > m
          <6>1. f[k] = D(f[nx(k)], k)
            BY <3>2, <3>3, <4>1, <5>1
          <6> QED
            BY <5>1, <6>1
        <5>2. CASE ~(k > m)
          <6>1. k = m
            BY <1>n, <3>3, <5>2
          <6> QED
            BY <1>n, <3>3, <5>2, <6>1
        <5> QED
          BY <5>1, <5>2
      <4>3. CASE nx(k) \in (k + 1)..N
        <5>1. nx(k) \in m..N /\ nx(k) > m
          BY <1>n, <3>3, <4>3
        <5>2. g[nx(k)] = f[nx(k)]
          BY <5>1
        <5> HIDE DEF g
        <5> QED
          BY <4>2, <5>2
      <4>4. CASE \A x, y : D(x, k) = D(y, k)
        <5> HIDE DEF g
        <5> QED
          BY <4>2, <4>4
      <4> QED
        BY <1>0, <4>1, <4>3, <4>4
    <3>5. IsF(g, m)
      BY <3>4
    <3> HIDE DEF g, IsF
    <3> QED
      BY <3>5 DEF m
  <2> HIDE DEF S
  <2> QED
    BY <2>1, <2>2, SetInduction
<1>2. \E f : IsF(f, 1)
  <2>1. Len(s) \in S /\ Len(s) < N /\ N - Len(s) = 1
    <3> HIDE DEF S
    <3> QED
      BY <1>1
  <2> HIDE DEF N, IsF
  <2> QED
    BY <2>1
<1>3. PlaceholdersFrom(s) = CHOOSE f : IsF(f, 1)
  BY DEF PlaceholdersFrom
<1>4. IsF(PlaceholdersFrom(s), 1)
  <2> HIDE DEF IsF
  <2> QED
    BY <1>2, <1>3
<1>5. PlaceholdersFrom(s)[cursor] = D(PlaceholdersFrom(s)[nx(cursor)], cursor)
  <2> DEFINE F == PlaceholdersFrom(s)
  <2>1. F = [c \in 1..N |-> D(F[nx(c)], c)]
    BY <1>4
  <2> HIDE DEF D, F, nx
  <2> QED
    BY <2>1 DEF F
<1> QED
  BY <1>5

\* The text that is written from a place on.
LEMMA WrittenUnfold ==
    ASSUME NEW s, Len(s) \in Nat, NEW texts, NEW i \in 1..(Len(s) + 1),
           \A k \in 1..Len(s) : PatternAt(s, k) # {} => Min(PatternAt(s, k)) \in (k + 1)..Len(s)
    PROVE  LET j == Min(PatternAt(s, i))
               template == SubSeq(s, i + 1, j - 1)
               W == WrittenFrom(s, texts)
           IN  /\ i = Len(s) + 1 => W[i] = <<>>
               /\ i # Len(s) + 1 /\ PatternAt(s, i) = {} => W[i] = Cat(<<s[i]>>, W[i + 1])
               /\ i # Len(s) + 1 /\ PatternAt(s, i) # {} =>
                    W[i] = Cat(IF template \in DOMAIN texts THEN texts[template] ELSE SubSeq(s, i, j), W[j + 1])
<1> DEFINE j(c) == Min(PatternAt(s, c))
           template(c) == SubSeq(s, c + 1, j(c) - 1)
           D(x, c) == IF c = Len(s) + 1 THEN <<>>
                      ELSE IF PatternAt(s, c) = {} THEN <<s[c]>> \o x
                      ELSE (IF template(c) \in DOMAIN texts THEN texts[template(c)] ELSE SubSeq(s, c, j(c))) \o x
           nx(c) == IF PatternAt(s, c) = {} THEN c + 1 ELSE j(c) + 1
           N == Len(s) + 1
           IsF(f, m) == f = [c \in m..N |-> D(f[nx(c)], c)]
           S == {n \in Nat : n < N => \E f : IsF(f, N - n)}
<1>0. \A c \in 1..N : nx(c) \in (c + 1)..N \/ \A x, y : D(x, c) = D(y, c)
  <2> SUFFICES ASSUME NEW c \in 1..N, c # Len(s) + 1 PROVE nx(c) \in (c + 1)..N
    OBVIOUS
  <2>1. c \in 1..Len(s)
    OBVIOUS
  <2>2. PatternAt(s, c) # {} => j(c) \in (c + 1)..Len(s)
    BY <2>1
  <2> HIDE DEF j
  <2> QED
    BY <2>1, <2>2
<1>n. N \in Nat
  OBVIOUS
<1>1. Nat \subseteq S
  <2> HIDE DEF D, nx, N
  <2>1. 0 \in S
    <3>1. IsF([c \in N..N |-> D(<<>>, N)], N)
      <4>1. \A x, y : D(x, N) = D(y, N)
        BY <1>0, <1>n DEF N
      <4> QED
        BY <1>n, <4>1
    <3>2. N - 0 = N
      BY <1>n
    <3> HIDE DEF IsF
    <3> QED
      BY <3>1, <3>2
  <2>2. ASSUME NEW n \in Nat, n \in S PROVE n + 1 \in S
    <3>1. SUFFICES ASSUME n + 1 < N PROVE \E f : IsF(f, N - (n + 1))
      OBVIOUS
    <3>2. PICK f : IsF(f, N - n)
      BY <1>n, <2>2, <3>1
    <3> DEFINE m == N - (n + 1)
               g == [k \in m..N |-> IF k > m THEN f[k] ELSE D(f[nx(m)], m)]
    <3>3. m \in 1..N /\ N - n = m + 1
      BY <1>n, <3>1
    <3> HIDE DEF m
    <3>4. \A k \in m..N : g[k] = D(g[nx(k)], k)
      <4> SUFFICES ASSUME NEW k \in m..N PROVE g[k] = D(g[nx(k)], k)
        OBVIOUS
      <4>1. k \in 1..N /\ (k > m => k \in (m + 1)..N)
        BY <1>n, <3>3
      <4>2. g[k] = D(f[nx(k)], k)
        <5>1. CASE k > m
          <6>1. f[k] = D(f[nx(k)], k)
            BY <3>2, <3>3, <4>1, <5>1
          <6> QED
            BY <5>1, <6>1
        <5>2. CASE ~(k > m)
          <6>1. k = m
            BY <1>n, <3>3, <5>2
          <6> QED
            BY <1>n, <3>3, <5>2, <6>1
        <5> QED
          BY <5>1, <5>2
      <4>3. CASE nx(k) \in (k + 1)..N
        <5>1. nx(k) \in m..N /\ nx(k) > m
          BY <1>n, <3>3, <4>3
        <5>2. g[nx(k)] = f[nx(k)]
          BY <5>1
        <5> HIDE DEF g
        <5> QED
          BY <4>2, <5>2
      <4>4. CASE \A x, y : D(x, k) = D(y, k)
        <5> HIDE DEF g
        <5> QED
          BY <4>2, <4>4
      <4> QED
        BY <1>0, <4>1, <4>3, <4>4
    <3>5. IsF(g, m)
      BY <3>4
    <3> HIDE DEF g, IsF
    <3> QED
      BY <3>5 DEF m
  <2> HIDE DEF S
  <2> QED
    BY <2>1, <2>2, SetInduction
<1>2. \E f : IsF(f, 1)
  <2>1. Len(s) \in S /\ Len(s) < N /\ N - Len(s) = 1
    <3> HIDE DEF S
    <3> QED
      BY <1>1
  <2> HIDE DEF N, IsF
  <2> QED
    BY <2>1
<1>3. WrittenFrom(s, texts) = CHOOSE f : IsF(f, 1)
  <2> DEFINE B(f, c) == IF c = Len(s) + 1 THEN <<>>
                        ELSE IF PatternAt(s, c) = {} THEN <<s[c]>> \o f[c + 1]
                        ELSE (IF template(c) \in DOMAIN texts THEN texts[template(c)] ELSE SubSeq(s, c, j(c)))
                               \o f[j(c) + 1]
  <2>1. \A f, c : B(f, c) = D(f[nx(c)], c)
    <3> HIDE DEF template, j
    <3> QED
      OBVIOUS
  <2>2. WrittenFrom(s, texts) = CHOOSE f : f = [c \in 1..N |-> B(f, c)]
    BY DEF WrittenFrom
  <2> HIDE DEF B, D, nx, N
  <2>3. \A f : (f = [c \in 1..N |-> B(f, c)]) <=> (f = [c \in 1..N |-> D(f[nx(c)], c)])
    BY <2>1
  <2> QED
    BY <2>2, <2>3
<1>4. IsF(WrittenFrom(s, texts), 1)
  <2> HIDE DEF IsF
  <2> QED
    BY <1>2, <1>3
<1>5. WrittenFrom(s, texts)[i] = D(WrittenFrom(s, texts)[nx(i)], i)
  <2> DEFINE F == WrittenFrom(s, texts)
  <2>1. F = [c \in 1..N |-> D(F[nx(c)], c)]
    BY <1>4
  <2> HIDE DEF D, F, nx
  <2> QED
    BY <2>1 DEF F
<1>6. \A x : D(x, i) = IF i = Len(s) + 1 THEN <<>>
                       ELSE IF PatternAt(s, i) = {} THEN Cat(<<s[i]>>, x)
                       ELSE Cat(IF template(i) \in DOMAIN texts THEN texts[template(i)] ELSE SubSeq(s, i, j(i)), x)
  BY DEF Cat
<1> HIDE DEF D, template, j
<1>7. WrittenFrom(s, texts)[i] =
        IF i = Len(s) + 1 THEN <<>>
        ELSE IF PatternAt(s, i) = {} THEN Cat(<<s[i]>>, WrittenFrom(s, texts)[i + 1])
        ELSE Cat(IF template(i) \in DOMAIN texts THEN texts[template(i)] ELSE SubSeq(s, i, j(i)),
                 WrittenFrom(s, texts)[j(i) + 1])
  BY <1>5, <1>6
<1> QED
  BY <1>7 DEF template, j

\* The text resolveStepVariable builds, placeholder by placeholder.
LEMMA ReplacedUnfold ==
    ASSUME NEW s, NEW ps, NEW values, Len(ps) \in Nat
    PROVE  /\ ReplacedUpTo(s, ps, values)[0] = <<>>
           /\ \A n \in 1..Len(ps) :
               ReplacedUpTo(s, ps, values)[n] =
                 Cat(Cat(ReplacedUpTo(s, ps, values)[n - 1],
                         SubSeq(s, IF n = 1 THEN 1 ELSE ps[n - 1].endsAt, ps[n].startsAt - 1)),
                     Text(values[n]))
<1> DEFINE D(x, n) == x \o SubSeq(s, IF n = 1 THEN 1 ELSE ps[n - 1].endsAt, ps[n].startsAt - 1) \o Text(values[n])
           IsF(f, N) == f = [n \in 0..N |-> IF n = 0 THEN <<>> ELSE D(f[n - 1], n)]
           S == {n \in Nat : \E f : IsF(f, n)}
<1>1. Nat \subseteq S
  <2> HIDE DEF D
  <2>1. 0 \in S
    <3>1. IsF([n \in 0..0 |-> <<>>], 0)
      OBVIOUS
    <3> QED
      BY <3>1
  <2>2. ASSUME NEW n \in Nat, n \in S PROVE n + 1 \in S
    <3>1. PICK f : IsF(f, n)
      BY <2>2
    <3> DEFINE g == [k \in 0..(n + 1) |-> IF k <= n THEN f[k] ELSE D(f[n], n + 1)]
    <3>2. \A k \in 0..(n + 1) : g[k] = IF k = 0 THEN <<>> ELSE D(g[k - 1], k)
      BY <3>1
    <3>3. IsF(g, n + 1)
      BY <3>2
    <3> HIDE DEF g, IsF
    <3> QED
      BY <3>3
  <2> HIDE DEF S
  <2> QED
    BY <2>1, <2>2, SetInduction
<1>2. \E f : IsF(f, Len(ps))
  BY <1>1
<1>3. ReplacedUpTo(s, ps, values) = CHOOSE f : IsF(f, Len(ps))
  BY DEF ReplacedUpTo
<1>4. IsF(ReplacedUpTo(s, ps, values), Len(ps))
  <2> HIDE DEF IsF
  <2> QED
    BY <1>2, <1>3
<1>5. /\ ReplacedUpTo(s, ps, values)[0] = <<>>
      /\ \A n \in 1..Len(ps) : ReplacedUpTo(s, ps, values)[n] = D(ReplacedUpTo(s, ps, values)[n - 1], n)
  <2> DEFINE F == ReplacedUpTo(s, ps, values)
             M == Len(ps)
  <2>1. M \in Nat /\ F = [n \in 0..M |-> IF n = 0 THEN <<>> ELSE D(F[n - 1], n)]
    BY <1>4
  <2> HIDE DEF D, F, M
  <2>2. F[0] = <<>> /\ \A n \in 1..M : F[n] = D(F[n - 1], n)
    BY <2>1
  <2> QED
    BY <2>2 DEF F, M
<1>6. \A x, n : D(x, n) = Cat(Cat(x, SubSeq(s, IF n = 1 THEN 1 ELSE ps[n - 1].endsAt, ps[n].startsAt - 1)),
                             Text(values[n]))
  BY DEF Cat
<1> HIDE DEF D
<1> QED
  BY <1>5, <1>6

\* FlattenSeq appends one sequence after the other.
LEMMA FlattenUnfold ==
    ASSUME NEW X, NEW seqs \in Seq(Seq(X))
    PROVE  \E f : /\ f[0] = <<>>
                  /\ \A n \in 1..Len(seqs) : f[n] \in Seq(X) /\ f[n] = f[n - 1] \o seqs[n]
                  /\ FlattenSeq(seqs) = f[Len(seqs)]
<1>1. CASE Len(seqs) = 0
  <2>1. seqs = <<>>
    BY <1>1
  <2>2. FlattenSeq(seqs) = <<>>
    BY <1>1, <2>1 DEF FlattenSeq
  <2> WITNESS [n \in {0} |-> <<>>]
  <2> QED
    BY <1>1, <2>2
<1>2. CASE Len(seqs) # 0
  <2> DEFINE D(x, n) == x \o seqs[n]
             IsF(f, N) == f = [n \in 1..N |-> IF n = 1 THEN seqs[n] ELSE D(f[n - 1], n)]
             S == {n \in Nat : \E f : IsF(f, n + 1)}
             L == Len(seqs)
  <2>0. L \in Nat /\ L >= 1 /\ \A n \in 1..L : seqs[n] \in Seq(X)
    BY <1>2
  <2>1. Nat \subseteq S
    <3> HIDE DEF D
    <3>1. 0 \in S
      <4>1. IsF([n \in 1..1 |-> seqs[1]], 0 + 1)
        OBVIOUS
      <4> QED
        BY <4>1
    <3>2. ASSUME NEW n \in Nat, n \in S PROVE n + 1 \in S
      <4>1. PICK f : IsF(f, n + 1)
        BY <3>2
      <4> DEFINE g == [k \in 1..(n + 1 + 1) |-> IF k <= n + 1 THEN f[k] ELSE D(f[n + 1], n + 1 + 1)]
      <4>2. \A k \in 1..(n + 1 + 1) : g[k] = IF k = 1 THEN seqs[k] ELSE D(g[k - 1], k)
        BY <4>1
      <4>3. IsF(g, n + 1 + 1)
        BY <4>2
      <4> HIDE DEF g, IsF
      <4> QED
        BY <4>3
    <3> HIDE DEF S
    <3> QED
      BY <3>1, <3>2, SetInduction
  <2>2. \E f : IsF(f, L)
    <3>1. L - 1 \in Nat /\ (L - 1) + 1 = L
      BY <2>0
    <3>2. L - 1 \in S
      <4> HIDE DEF S
      <4> QED
        BY <2>1, <3>1
    <3> HIDE DEF IsF, L
    <3> QED
      BY <3>1, <3>2
  <2> DEFINE h == CHOOSE f : IsF(f, L)
  <2>3. FlattenSeq(seqs) = h[L]
    BY <1>2 DEF FlattenSeq
  <2>4. IsF(h, L)
    <3> HIDE DEF IsF
    <3> QED
      BY <2>2
  <2> HIDE DEF h
  <2>5. h[1] = seqs[1] /\ \A n \in 2..L : h[n] = h[n - 1] \o seqs[n]
    <3>1. h = [n \in 1..L |-> IF n = 1 THEN seqs[n] ELSE D(h[n - 1], n)]
      BY <2>4
    <3> HIDE DEF D, L
    <3>2. h[1] = seqs[1] /\ \A n \in 2..L : h[n] = D(h[n - 1], n)
      BY <2>0, <3>1
    <3> QED
      BY <3>2 DEF D
  <2> HIDE DEF L
  <2> DEFINE f == [n \in 0..L |-> IF n = 0 THEN <<>> ELSE h[n]]
             T == {n \in Nat : n + 1 <= L => h[n + 1] \in Seq(X)}
  <2>6. Nat \subseteq T
    <3>1. 0 \in T
      BY <2>0, <2>5
    <3>2. ASSUME NEW n \in Nat, n \in T PROVE n + 1 \in T
      <4>1. SUFFICES ASSUME n + 2 <= L PROVE h[n + 2] \in Seq(X)
        OBVIOUS
      <4>0. n + 2 \in 2..L /\ (n + 2) - 1 = n + 1
        BY <2>0, <4>1
      <4>2. h[n + 2] = h[n + 1] \o seqs[n + 2]
        BY <2>5, <4>0
      <4>3. h[n + 1] \in Seq(X) /\ seqs[n + 2] \in Seq(X)
        BY <2>0, <3>2, <4>1
      <4> QED
        BY <4>2, <4>3, ConcatProperties
    <3> HIDE DEF T
    <3> QED
      BY <3>1, <3>2, SetInduction
  <2>7. \A n \in 1..L : h[n] \in Seq(X)
    <3> SUFFICES ASSUME NEW n \in 1..L PROVE h[n] \in Seq(X)
      OBVIOUS
    <3>1. n - 1 \in Nat /\ (n - 1) + 1 = n /\ n <= L
      BY <2>0
    <3> QED
      BY <2>6, <3>1
  <2>8. \A n \in 1..L : f[n] \in Seq(X) /\ f[n] = f[n - 1] \o seqs[n]
    <3> SUFFICES ASSUME NEW n \in 1..L PROVE f[n] \in Seq(X) /\ f[n] = f[n - 1] \o seqs[n]
      OBVIOUS
    <3>1. f[n] = h[n] /\ h[n] \in Seq(X)
      BY <2>0, <2>7
    <3>2. CASE n = 1
      <4>1. f[n - 1] = <<>> /\ h[n] = seqs[n]
        BY <2>0, <2>5, <3>2
      <4>2. <<>> \o seqs[n] = seqs[n]
        BY <2>0, ConcatEmptySeq
      <4> HIDE DEF f
      <4> QED
        BY <3>1, <4>1, <4>2
    <3>3. CASE n # 1
      <4>0. n \in 2..L /\ n - 1 \in 0..L /\ n - 1 # 0
        BY <2>0, <3>3
      <4>1. f[n - 1] = h[n - 1] /\ h[n] = h[n - 1] \o seqs[n]
        BY <2>5, <4>0
      <4> HIDE DEF f
      <4> QED
        BY <3>1, <4>1
    <3> QED
      BY <3>2, <3>3
  <2>9. f[0] = <<>> /\ f[L] = h[L]
    BY <2>0
  <2> HIDE DEF f
  <2> QED
    BY <2>3, <2>8, <2>9 DEF L
<1> QED
  BY <1>1, <1>2

\* The nodes of a step are a tree: the part of IsStep that the walks over them need.
IsTree(nodes) ==
    /\ <<>> \in DOMAIN nodes
    /\ \A at \in DOMAIN nodes : /\ at \in Seq(Nat) /\ Len(at) <= MaxDepth
                                /\ at # <<>> => Front(at) \in DOMAIN nodes

\* The steps inside a node are one deeper.
LEMMA InsideIsDeeper ==
    ASSUME NEW nodes, IsTree(nodes), NEW at \in DOMAIN nodes, NEW p \in Inside(nodes, at)
    PROVE  p \in DOMAIN nodes /\ Len(p) = Len(at) + 1 /\ Len(p) <= MaxDepth
<1>1. p \in DOMAIN nodes /\ p # <<>> /\ at = SubSeq(p, 1, Len(p) - 1)
  BY DEF Inside, Front
<1>2. p \in Seq(Nat) /\ Len(p) <= MaxDepth
  BY <1>1 DEF IsTree
<1>3. Len(p) \in Nat /\ Len(p) # 0
  BY <1>1, <1>2
<1>4. Len(at) = Len(p) - 1
  <2>1. \A i \in 1..(Len(p) - 1) : p[i] \in Nat
    BY <1>2, <1>3
  <2> DEFINE n == Len(p) - 1
  <2>2. n \in Nat
    BY <1>3
  <2> HIDE DEF n
  <2>3. Len(SubSeq(p, 1, n)) = IF 1 <= n THEN n - 1 + 1 ELSE 0
    BY <2>1, <2>2, SubSeqProperties DEF n
  <2>4. Len(SubSeq(p, 1, n)) = n
    BY <2>2, <2>3
  <2> QED
    BY <1>1, <2>4 DEF n
<1> QED
  BY <1>1, <1>2, <1>3, <1>4

\* generateNestedStepVariables succeeds at a node when it does inside it.
LEMMA GeneratesUnfold ==
    ASSUME NEW nodes, IsTree(nodes), NEW at \in DOMAIN nodes, MaxDepth \in Nat
    PROVE  Generates(nodes)[at] =
             (/\ Discoverable(nodes[at])
              /\ nodes[at].type \in Composites => \A p \in Inside(nodes, at) : Generates(nodes)[p])
<1> DEFINE D(f, x) == /\ Discoverable(nodes[x])
                      /\ nodes[x].type \in Composites => \A p \in Inside(nodes, x) : f[p]
           Deep(n) == {x \in DOMAIN nodes : Len(x) + n >= MaxDepth}
           IsF(f, U) == f = [x \in U |-> D(f, x)]
           S == {n \in Nat : \E f : IsF(f, Deep(n))}
<1>0. \A x \in DOMAIN nodes : Len(x) \in Nat /\ Len(x) <= MaxDepth
  BY DEF IsTree
<1>1. \A x \in DOMAIN nodes : \A p \in Inside(nodes, x) :
        p \in DOMAIN nodes /\ Len(p) = Len(x) + 1 /\ Len(p) <= MaxDepth
  BY InsideIsDeeper
<1>2. ASSUME NEW f, NEW g, NEW x \in DOMAIN nodes, \A p \in Inside(nodes, x) : f[p] = g[p]
      PROVE  D(f, x) = D(g, x)
  BY <1>2
<1>3. Nat \subseteq S
  <2>1. 0 \in S
    <3> DEFINE g == [x \in Deep(0) |-> D(<<>>, x)]
    <3>1. \A x \in Deep(0) : Inside(nodes, x) = {}
      <4> SUFFICES ASSUME NEW x \in Deep(0), NEW p \in Inside(nodes, x) PROVE FALSE
        OBVIOUS
      <4> QED
        BY <1>0, <1>1
    <3>2. \A x \in Deep(0) : D(<<>>, x) = D(g, x)
      <4> HIDE DEF g, D
      <4> QED
        BY <1>2, <3>1
    <3>3. IsF(g, Deep(0))
      <4> HIDE DEF D, Deep
      <4> QED
        BY <3>2
    <3> HIDE DEF IsF, g
    <3> QED
      BY <3>3
  <2>2. ASSUME NEW n \in Nat, n \in S PROVE n + 1 \in S
    <3>1. PICK f : IsF(f, Deep(n))
      BY <2>2
    <3> DEFINE g == [x \in Deep(n + 1) |-> IF x \in Deep(n) THEN f[x] ELSE D(f, x)]
    <3>2. \A x \in Deep(n + 1) : \A p \in Inside(nodes, x) : p \in Deep(n) /\ p \in Deep(n + 1)
      <4> SUFFICES ASSUME NEW x \in Deep(n + 1), NEW p \in Inside(nodes, x)
                   PROVE  p \in Deep(n) /\ p \in Deep(n + 1)
        OBVIOUS
      <4>1. p \in DOMAIN nodes /\ Len(p) = Len(x) + 1 /\ Len(x) \in Nat /\ Len(x) + (n + 1) >= MaxDepth
        BY <1>0, <1>1
      <4> QED
        BY <4>1
    <3>3. \A x \in Deep(n) : f[x] = D(f, x)
      <4> HIDE DEF D, Deep
      <4> QED
        BY <3>1
    <3>4. \A x \in Deep(n + 1) : D(f, x) = D(g, x)
      <4> SUFFICES ASSUME NEW x \in Deep(n + 1) PROVE D(f, x) = D(g, x)
        OBVIOUS
      <4>1. \A p \in Inside(nodes, x) : g[p] = f[p]
        <5> HIDE DEF D, Deep
        <5> QED
          BY <3>2
      <4>2. x \in DOMAIN nodes
        OBVIOUS
      <4> HIDE DEF g, D, Deep
      <4> QED
        BY <1>2, <4>1, <4>2
    <3>5. IsF(g, Deep(n + 1))
      <4>1. \A x \in Deep(n + 1) : g[x] = D(f, x)
        <5> HIDE DEF D, Deep
        <5> QED
          BY <3>3
      <4>2. g = [x \in Deep(n + 1) |-> D(f, x)]
        <5> HIDE DEF D, Deep
        <5> QED
          BY <4>1
      <4> HIDE DEF g, D, Deep
      <4> QED
        BY <3>4, <4>2
    <3> HIDE DEF IsF, g, Deep
    <3> QED
      BY <3>5
  <2> HIDE DEF S
  <2> QED
    BY <2>1, <2>2, SetInduction
<1>4. \E f : IsF(f, DOMAIN nodes)
  <2>0. \A x \in DOMAIN nodes : Len(x) + MaxDepth >= MaxDepth
    BY <1>0
  <2>1. Deep(MaxDepth) = DOMAIN nodes
    BY <2>0
  <2>2. MaxDepth \in S
    <3> HIDE DEF S
    <3> QED
      BY <1>3
  <2> HIDE DEF IsF, Deep
  <2> QED
    BY <2>1, <2>2
<1>5. Generates(nodes) = CHOOSE f : IsF(f, DOMAIN nodes)
  BY DEF Generates
<1>6. IsF(Generates(nodes), DOMAIN nodes)
  <2> HIDE DEF IsF
  <2> QED
    BY <1>4, <1>5
<1>7. Generates(nodes)[at] = D(Generates(nodes), at)
  <2> DEFINE F == Generates(nodes)
  <2>1. F = [x \in DOMAIN nodes |-> D(F, x)]
    BY <1>6
  <2> HIDE DEF D, F
  <2> QED
    BY <2>1 DEF F
<1> QED
  BY <1>7

\* validateNestedStepsForJourneyType accepts a node when it accepts what is inside it.
LEMMA ValidNestedUnfold ==
    ASSUME NEW nodes, IsTree(nodes), NEW type, NEW at \in DOMAIN nodes, MaxDepth \in Nat
    PROVE  ValidNested(nodes, type)[at] =
             \A p \in Inside(nodes, at) : ValidStep(nodes, p, type) /\ ValidNested(nodes, type)[p]
<1> DEFINE D(f, x) == \A p \in Inside(nodes, x) : ValidStep(nodes, p, type) /\ f[p]
           Deep(n) == {x \in DOMAIN nodes : Len(x) + n >= MaxDepth}
           IsF(f, U) == f = [x \in U |-> D(f, x)]
           S == {n \in Nat : \E f : IsF(f, Deep(n))}
<1>0. \A x \in DOMAIN nodes : Len(x) \in Nat /\ Len(x) <= MaxDepth
  BY DEF IsTree
<1>1. \A x \in DOMAIN nodes : \A p \in Inside(nodes, x) :
        p \in DOMAIN nodes /\ Len(p) = Len(x) + 1 /\ Len(p) <= MaxDepth
  BY InsideIsDeeper
<1>2. ASSUME NEW f, NEW g, NEW x \in DOMAIN nodes, \A p \in Inside(nodes, x) : f[p] = g[p]
      PROVE  D(f, x) = D(g, x)
  BY <1>2
<1>3. Nat \subseteq S
  <2>1. 0 \in S
    <3> DEFINE g == [x \in Deep(0) |-> D(<<>>, x)]
    <3>1. \A x \in Deep(0) : Inside(nodes, x) = {}
      <4> SUFFICES ASSUME NEW x \in Deep(0), NEW p \in Inside(nodes, x) PROVE FALSE
        OBVIOUS
      <4> QED
        BY <1>0, <1>1
    <3>2. \A x \in Deep(0) : D(<<>>, x) = D(g, x)
      <4> HIDE DEF g, D
      <4> QED
        BY <1>2, <3>1
    <3>3. IsF(g, Deep(0))
      <4> HIDE DEF D, Deep
      <4> QED
        BY <3>2
    <3> HIDE DEF IsF, g
    <3> QED
      BY <3>3
  <2>2. ASSUME NEW n \in Nat, n \in S PROVE n + 1 \in S
    <3>1. PICK f : IsF(f, Deep(n))
      BY <2>2
    <3> DEFINE g == [x \in Deep(n + 1) |-> IF x \in Deep(n) THEN f[x] ELSE D(f, x)]
    <3>2. \A x \in Deep(n + 1) : \A p \in Inside(nodes, x) : p \in Deep(n) /\ p \in Deep(n + 1)
      <4> SUFFICES ASSUME NEW x \in Deep(n + 1), NEW p \in Inside(nodes, x)
                   PROVE  p \in Deep(n) /\ p \in Deep(n + 1)
        OBVIOUS
      <4>1. p \in DOMAIN nodes /\ Len(p) = Len(x) + 1 /\ Len(x) \in Nat /\ Len(x) + (n + 1) >= MaxDepth
        BY <1>0, <1>1
      <4> QED
        BY <4>1
    <3>3. \A x \in Deep(n) : f[x] = D(f, x)
      <4> HIDE DEF D, Deep
      <4> QED
        BY <3>1
    <3>4. \A x \in Deep(n + 1) : D(f, x) = D(g, x)
      <4> SUFFICES ASSUME NEW x \in Deep(n + 1) PROVE D(f, x) = D(g, x)
        OBVIOUS
      <4>1. \A p \in Inside(nodes, x) : g[p] = f[p]
        <5> HIDE DEF D, Deep
        <5> QED
          BY <3>2
      <4>2. x \in DOMAIN nodes
        OBVIOUS
      <4> HIDE DEF g, D, Deep
      <4> QED
        BY <1>2, <4>1, <4>2
    <3>5. IsF(g, Deep(n + 1))
      <4>1. \A x \in Deep(n + 1) : g[x] = D(f, x)
        <5> HIDE DEF D, Deep
        <5> QED
          BY <3>3
      <4>2. g = [x \in Deep(n + 1) |-> D(f, x)]
        <5> HIDE DEF D, Deep
        <5> QED
          BY <4>1
      <4> HIDE DEF g, D, Deep
      <4> QED
        BY <3>4, <4>2
    <3> HIDE DEF IsF, g, Deep
    <3> QED
      BY <3>5
  <2> HIDE DEF S
  <2> QED
    BY <2>1, <2>2, SetInduction
<1>4. \E f : IsF(f, DOMAIN nodes)
  <2>0. \A x \in DOMAIN nodes : Len(x) + MaxDepth >= MaxDepth
    BY <1>0
  <2>1. Deep(MaxDepth) = DOMAIN nodes
    BY <2>0
  <2>2. MaxDepth \in S
    <3> HIDE DEF S
    <3> QED
      BY <1>3
  <2> HIDE DEF IsF, Deep
  <2> QED
    BY <2>1, <2>2
<1>5. ValidNested(nodes, type) = CHOOSE f : IsF(f, DOMAIN nodes)
  BY DEF ValidNested
<1>6. IsF(ValidNested(nodes, type), DOMAIN nodes)
  <2> HIDE DEF IsF
  <2> QED
    BY <1>4, <1>5
<1>7. ValidNested(nodes, type)[at] = D(ValidNested(nodes, type), at)
  <2> DEFINE F == ValidNested(nodes, type)
  <2>1. F = [x \in DOMAIN nodes |-> D(F, x)]
    BY <1>6
  <2> HIDE DEF D, F
  <2> QED
    BY <2>1 DEF F
<1> QED
  BY <1>7

\* What holds at the root of a tree, and inside every node it holds at, holds everywhere.
LEMMA TreeDown ==
    ASSUME NEW nodes, IsTree(nodes), NEW X, <<>> \in X,
           \A at \in DOMAIN nodes : at \in X => Inside(nodes, at) \subseteq X
    PROVE  DOMAIN nodes \subseteq X
<1> DEFINE S == {n \in Nat : \A at \in DOMAIN nodes : Len(at) = n => at \in X}
<1>1. \A at \in DOMAIN nodes : at \in Seq(Nat) /\ Len(at) \in Nat
  BY DEF IsTree
<1>2. 0 \in S
  <2> SUFFICES ASSUME NEW at \in DOMAIN nodes, Len(at) = 0 PROVE at \in X
    OBVIOUS
  <2>1. at = <<>>
    BY <1>1
  <2> QED
    BY <2>1
<1>3. ASSUME NEW n \in Nat, n \in S PROVE n + 1 \in S
  <2> SUFFICES ASSUME NEW at \in DOMAIN nodes, Len(at) = n + 1 PROVE at \in X
    OBVIOUS
  <2>1. at # <<>>
    OBVIOUS
  <2>2. Front(at) \in DOMAIN nodes
    BY <2>1 DEF IsTree
  <2>3. at \in Inside(nodes, Front(at))
    BY <2>1 DEF Inside
  <2>4. Len(Front(at)) = n
    <3>1. Len(at) = Len(Front(at)) + 1 /\ Len(Front(at)) \in Nat
      BY <1>1, <2>2, <2>3, InsideIsDeeper
    <3> QED
      BY <3>1
  <2>5. Front(at) \in X
    BY <1>3, <2>2, <2>4
  <2> QED
    BY <2>2, <2>3, <2>5
<1>4. Nat \subseteq S
  <2> HIDE DEF S
  <2> QED
    BY <1>2, <1>3, SetInduction
<1> QED
  BY <1>1, <1>4

\* What holds at every node inside which it holds, holds everywhere.
LEMMA TreeUp ==
    ASSUME NEW nodes, IsTree(nodes), MaxDepth \in Nat, NEW X,
           \A at \in DOMAIN nodes : Inside(nodes, at) \subseteq X => at \in X
    PROVE  DOMAIN nodes \subseteq X
<1> DEFINE S == {n \in Nat : \A at \in DOMAIN nodes : Len(at) + n >= MaxDepth => at \in X}
<1>1. \A at \in DOMAIN nodes : Len(at) \in Nat /\ Len(at) <= MaxDepth
  BY DEF IsTree
<1>2. 0 \in S
  <2> SUFFICES ASSUME NEW at \in DOMAIN nodes, Len(at) + 0 >= MaxDepth, NEW p \in Inside(nodes, at) PROVE FALSE
    OBVIOUS
  <2>1. Len(p) = Len(at) + 1 /\ Len(p) <= MaxDepth
    BY InsideIsDeeper
  <2> QED
    BY <1>1, <2>1
<1>3. ASSUME NEW n \in Nat, n \in S PROVE n + 1 \in S
  <2> SUFFICES ASSUME NEW at \in DOMAIN nodes, Len(at) + (n + 1) >= MaxDepth, NEW p \in Inside(nodes, at)
               PROVE  p \in X
    OBVIOUS
  <2>1. p \in DOMAIN nodes /\ Len(p) = Len(at) + 1
    BY InsideIsDeeper
  <2>2. Len(p) + n >= MaxDepth
    BY <1>1, <2>1
  <2> QED
    BY <1>3, <2>1, <2>2
<1>4. Nat \subseteq S
  <2> HIDE DEF S
  <2> QED
    BY <1>2, <1>3, SetInduction
<1>5. \A at \in DOMAIN nodes : Len(at) + MaxDepth >= MaxDepth
  BY <1>1
<1> QED
  BY <1>4, <1>5

\* GenerateStepVariables accepts a step when every placeholder of all its nodes is accepted.
LEMMA GeneratesAll ==
    ASSUME NEW nodes, IsTree(nodes), MaxDepth \in Nat,
           \A at \in DOMAIN nodes : Inside(nodes, at) # {} => nodes[at].type \in Composites
    PROVE  Generates(nodes)[<<>>] <=> \A at \in DOMAIN nodes : Discoverable(nodes[at])
<1> DEFINE G == Generates(nodes)
           X == {at \in DOMAIN nodes : G[at]}
<1>1. \A at \in DOMAIN nodes : G[at] <=> Discoverable(nodes[at]) /\ \A p \in Inside(nodes, at) : G[p]
  <2> SUFFICES ASSUME NEW at \in DOMAIN nodes
               PROVE  G[at] <=> Discoverable(nodes[at]) /\ \A p \in Inside(nodes, at) : G[p]
    OBVIOUS
  <2>1. G[at] = (/\ Discoverable(nodes[at])
                 /\ nodes[at].type \in Composites => \A p \in Inside(nodes, at) : G[p])
    BY GeneratesUnfold
  <2> HIDE DEF G
  <2> QED
    BY <2>1
<1> HIDE DEF G
<1>2. \A at \in DOMAIN nodes : Inside(nodes, at) \subseteq DOMAIN nodes
  BY DEF Inside
<1>3. ASSUME G[<<>>] PROVE \A at \in DOMAIN nodes : Discoverable(nodes[at])
  <2>1. <<>> \in X
    BY <1>3 DEF IsTree
  <2>2. \A at \in DOMAIN nodes : at \in X => Inside(nodes, at) \subseteq X
    BY <1>1, <1>2
  <2>3. DOMAIN nodes \subseteq X
    <3> HIDE DEF X
    <3> QED
      BY <2>1, <2>2, TreeDown
  <2> QED
    BY <1>1, <2>3
<1>4. ASSUME \A at \in DOMAIN nodes : Discoverable(nodes[at]) PROVE G[<<>>]
  <2>1. \A at \in DOMAIN nodes : Inside(nodes, at) \subseteq X => at \in X
    BY <1>1, <1>4
  <2>2. DOMAIN nodes \subseteq X
    <3> HIDE DEF X
    <3> QED
      BY <2>1, TreeUp
  <2>3. <<>> \in DOMAIN nodes
    BY DEF IsTree
  <2> QED
    BY <2>2, <2>3
<1> QED
  BY <1>3, <1>4 DEF G

\* The nested steps are accepted when every one of them is, however deep.
LEMMA ValidNestedAll ==
    ASSUME NEW nodes, IsTree(nodes), MaxDepth \in Nat, NEW type
    PROVE  ValidNested(nodes, type)[<<>>]
             <=> \A at \in DOMAIN nodes : at # <<>> => ValidStep(nodes, at, type)
<1> DEFINE V == ValidNested(nodes, type)
           X == {at \in DOMAIN nodes : V[at] /\ (at # <<>> => ValidStep(nodes, at, type))}
           Y == {at \in DOMAIN nodes : V[at]}
<1>1. \A at \in DOMAIN nodes : V[at] <=> \A p \in Inside(nodes, at) : ValidStep(nodes, p, type) /\ V[p]
  <2> SUFFICES ASSUME NEW at \in DOMAIN nodes
               PROVE  V[at] <=> \A p \in Inside(nodes, at) : ValidStep(nodes, p, type) /\ V[p]
    OBVIOUS
  <2>1. V[at] = \A p \in Inside(nodes, at) : ValidStep(nodes, p, type) /\ V[p]
    BY ValidNestedUnfold
  <2> HIDE DEF V
  <2> QED
    BY <2>1
<1> HIDE DEF V
<1>2. \A at \in DOMAIN nodes : \A p \in Inside(nodes, at) : p \in DOMAIN nodes /\ p # <<>>
  BY DEF Inside
<1>0. <<>> \in DOMAIN nodes
  BY DEF IsTree
<1>3. ASSUME V[<<>>] PROVE \A at \in DOMAIN nodes : at # <<>> => ValidStep(nodes, at, type)
  <2>1. <<>> \in X
    BY <1>0, <1>3
  <2>2. \A at \in DOMAIN nodes : at \in X => Inside(nodes, at) \subseteq X
    BY <1>1, <1>2
  <2>3. DOMAIN nodes \subseteq X
    <3> HIDE DEF X
    <3> QED
      BY <2>1, <2>2, TreeDown
  <2> QED
    BY <2>3
<1>4. ASSUME \A at \in DOMAIN nodes : at # <<>> => ValidStep(nodes, at, type) PROVE V[<<>>]
  <2>1. \A at \in DOMAIN nodes : Inside(nodes, at) \subseteq Y => at \in Y
    BY <1>1, <1>2, <1>4
  <2>2. DOMAIN nodes \subseteq Y
    <3> HIDE DEF Y
    <3> QED
      BY <2>1, TreeUp
  <2> QED
    BY <1>0, <2>2
<1> QED
  BY <1>3, <1>4 DEF V

-----------------------------------------------------------------------------
(***************************************************************************)
(* What discoverPlaceholders finds are the placeholders of a string.       *)
(***************************************************************************)

\* Nothing opens without "${" and nothing closes without "}".
LEMMA InsideStays ==
    ASSUME NEW s, Len(s) \in Nat, NEW a \in 0..Len(s), NEW b \in a..Len(s)
    PROVE  /\ ~InsideUpTo(s)[a] /\ (\A k \in (a + 1)..b : s[k] # Open)
                => \A k \in a..b : ~InsideUpTo(s)[k]
           /\ InsideUpTo(s)[a] /\ (\A k \in (a + 1)..b : s[k] # Close)
                => \A k \in a..b : InsideUpTo(s)[k]
<1> DEFINE in == InsideUpTo(s)
           shut == ~in[a] /\ \A k \in (a + 1)..b : s[k] # Open
           open == in[a] /\ \A k \in (a + 1)..b : s[k] # Close
           S == {d \in Nat : a + d <= b => (shut => ~in[a + d]) /\ (open => in[a + d])}
<1>1. \A n \in 1..Len(s) : in[n] = (IF in[n - 1] THEN s[n] # Close ELSE s[n] = Open)
  BY InsideUnfold
<1> HIDE DEF in
<1>2. 0 \in S
  <2>1. a + 0 = a
    OBVIOUS
  <2> QED
    BY <2>1
<1>3. ASSUME NEW d \in Nat, d \in S PROVE d + 1 \in S
  <2>1. SUFFICES ASSUME a + (d + 1) <= b
                 PROVE  (shut => ~in[a + (d + 1)]) /\ (open => in[a + (d + 1)])
    OBVIOUS
  <2> DEFINE n == a + (d + 1)
  <2>2. n \in 1..Len(s) /\ n \in (a + 1)..b /\ n - 1 = a + d /\ a + d <= b
    BY <2>1
  <2> HIDE DEF n
  <2>3. (shut => ~in[n - 1]) /\ (open => in[n - 1])
    BY <1>3, <2>2
  <2>4. (shut => ~in[n]) /\ (open => in[n])
    BY <1>1, <2>2, <2>3
  <2> QED
    BY <2>4 DEF n
<1>4. Nat \subseteq S
  <2> HIDE DEF S
  <2> QED
    BY <1>2, <1>3, SetInduction
<1>5. \A k \in a..b : (shut => ~in[k]) /\ (open => in[k])
  <2> SUFFICES ASSUME NEW k \in a..b PROVE (shut => ~in[k]) /\ (open => in[k])
    OBVIOUS
  <2>1. k - a \in Nat /\ a + (k - a) = k /\ k <= b
    OBVIOUS
  <2>2. k - a \in S
    <3> HIDE DEF S
    <3> QED
      BY <1>4, <2>1
  <2> HIDE DEF shut, open
  <2> QED
    BY <2>1, <2>2
<1> QED
  BY <1>5 DEF in

\* A placeholder, by its two ends.
LEMMA PlacedIs ==
    ASSUME NEW X, NEW s \in Seq(X)
    PROVE  /\ \A i, j \in 1..Len(s) : PlacedAt(s, i, j) => <<i, j>> \in Placed(s)
           /\ \A span \in Placed(s) : /\ span = <<span[1], span[2]>> /\ span[1] \in 1..Len(s)
                                      /\ span[2] \in 1..Len(s) /\ PlacedAt(s, span[1], span[2])
<1>1. DOMAIN s = 1..Len(s)
  OBVIOUS
<1> QED
  BY <1>1 DEF Placed

\* The next placeholder from a place that is outside of placeholders.
LEMMA NextPlaced ==
    ASSUME NEW X, NEW s \in Seq(X), NEW c \in 1..(Len(s) + 1), ~InsideUpTo(s)[c - 1]
    PROVE  LET opens == NextAt(s, Open, c)
               start == Min(opens)
               closes == NextAt(s, Close, start + 1)
               end == Min(closes)
           IN  /\ opens = {} => /\ ~InsideUpTo(s)[Len(s)]
                                /\ \A span \in Placed(s) : ~(span[1] >= c)
               /\ opens # {} /\ closes = {} => InsideUpTo(s)[Len(s)]
               /\ opens # {} /\ closes # {} =>
                    /\ start \in c..Len(s) /\ end \in (start + 1)..Len(s)
                    /\ <<start, end>> \in Placed(s) /\ ~InsideUpTo(s)[end]
                    /\ \A span \in Placed(s) :
                         span[1] >= c => span = <<start, end>> \/ span[1] >= end + 1
<1> DEFINE in == InsideUpTo(s)
           opens == NextAt(s, Open, c)
           start == Min(opens)
           closes == NextAt(s, Close, start + 1)
           end == Min(closes)
           a == c - 1
<1>0. Len(s) \in Nat /\ a \in 0..Len(s) /\ c = a + 1 /\ ~in[a]
  OBVIOUS
<1> HIDE DEF a
<1>1. \A n \in 1..Len(s) : in[n] = (IF in[n - 1] THEN s[n] # Close ELSE s[n] = Open)
  BY <1>0, InsideUnfold
<1>2. \A span \in Placed(s) :
        /\ span = <<span[1], span[2]>> /\ span[1] \in 1..Len(s) /\ span[2] \in 1..Len(s)
        /\ span[1] < span[2] /\ s[span[1]] = Open /\ ~in[span[1] - 1] /\ s[span[2]] = Close
        /\ \A k \in (span[1] + 1)..(span[2] - 1) : s[k] # Close
  BY PlacedIs DEF PlacedAt
<1>3. ASSUME opens = {} PROVE ~in[Len(s)] /\ \A span \in Placed(s) : ~(span[1] >= c)
  <2>1. \A k \in c..Len(s) : s[k] # Open
    BY <1>3 DEF NextAt
  <2>2. Len(s) \in a..Len(s) /\ \A k \in (a + 1)..Len(s) : s[k] # Open
    BY <1>0, <2>1
  <2>3. \A k \in a..Len(s) : ~in[k]
    BY <1>0, <2>2, InsideStays
  <2> HIDE DEF in
  <2>4. ~in[Len(s)]
    BY <2>2, <2>3
  <2>5. \A span \in Placed(s) : ~(span[1] >= c)
    BY <1>2, <2>1
  <2> QED
    BY <2>4, <2>5
<1>4. ASSUME opens # {}
      PROVE  /\ start \in c..Len(s) /\ s[start] = Open /\ (\A k \in c..(start - 1) : s[k] # Open)
             /\ ~in[start - 1] /\ in[start]
  <2>1. start \in c..Len(s) /\ s[start] = Open /\ \A k \in c..(start - 1) : s[k] # Open
    BY <1>0, <1>4, FirstAt
  <2> HIDE DEF start
  <2>2. start - 1 \in a..Len(s) /\ start \in 1..Len(s)
    BY <1>0, <2>1
  <2>3. ~in[start - 1]
    <3> DEFINE b == start - 1
    <3>1. b \in a..Len(s) /\ b \in a..b /\ \A k \in (a + 1)..b : s[k] # Open
      BY <1>0, <2>1, <2>2
    <3> HIDE DEF b
    <3>2. \A k \in a..b : ~in[k]
      BY <1>0, <3>1, InsideStays
    <3> HIDE DEF in
    <3> QED
      BY <3>1, <3>2 DEF b
  <2> HIDE DEF in
  <2>4. in[start]
    BY <1>1, <2>1, <2>2, <2>3
  <2> QED
    BY <2>1, <2>3, <2>4
<1>5. ASSUME opens # {}, closes = {} PROVE in[Len(s)]
  <2>1. start \in 1..Len(s) /\ in[start]
    BY <1>4, <1>5
  <2>2. \A k \in (start + 1)..Len(s) : s[k] # Close
    BY <1>5 DEF NextAt
  <2> HIDE DEF start
  <2>3. start \in 0..Len(s) /\ Len(s) \in start..Len(s)
    BY <2>1
  <2>4. \A k \in start..Len(s) : in[k]
    BY <2>1, <2>2, <2>3, InsideStays
  <2> HIDE DEF in
  <2> QED
    BY <2>3, <2>4
<1>6. ASSUME opens # {}, closes # {}
      PROVE  /\ start \in c..Len(s) /\ end \in (start + 1)..Len(s)
             /\ <<start, end>> \in Placed(s) /\ ~in[end]
             /\ \A span \in Placed(s) : span[1] >= c => span = <<start, end>> \/ span[1] >= end + 1
  <2>1. /\ start \in c..Len(s) /\ s[start] = Open /\ (\A k \in c..(start - 1) : s[k] # Open)
        /\ ~in[start - 1] /\ in[start]
    BY <1>4, <1>6
  <2>2. start + 1 \in Nat /\ start + 1 >= 1
    BY <2>1
  <2>3. /\ end \in (start + 1)..Len(s) /\ s[end] = Close
        /\ \A k \in (start + 1)..(end - 1) : s[k] # Close
    BY <1>0, <1>6, <2>2, FirstAt
  <2> HIDE DEF start, end
  <2>4. start \in 0..Len(s) /\ end - 1 \in start..Len(s)
    BY <2>1, <2>3
  <2>5. \A k \in start..(end - 1) : in[k]
    BY <2>1, <2>3, <2>4, InsideStays
  <2>6. PlacedAt(s, start, end)
    BY <2>1, <2>3 DEF PlacedAt
  <2>7. <<start, end>> \in Placed(s)
    BY <2>1, <2>3, <2>6, PlacedIs
  <2> HIDE DEF in
  <2>8. ~in[end]
    <3>1. end \in 1..Len(s) /\ in[end - 1]
      BY <2>1, <2>3, <2>4, <2>5
    <3> QED
      BY <1>1, <2>3, <3>1
  <2>9. ASSUME NEW span \in Placed(s), span[1] >= c PROVE span = <<start, end>> \/ span[1] >= end + 1
    <3> DEFINE i == span[1]
               j == span[2]
    <3>1. /\ span = <<i, j>> /\ i \in 1..Len(s) /\ j \in 1..Len(s) /\ i < j
          /\ s[i] = Open /\ ~in[i - 1] /\ s[j] = Close /\ \A k \in (i + 1)..(j - 1) : s[k] # Close
      BY <1>2
    <3>2. i >= c
      BY <2>9
    <3> HIDE DEF i, j
    <3>3. i >= start
      BY <2>1, <3>1, <3>2
    <3>4. CASE i = start
      <4>1. end <= j
        BY <2>1, <2>3, <3>1, <3>4
      <4>2. ~(end < j)
        BY <2>1, <2>3, <3>1, <3>4
      <4>3. j = end
        BY <2>3, <3>1, <4>1, <4>2
      <4> QED
        BY <3>1, <3>4, <4>3
    <3>5. CASE i > start
      <4>1. ~(i - 1 \in start..(end - 1))
        BY <2>5, <3>1
      <4>2. i >= end + 1
        BY <2>1, <2>3, <3>1, <3>5, <4>1
      <4> QED
        BY <4>2 DEF i
    <3> QED
      BY <2>1, <3>1, <3>3, <3>4, <3>5
  <2> QED
    BY <2>1, <2>3, <2>7, <2>8, <2>9
<1> HIDE DEF in, opens, start, closes, end
<1>7. /\ opens = {} => ~in[Len(s)] /\ \A span \in Placed(s) : ~(span[1] >= c)
      /\ opens # {} /\ closes = {} => in[Len(s)]
      /\ opens # {} /\ closes # {} =>
           /\ start \in c..Len(s) /\ end \in (start + 1)..Len(s)
           /\ <<start, end>> \in Placed(s) /\ ~in[end]
           /\ \A span \in Placed(s) : span[1] >= c => span = <<start, end>> \/ span[1] >= end + 1
  BY <1>3, <1>5, <1>6
<1> QED
  BY <1>7 DEF in, opens, start, closes, end

\* The placeholders of a string from a cursor on, one after the other.
Listed(s, ps, c) ==
    /\ ps \in Seq([template : Seq(Symbols), startsAt : Nat, endsAt : Nat])
    /\ \A k \in 1..Len(ps) :
         /\ <<ps[k].startsAt, ps[k].endsAt - 1>> \in Placed(s)
         /\ ps[k].template = SubSeq(s, ps[k].startsAt + 1, ps[k].endsAt - 1 - 1)
         /\ ps[k].startsAt >= IF k = 1 THEN c ELSE ps[k - 1].endsAt
    /\ \A span \in Placed(s) : span[1] >= c =>
         \E k \in 1..Len(ps) : span = <<ps[k].startsAt, ps[k].endsAt - 1>>

\* One more placeholder in front of those that are listed.
LEMMA OneMoreListed ==
    ASSUME NEW s \in Seq(Symbols), NEW c \in 1..(Len(s) + 1), NEW rest,
           NEW start \in c..Len(s), NEW end \in (start + 1)..Len(s), <<start, end>> \in Placed(s),
           \A span \in Placed(s) : span[1] >= c => span = <<start, end>> \/ span[1] >= end + 1,
           Listed(s, rest, end + 1)
    PROVE  LET r == [template |-> SubSeq(s, start + 1, end - 1), startsAt |-> start, endsAt |-> end + 1]
           IN  Listed(s, <<r>> \o rest, c) /\ <<r>> \o rest # MalformedPlaceholder
<1> DEFINE r == [template |-> SubSeq(s, start + 1, end - 1), startsAt |-> start, endsAt |-> end + 1]
           R == [template : Seq(Symbols), startsAt : Nat, endsAt : Nat]
           ps == <<r>> \o rest
<1>1. start \in Nat /\ start >= 1 /\ end \in Nat /\ Len(s) \in Nat /\ (end + 1) - 1 = end
  OBVIOUS
<1>2. SubSeq(s, start + 1, end - 1) \in Seq(Symbols)
  <2>1. \A i \in (start + 1)..(end - 1) : s[i] \in Symbols
    BY <1>1
  <2> QED
    BY <1>1, <2>1, SubSeqProperties
<1>3. /\ r \in R /\ r.startsAt = start /\ r.endsAt = end + 1
      /\ r.template = SubSeq(s, start + 1, end - 1)
  BY <1>1, <1>2
<1>4. rest \in Seq(R) /\ Len(rest) \in Nat
  BY DEF Listed
<1> HIDE DEF r, R
<1>5. <<r>> \in Seq(R) /\ Len(<<r>>) = 1 /\ <<r>>[1] = r
  BY <1>3
<1>6. /\ ps \in Seq(R) /\ Len(ps) = 1 + Len(rest)
      /\ \A i \in 1..(1 + Len(rest)) : ps[i] = IF i <= 1 THEN r ELSE rest[i - 1]
  <2>1. /\ ps \in Seq(R) /\ Len(ps) = Len(<<r>>) + Len(rest)
        /\ \A i \in 1..(Len(<<r>>) + Len(rest)) :
             ps[i] = IF i <= Len(<<r>>) THEN <<r>>[i] ELSE rest[i - Len(<<r>>)]
    BY <1>4, <1>5, ConcatProperties
  <2> HIDE DEF ps
  <2> QED
    BY <1>4, <1>5, <2>1
<1> HIDE DEF ps
<1>7. ps[1] = r /\ \A i \in 1..Len(rest) : ps[i + 1] = rest[i]
  BY <1>4, <1>6
<1>8. ps # MalformedPlaceholder
  <2>1. MalformedPlaceholder[1].startsAt = 0
    BY DEF MalformedPlaceholder
  <2>2. ps[1].startsAt = start
    BY <1>3, <1>7
  <2> QED
    BY <1>1, <2>1, <2>2
<1>9. ASSUME NEW k \in 1..Len(ps)
      PROVE  /\ <<ps[k].startsAt, ps[k].endsAt - 1>> \in Placed(s)
             /\ ps[k].template = SubSeq(s, ps[k].startsAt + 1, ps[k].endsAt - 1 - 1)
             /\ ps[k].startsAt >= IF k = 1 THEN c ELSE ps[k - 1].endsAt
  <2>1. CASE k = 1
    <3>1. ps[k] = r
      BY <1>7, <2>1
    <3>2. ps[k].endsAt - 1 = end
      BY <1>1, <1>3, <3>1
    <3>3. ps[k].startsAt = start /\ ps[k].template = SubSeq(s, start + 1, end - 1)
      BY <1>3, <3>1
    <3>4. ps[k].template = SubSeq(s, ps[k].startsAt + 1, ps[k].endsAt - 1 - 1)
      BY <3>2, <3>3, Zenon
    <3>5. <<ps[k].startsAt, ps[k].endsAt - 1>> \in Placed(s)
      BY <3>2, <3>3, Zenon
    <3>6. ps[k].startsAt >= c
      BY <1>1, <3>3
    <3> QED
      BY <2>1, <3>4, <3>5, <3>6
  <2>2. CASE k # 1
    <3> DEFINE i == k - 1
    <3>1. i \in 1..Len(rest) /\ k = i + 1
      BY <1>4, <1>6, <2>2
    <3> HIDE DEF i
    <3>2. ps[k] = rest[i]
      BY <1>7, <3>1
    <3>3. /\ <<rest[i].startsAt, rest[i].endsAt - 1>> \in Placed(s)
          /\ rest[i].template = SubSeq(s, rest[i].startsAt + 1, rest[i].endsAt - 1 - 1)
          /\ rest[i].startsAt >= IF i = 1 THEN end + 1 ELSE rest[i - 1].endsAt
      BY <3>1 DEF Listed
    <3>4. ps[k - 1].endsAt = IF i = 1 THEN end + 1 ELSE rest[i - 1].endsAt
      <4>1. CASE i = 1
        BY <1>3, <1>7, <3>1, <4>1
      <4>2. CASE i # 1
        <5>1. i - 1 \in 1..Len(rest) /\ k - 1 = (i - 1) + 1
          BY <1>4, <3>1, <4>2
        <5> QED
          BY <1>7, <4>2, <5>1
      <4> QED
        BY <4>1, <4>2
    <3>5. ps[k].startsAt >= ps[k - 1].endsAt
      BY <3>2, <3>3, <3>4
    <3> QED
      BY <2>2, <3>2, <3>3, <3>5
  <2> QED
    BY <2>1, <2>2
<1>10. ASSUME NEW span \in Placed(s), span[1] >= c
       PROVE  \E k \in 1..Len(ps) : span = <<ps[k].startsAt, ps[k].endsAt - 1>>
  <2>1. CASE span = <<start, end>>
    <3>1. 1 \in 1..Len(ps) /\ ps[1].startsAt = start /\ ps[1].endsAt - 1 = end
      BY <1>1, <1>3, <1>4, <1>6, <1>7
    <3> QED
      BY <2>1, <3>1
  <2>2. CASE span[1] >= end + 1
    <3>1. PICK i \in 1..Len(rest) : span = <<rest[i].startsAt, rest[i].endsAt - 1>>
      BY <2>2 DEF Listed
    <3>2. i + 1 \in 1..Len(ps) /\ ps[i + 1] = rest[i]
      BY <1>4, <1>6, <1>7
    <3> QED
      BY <3>1, <3>2
  <2> QED
    BY <1>10, <2>1, <2>2
<1>11. Listed(s, ps, c)
  <2>1. ps \in Seq([template : Seq(Symbols), startsAt : Nat, endsAt : Nat])
    BY <1>6 DEF R
  <2> QED
    BY <1>9, <1>10, <2>1 DEF Listed
<1> QED
  BY <1>8, <1>11 DEF ps, r

\* discoverPlaceholders fails when a placeholder is not closed or has no path, and
\* otherwise lists them all, from any place outside of placeholders.
LEMMA PlaceholdersListed ==
    ASSUME NEW s \in Seq(Symbols), NEW c \in 1..(Len(s) + 1), ~InsideUpTo(s)[c - 1]
    PROVE  LET ps == PlaceholdersFrom(s)[c]
           IN  /\ ps = MalformedPlaceholder <=>
                    \/ InsideUpTo(s)[Len(s)]
                    \/ \E span \in Placed(s) : span[1] >= c /\ Split(TemplateOf(s, span)) = 0
               /\ ps # MalformedPlaceholder => Listed(s, ps, c)
<1> DEFINE in == InsideUpTo(s)
           P == PlaceholdersFrom(s)
           Fails(x) == in[Len(s)] \/ \E span \in Placed(s) : span[1] >= x /\ Split(TemplateOf(s, span)) = 0
           Good(x) == (P[x] = MalformedPlaceholder <=> Fails(x))
                        /\ (P[x] # MalformedPlaceholder => Listed(s, P[x], x))
           S == {n \in Nat : \A x \in 1..(Len(s) + 1) : Len(s) + 1 - x <= n /\ ~in[x - 1] => Good(x)}
<1>0. Len(s) \in Nat
  OBVIOUS
<1>1. ASSUME NEW x \in 1..(Len(s) + 1), ~in[x - 1],
             \A y \in (x + 1)..(Len(s) + 1) : ~in[y - 1] => Good(y)
      PROVE  Good(x)
  <2> DEFINE opens == NextAt(s, Open, x)
             start == Min(opens)
             closes == NextAt(s, Close, start + 1)
             end == Min(closes)
             path == SubSeq(s, start + 1, end - 1)
             rest == P[end + 1]
  <2>1. P[x] = IF opens = {} THEN <<>>
               ELSE IF closes = {} \/ Split(path) = 0 \/ rest = MalformedPlaceholder THEN MalformedPlaceholder
               ELSE <<[template |-> path, startsAt |-> start, endsAt |-> end + 1]>> \o rest
    BY <1>0, PlaceholdersUnfold
  <2>2. /\ opens = {} => ~in[Len(s)] /\ \A span \in Placed(s) : ~(span[1] >= x)
        /\ opens # {} /\ closes = {} => in[Len(s)]
        /\ opens # {} /\ closes # {} =>
             /\ start \in x..Len(s) /\ end \in (start + 1)..Len(s)
             /\ <<start, end>> \in Placed(s) /\ ~in[end]
             /\ \A span \in Placed(s) : span[1] >= x => span = <<start, end>> \/ span[1] >= end + 1
    BY <1>1, NextPlaced
  <2> HIDE DEF P, in, opens, closes, start, end
  <2>3. CASE opens = {}
    <3>1. P[x] = <<>>
      BY <2>1, <2>3
    <3>2. <<>> # MalformedPlaceholder
      BY DEF MalformedPlaceholder
    <3>3. ~Fails(x)
      BY <2>2, <2>3
    <3>4. Listed(s, <<>>, x)
      BY <2>2, <2>3 DEF Listed
    <3> HIDE DEF Fails
    <3> QED
      BY <3>1, <3>2, <3>3, <3>4
  <2>4. CASE opens # {} /\ closes = {}
    <3>1. P[x] = MalformedPlaceholder
      BY <2>1, <2>4
    <3> QED
      BY <2>2, <2>4, <3>1
  <2>5. CASE opens # {} /\ closes # {}
    <3>1. /\ start \in x..Len(s) /\ end \in (start + 1)..Len(s)
          /\ <<start, end>> \in Placed(s) /\ ~in[end]
          /\ \A span \in Placed(s) : span[1] >= x => span = <<start, end>> \/ span[1] >= end + 1
      BY <2>2, <2>5
    <3>2. end + 1 \in (x + 1)..(Len(s) + 1) /\ (end + 1) - 1 = end /\ end + 1 \in 1..(Len(s) + 1)
      BY <1>0, <3>1
    <3>3. Good(end + 1)
      <4> HIDE DEF Good
      <4> QED
        BY <1>1, <3>1, <3>2
    <3>4. Split(TemplateOf(s, <<start, end>>)) = Split(path)
      BY DEF TemplateOf
    <3>5. Fails(x) <=> Split(path) = 0 \/ Fails(end + 1)
      <4>1. start >= x /\ end + 1 >= x
        BY <1>0, <3>1
      <4>2. ASSUME Split(path) = 0 PROVE Fails(x)
        <5>1. <<start, end>>[1] = start
          OBVIOUS
        <5> QED
          BY <3>1, <3>4, <4>1, <4>2, <5>1
      <4>3. ASSUME Fails(end + 1) PROVE Fails(x)
        <5>1. \A span \in Placed(s) : span[1] >= end + 1 => span[1] >= x
          <6>1. \A span \in Placed(s) : span[1] \in 1..Len(s)
            BY PlacedIs
          <6> QED
            BY <1>0, <3>1, <4>1, <6>1
        <5> QED
          BY <4>3, <5>1
      <4>4. ASSUME Fails(x) PROVE Split(path) = 0 \/ Fails(end + 1)
        <5> HIDE DEF path
        <5> QED
          BY <3>1, <3>4, <4>4
      <4> QED
        BY <4>2, <4>3, <4>4
    <3> HIDE DEF Fails, path
    <3>6. CASE Split(path) = 0 \/ rest = MalformedPlaceholder
      <4>1. P[x] = MalformedPlaceholder
        BY <2>1, <2>5, <3>6
      <4>2. Fails(x)
        BY <3>3, <3>5, <3>6
      <4> QED
        BY <4>1, <4>2
    <3>7. CASE ~(Split(path) = 0 \/ rest = MalformedPlaceholder)
      <4>1. P[x] = <<[template |-> path, startsAt |-> start, endsAt |-> end + 1]>> \o rest
        BY <2>1, <2>5, <3>7
      <4>2. Listed(s, rest, end + 1) /\ ~Fails(x)
        BY <3>3, <3>5, <3>7
      <4>3. Listed(s, P[x], x) /\ P[x] # MalformedPlaceholder
        <5> HIDE DEF rest
        <5> QED
          BY <3>1, <4>1, <4>2, OneMoreListed DEF path
      <4> QED
        BY <4>2, <4>3
    <3> QED
      BY <3>6, <3>7
  <2> QED
    BY <2>3, <2>4, <2>5
<1> HIDE DEF Good, in
<1>2. 0 \in S
  <2> SUFFICES ASSUME NEW x \in 1..(Len(s) + 1), Len(s) + 1 - x <= 0, ~in[x - 1] PROVE Good(x)
    OBVIOUS
  <2>1. \A y \in (x + 1)..(Len(s) + 1) : FALSE
    BY <1>0
  <2> QED
    BY <1>1, <2>1
<1>3. ASSUME NEW n \in Nat, n \in S PROVE n + 1 \in S
  <2> SUFFICES ASSUME NEW x \in 1..(Len(s) + 1), Len(s) + 1 - x <= n + 1, ~in[x - 1] PROVE Good(x)
    OBVIOUS
  <2>1. \A y \in (x + 1)..(Len(s) + 1) : y \in 1..(Len(s) + 1) /\ Len(s) + 1 - y <= n
    BY <1>0
  <2>2. \A y \in (x + 1)..(Len(s) + 1) : ~in[y - 1] => Good(y)
    BY <1>3, <2>1
  <2> QED
    BY <1>1, <2>2
<1>4. Nat \subseteq S
  <2> HIDE DEF S
  <2> QED
    BY <1>2, <1>3, SetInduction
<1>5. Good(c)
  <2>1. Len(s) + 1 - c \in Nat /\ Len(s) + 1 - c <= Len(s) + 1 - c /\ ~in[c - 1]
    BY <1>0 DEF in
  <2>2. Len(s) + 1 - c \in S
    <3> HIDE DEF S
    <3> QED
      BY <1>4, <2>1
  <2> QED
    BY <2>1, <2>2
<1> QED
  BY <1>5 DEF Good, in

\* The parts of Listed.
LEMMA ListedParts ==
    ASSUME NEW s, NEW ps, NEW c, Listed(s, ps, c)
    PROVE  /\ ps \in Seq([template : Seq(Symbols), startsAt : Nat, endsAt : Nat])
           /\ \A k \in 1..Len(ps) : <<ps[k].startsAt, ps[k].endsAt - 1>> \in Placed(s)
           /\ \A k \in 1..Len(ps) : ps[k].template = SubSeq(s, ps[k].startsAt + 1, ps[k].endsAt - 1 - 1)
           /\ \A k \in 1..Len(ps) : ps[k].startsAt >= IF k = 1 THEN c ELSE ps[k - 1].endsAt
           /\ \A span \in Placed(s) : span[1] >= c =>
                \E k \in 1..Len(ps) : span = <<ps[k].startsAt, ps[k].endsAt - 1>>
BY Zenon DEF Listed

\* A token stands where the offsets of a placeholder say.
LEMMA TokenStands ==
    ASSUME NEW s \in Seq(Symbols), NEW ps, Listed(s, ps, 1), NEW k \in 1..Len(ps)
    PROVE  /\ ps[k].startsAt \in 1..Len(s) /\ ps[k].endsAt - 1 \in 1..Len(s)
           /\ ps[k].startsAt \in Nat /\ ps[k].endsAt \in Nat
           /\ ps[k].startsAt < ps[k].endsAt - 1 /\ ps[k].endsAt <= Len(s) + 1
           /\ SubSeq(s, ps[k].startsAt, ps[k].endsAt - 1) = <<Open>> \o ps[k].template \o <<Close>>
<1> DEFINE i == ps[k].startsAt
           e == ps[k].endsAt
           j == e - 1
           t == ps[k].template
<1>p. /\ ps \in Seq([template : Seq(Symbols), startsAt : Nat, endsAt : Nat])
      /\ \A n \in 1..Len(ps) : <<ps[n].startsAt, ps[n].endsAt - 1>> \in Placed(s)
      /\ \A n \in 1..Len(ps) : ps[n].template = SubSeq(s, ps[n].startsAt + 1, ps[n].endsAt - 1 - 1)
  BY Zenon DEF Listed
<1>1. ps[k] \in [template : Seq(Symbols), startsAt : Nat, endsAt : Nat]
  BY <1>p, ElementOfSeq
<1>2. i \in Nat /\ e \in Nat /\ t \in Seq(Symbols)
  BY <1>1
<1>3. <<i, j>> \in Placed(s) /\ t = SubSeq(s, i + 1, j - 1)
  BY <1>p, Zenon
<1> HIDE DEF i, e, j, t
<1>4. i \in 1..Len(s) /\ j \in 1..Len(s) /\ i < j /\ s[i] = Open /\ s[j] = Close
  <2>1. <<i, j>>[1] = i /\ <<i, j>>[2] = j
    OBVIOUS
  <2> QED
    BY <1>3, <2>1, PlacedIs DEF PlacedAt
<1>5. SubSeq(s, i, j) = <<s[i]>> \o SubSeq(s, i + 1, j)
  <2>1. j \in i..Len(s)
    BY <1>4
  <2> QED
    BY <1>4, <2>1, SubSeqRecursiveFirst
<1>6. SubSeq(s, i + 1, j) = SubSeq(s, i + 1, j - 1) \o <<s[j]>>
  <2>1. i + 1 \in 1..Len(s) /\ j \in (i + 1)..Len(s)
    BY <1>4
  <2> QED
    BY <2>1, SubSeqRecursiveSecond
<1>7. <<Open>> \in Seq(Symbols) /\ <<Close>> \in Seq(Symbols)
  <2>1. s[i] \in Symbols /\ s[j] \in Symbols
    BY <1>4
  <2> QED
    BY <1>4, <2>1
<1>8. SubSeq(s, i, j) = <<Open>> \o t \o <<Close>>
  <2>1. SubSeq(s, i, j) = <<Open>> \o (t \o <<Close>>)
    BY <1>3, <1>4, <1>5, <1>6, Zenon
  <2>2. <<Open>> \o (t \o <<Close>>) = <<Open>> \o t \o <<Close>>
    BY <1>2, <1>7, ConcatAssociative
  <2> QED
    BY <2>1, <2>2, Zenon
<1>9. e <= Len(s) + 1
  BY <1>2, <1>4 DEF j
<1> QED
  BY <1>2, <1>4, <1>8, <1>9 DEF i, e, j, t

\* discoverPlaceholders: what it refuses, what it finds, and when a string is one
\* placeholder.
LEMMA Discovered ==
    ASSUME NEW s \in Seq(Symbols)
    PROVE  LET ps == DiscoverPlaceholders(s)
           IN  /\ ps # MalformedPlaceholder <=> WellFormed(s)
               /\ WellFormed(s) => /\ Listed(s, ps, 1)
                                   /\ ps = <<>> <=> Placed(s) = {}
                                   /\ IsExact(s, ps) <=> Whole(s)
<1> DEFINE ps == DiscoverPlaceholders(s)
<1>0. Len(s) \in Nat /\ 1 \in 1..(Len(s) + 1) /\ 1 - 1 = 0 /\ ~InsideUpTo(s)[0]
  BY InsideUnfold
<1>1. /\ ps = MalformedPlaceholder <=>
           \/ InsideUpTo(s)[Len(s)]
           \/ \E span \in Placed(s) : span[1] >= 1 /\ Split(TemplateOf(s, span)) = 0
      /\ ps # MalformedPlaceholder => Listed(s, ps, 1)
  BY <1>0, PlaceholdersListed DEF DiscoverPlaceholders
<1>2. \A span \in Placed(s) : span[1] >= 1 /\ span[1] \in Nat
  BY PlacedIs
<1> HIDE DEF ps
<1>3. ps # MalformedPlaceholder <=> WellFormed(s)
  BY <1>1, <1>2 DEF WellFormed
<1>4. ASSUME WellFormed(s)
      PROVE  Listed(s, ps, 1) /\ (ps = <<>> <=> Placed(s) = {}) /\ (IsExact(s, ps) <=> Whole(s))
  <2>1. Listed(s, ps, 1)
    BY <1>1, <1>3, <1>4
  <2>2. Len(ps) \in Nat /\ (ps = <<>> <=> Len(ps) = 0)
    BY <2>1 DEF Listed
  <2>3. ps = <<>> <=> Placed(s) = {}
    <3>1. ASSUME ps = <<>> PROVE Placed(s) = {}
      <4> SUFFICES ASSUME NEW span \in Placed(s) PROVE FALSE
        OBVIOUS
      <4>1. \E k \in 1..Len(ps) : TRUE
        BY <1>2, <2>1 DEF Listed
      <4> QED
        BY <2>2, <3>1, <4>1
    <3>2. ASSUME ps # <<>> PROVE Placed(s) # {}
      <4>1. 1 \in 1..Len(ps)
        BY <2>2, <3>2
      <4> QED
        BY <2>1, <4>1 DEF Listed
    <3> QED
      BY <3>1, <3>2
  <2>4. ASSUME IsExact(s, ps) PROVE Whole(s)
    <3>1. 1 \in 1..Len(ps) /\ ps[1].startsAt = 1 /\ ps[1].endsAt - 1 = Len(s)
      BY <1>0, <2>4 DEF IsExact
    <3>2. <<ps[1].startsAt, ps[1].endsAt - 1>> \in Placed(s)
      BY <2>1, <3>1 DEF Listed
    <3> QED
      BY <3>1, <3>2 DEF Whole
  <2>5. ASSUME Whole(s) PROVE IsExact(s, ps)
    <3>1. <<1, Len(s)>> \in Placed(s) /\ <<1, Len(s)>>[1] = 1
      BY <2>5 DEF Whole
    <3>2. PICK k \in 1..Len(ps) : <<1, Len(s)>> = <<ps[k].startsAt, ps[k].endsAt - 1>>
      <4>1. \A span \in Placed(s) : span[1] >= 1 =>
              \E n \in 1..Len(ps) : span = <<ps[n].startsAt, ps[n].endsAt - 1>>
        BY <2>1, ListedParts
      <4> QED
        BY <1>2, <3>1, <4>1
    <3>3. ps[k].startsAt = 1 /\ ps[k].endsAt - 1 = Len(s) /\ ps[k].endsAt \in Nat
      BY <2>1, <3>2, TokenStands
    <3>4. k = 1
      <4> SUFFICES ASSUME k # 1 PROVE FALSE
        OBVIOUS
      <4>1. k - 1 \in 1..Len(ps)
        BY <2>2
      <4>2. ps[k].startsAt >= ps[k - 1].endsAt
        BY <2>1 DEF Listed
      <4>3. ps[k - 1].endsAt \in Nat /\ ps[k - 1].endsAt - 1 \in 1..Len(s)
        BY <2>1, <4>1, TokenStands
      <4> QED
        BY <3>3, <4>2, <4>3
    <3>5. Len(ps) = 1
      <4>0. SUFFICES ASSUME Len(ps) # 1 PROVE FALSE
        OBVIOUS
      <4>1. 2 \in 1..Len(ps)
        <5> DEFINE n == Len(ps)
        <5>1. 1 \in 1..n /\ n \in Nat /\ n # 1
          BY <2>2, <3>2, <3>4, <4>0
        <5> HIDE DEF n
        <5>2. 2 \in 1..n
          BY <5>1
        <5> QED
          BY <5>2 DEF n
      <4>2. ps[2].startsAt >= IF 2 = 1 THEN 1 ELSE ps[2 - 1].endsAt
        BY <2>1, <4>1, ListedParts, Zenon
      <4>3. ps[2].startsAt \in 1..Len(s)
        BY SMTT(30), <2>1, <4>1, TokenStands
      <4> QED
        BY <1>0, <3>3, <3>4, <4>2, <4>3
    <3>6. <<Open>> \o ps[1].template \o <<Close>> = s
      <4>1. SubSeq(s, ps[1].startsAt, ps[1].endsAt - 1) = <<Open>> \o ps[1].template \o <<Close>>
        BY <2>1, <3>4, TokenStands
      <4>2. SubSeq(s, 1, Len(s)) = s
        BY SubSeqFull
      <4> QED
        BY <3>3, <3>4, <4>1, <4>2
    <3>7. ps[1].startsAt = 1 /\ ps[1].endsAt = Len(s) + 1
      BY <1>0, <3>3, <3>4
    <3> QED
      BY <3>5, <3>6, <3>7 DEF IsExact
  <2> QED
    BY <2>1, <2>3, <2>4, <2>5
<1> QED
  BY <1>3, <1>4 DEF ps

-----------------------------------------------------------------------------
(***************************************************************************)
(* Saving: the variables of the nodes of a step.                           *)
(***************************************************************************)
StringsOfSymbols(node) == \A p \in Strings(node) : node.props[p].value \in Seq(Symbols)

\* discoverVariables refuses exactly what is not well written.
LEMMA NodeIsDiscoverable ==
    ASSUME NEW node, StringsOfSymbols(node)
    PROVE  Discoverable(node) <=> WellWritten(node)
<1>1. \A p \in Strings(node) :
        /\ Placeholders(node, p) # MalformedPlaceholder <=> WellFormed(node.props[p].value)
        /\ WellFormed(node.props[p].value) =>
             (Placeholders(node, p) = <<>> <=> Placed(node.props[p].value) = {})
  <2> SUFFICES ASSUME NEW p \in Strings(node)
               PROVE  /\ Placeholders(node, p) # MalformedPlaceholder <=> WellFormed(node.props[p].value)
                      /\ WellFormed(node.props[p].value) =>
                           (Placeholders(node, p) = <<>> <=> Placed(node.props[p].value) = {})
    OBVIOUS
  <2>1. node.props[p].value \in Seq(Symbols)
    BY DEF StringsOfSymbols
  <2> QED
    BY <2>1, Discovered DEF Placeholders
<1> QED
  BY <1>1 DEF Discoverable, WellWritten

\* The type discoverVariables gives a variable, with Whole for IsExact.
TypeOf(node, p) ==
    LET declared == IF p \in DOMAIN node.vars THEN node.vars[p].type ELSE ""
        inferred == InferType(node.type, p)
    IN  IF declared # "" THEN declared
        ELSE IF inferred # "" THEN inferred
        ELSE IF Whole(node.props[p].value) THEN "" ELSE "string"

\* What the metadata of a well written node says.
LEMMA VariablesOfNode ==
    ASSUME NEW node, node = [type |-> node.type, props |-> node.props, vars |-> node.vars],
           StringsOfSymbols(node), WellWritten(node)
    PROVE  LET w == WithVariables(node)
           IN  /\ w = [type |-> node.type, props |-> node.props, vars |-> w.vars]
               /\ w.type = node.type /\ w.props = node.props
               /\ DOMAIN w.vars = {p \in Strings(node) : Placed(node.props[p].value) # {}}
               /\ \A p \in DOMAIN w.vars :
                    /\ p \in Strings(node) /\ w.vars[p].type = TypeOf(node, p)
                    /\ Listed(node.props[p].value, w.vars[p].placeholders, 1)
                    /\ IsExact(node.props[p].value, w.vars[p].placeholders) <=> Whole(node.props[p].value)
                    /\ WellFormed(node.props[p].value)
<1> DEFINE w == WithVariables(node)
           U == {q \in Strings(node) : Placeholders(node, q) # <<>>}
           v == [p \in U |-> [type |-> VariableType(node, p), placeholders |-> Placeholders(node, p)]]
<1>1. w = [type |-> node.type, props |-> node.props, vars |-> v]
  <2>1. w = [node EXCEPT !.vars = v]
    BY DEF WithVariables
  <2> HIDE DEF v, w
  <2> QED
    BY <2>1
<1> HIDE DEF w
<1>2. w.type = node.type /\ w.props = node.props /\ w.vars = v
  BY <1>1
<1>3. \A p \in Strings(node) :
        /\ WellFormed(node.props[p].value)
        /\ Listed(node.props[p].value, Placeholders(node, p), 1)
        /\ Placeholders(node, p) = <<>> <=> Placed(node.props[p].value) = {}
        /\ IsExact(node.props[p].value, Placeholders(node, p)) <=> Whole(node.props[p].value)
  <2> SUFFICES ASSUME NEW p \in Strings(node)
               PROVE  /\ WellFormed(node.props[p].value)
                      /\ Listed(node.props[p].value, Placeholders(node, p), 1)
                      /\ Placeholders(node, p) = <<>> <=> Placed(node.props[p].value) = {}
                      /\ IsExact(node.props[p].value, Placeholders(node, p)) <=> Whole(node.props[p].value)
    OBVIOUS
  <2>1. node.props[p].value \in Seq(Symbols)
    BY DEF StringsOfSymbols
  <2>2. WellFormed(node.props[p].value)
    BY DEF WellWritten
  <2> QED
    BY <2>1, <2>2, Discovered DEF Placeholders
<1>4. U = {p \in Strings(node) : Placed(node.props[p].value) # {}}
  BY <1>3
<1>5. \A p \in Strings(node) : VariableType(node, p) = TypeOf(node, p)
  BY <1>3 DEF VariableType, TypeOf
<1>6. \A p \in U : p \in Strings(node)
  OBVIOUS
<1> HIDE DEF U
<1>7. DOMAIN v = U /\ \A p \in U : v[p].type = VariableType(node, p) /\ v[p].placeholders = Placeholders(node, p)
  OBVIOUS
<1> HIDE DEF v
<1>8. \A p \in DOMAIN w.vars :
        /\ p \in Strings(node) /\ w.vars[p].type = TypeOf(node, p)
        /\ Listed(node.props[p].value, w.vars[p].placeholders, 1)
        /\ IsExact(node.props[p].value, w.vars[p].placeholders) <=> Whole(node.props[p].value)
        /\ WellFormed(node.props[p].value)
  <2> SUFFICES ASSUME NEW p \in DOMAIN w.vars
        PROVE /\ p \in Strings(node) /\ w.vars[p].type = TypeOf(node, p)
              /\ Listed(node.props[p].value, w.vars[p].placeholders, 1)
              /\ IsExact(node.props[p].value, w.vars[p].placeholders) <=> Whole(node.props[p].value)
              /\ WellFormed(node.props[p].value)
    OBVIOUS
  <2>1. p \in U /\ p \in Strings(node)
    BY <1>2, <1>6, <1>7
  <2>2. w.vars[p].type = VariableType(node, p) /\ w.vars[p].placeholders = Placeholders(node, p)
    BY <1>2, <1>7, <2>1
  <2> QED
    BY <1>3, <1>5, <2>1, <2>2
<1> QED
  BY <1>1, <1>2, <1>4, <1>7, <1>8 DEF w

\* validateStepVariables accepts the metadata of a well written node unless a type
\* was declared that there is not: the offsets are always right.
LEMMA VariablesAreValid ==
    ASSUME NEW node, node = [type |-> node.type, props |-> node.props, vars |-> node.vars],
           StringsOfSymbols(node), WellWritten(node)
    PROVE  /\ ValidVars(WithVariables(node)) <=> TypesKnown(node)
           /\ DescribedBy(node, WithVariables(node))
<1> DEFINE w == WithVariables(node)
           s(p) == node.props[p].value
           ps(p) == w.vars[p].placeholders
<1>1. /\ w.type = node.type /\ w.props = node.props
      /\ DOMAIN w.vars = {p \in Strings(node) : Placed(s(p)) # {}}
      /\ \A p \in DOMAIN w.vars :
           /\ p \in Strings(node) /\ w.vars[p].type = TypeOf(node, p)
           /\ Listed(s(p), ps(p), 1) /\ WellFormed(s(p))
  BY VariablesOfNode
<1> HIDE DEF w
<1>2. Strings(w) = Strings(node)
  BY SMTT(30), <1>1 DEF Strings
<1>3. ASSUME NEW p \in DOMAIN w.vars
      PROVE  /\ s(p) \in Seq(Symbols) /\ Listed(s(p), ps(p), 1) /\ DOMAIN ps(p) = 1..Len(ps(p))
             /\ \A i \in DOMAIN ps(p) :
                  /\ ps(p)[i].startsAt >= (IF i = 1 THEN 1 ELSE ps(p)[i - 1].endsAt)
                  /\ ps(p)[i].endsAt <= Len(s(p)) + 1
                  /\ SubSeq(s(p), ps(p)[i].startsAt, ps(p)[i].endsAt - 1)
                       = <<Open>> \o ps(p)[i].template \o <<Close>>
                  /\ Split(ps(p)[i].template) # 0
             /\ {<<ps(p)[k].startsAt, ps(p)[k].endsAt - 1>> : k \in DOMAIN ps(p)} = Placed(s(p))
  <2> DEFINE x == s(p)
             q == ps(p)
  <2>1. x \in Seq(Symbols) /\ Listed(x, q, 1) /\ WellFormed(x)
    BY <1>1 DEF StringsOfSymbols
  <2> HIDE DEF x, q
  <2>2. /\ q \in Seq([template : Seq(Symbols), startsAt : Nat, endsAt : Nat])
        /\ \A k \in 1..Len(q) : <<q[k].startsAt, q[k].endsAt - 1>> \in Placed(x)
        /\ \A k \in 1..Len(q) : q[k].template = SubSeq(x, q[k].startsAt + 1, q[k].endsAt - 1 - 1)
        /\ \A k \in 1..Len(q) : q[k].startsAt >= IF k = 1 THEN 1 ELSE q[k - 1].endsAt
        /\ \A span \in Placed(x) : span[1] >= 1 => \E k \in 1..Len(q) : span = <<q[k].startsAt, q[k].endsAt - 1>>
    BY <2>1, Zenon DEF Listed
  <2>3. DOMAIN q = 1..Len(q)
    BY <2>2
  <2>4. \A i \in 1..Len(q) : /\ q[i].endsAt <= Len(x) + 1
                             /\ SubSeq(x, q[i].startsAt, q[i].endsAt - 1) = <<Open>> \o q[i].template \o <<Close>>
    BY <2>1, TokenStands
  <2>5. \A i \in 1..Len(q) : Split(q[i].template) # 0
    <3> SUFFICES ASSUME NEW i \in 1..Len(q) PROVE Split(q[i].template) # 0
      OBVIOUS
    <3> DEFINE span == <<q[i].startsAt, q[i].endsAt - 1>>
    <3>1. span \in Placed(x)
      BY <2>2
    <3>2. TemplateOf(x, span) = q[i].template
      <4>1. span[1] = q[i].startsAt /\ span[2] = q[i].endsAt - 1
        OBVIOUS
      <4>2. q[i].template = SubSeq(x, q[i].startsAt + 1, q[i].endsAt - 1 - 1)
        BY <2>2
      <4> HIDE DEF span
      <4> QED
        BY <4>1, <4>2, Zenon DEF TemplateOf
    <3> HIDE DEF span
    <3> QED
      BY <2>1, <3>1, <3>2 DEF WellFormed
  <2>6. {<<q[k].startsAt, q[k].endsAt - 1>> : k \in DOMAIN q} = Placed(x)
    <3>1. \A span \in Placed(x) : span[1] >= 1
      BY <2>1, PlacedIs
    <3>2. \A span \in Placed(x) : \E k \in DOMAIN q : span = <<q[k].startsAt, q[k].endsAt - 1>>
      BY <2>2, <2>3, <3>1, Zenon
    <3>3. \A k \in DOMAIN q : <<q[k].startsAt, q[k].endsAt - 1>> \in Placed(x)
      BY <2>2, <2>3, Zenon
    <3> QED
      BY <3>2, <3>3, Zenon
  <2> QED
    BY <2>1, <2>2, <2>3, <2>4, <2>5, <2>6 DEF x, q
<1>4. DescribedBy(node, w)
  BY <1>1, <1>3 DEF DescribedBy
<1>5. ValidVars(w) <=> \A p \in DOMAIN w.vars : ValidVariableType(w.vars[p].type)
  <2>1. \A p \in DOMAIN w.vars : p \in Strings(w) /\ w.props[p].value = s(p)
    BY <1>1, <1>2
  <2> HIDE DEF s, ps
  <2>2. \A p \in DOMAIN w.vars : Source(w, p) = s(p)
    BY <2>1 DEF Source, Strings
  <2>3. ASSUME ValidVars(w) PROVE \A p \in DOMAIN w.vars : ValidVariableType(w.vars[p].type)
    BY <2>3 DEF ValidVars
  <2>4. ASSUME \A p \in DOMAIN w.vars : ValidVariableType(w.vars[p].type) PROVE ValidVars(w)
    <3> SUFFICES ASSUME NEW p \in DOMAIN w.vars, NEW i \in DOMAIN w.vars[p].placeholders
                 PROVE LET q == w.vars[p].placeholders
                       IN  /\ q[i].startsAt >= (IF i = 1 THEN 1 ELSE q[i - 1].endsAt)
                           /\ q[i].endsAt <= Len(s(p)) + 1
                           /\ SubSeq(s(p), q[i].startsAt, q[i].endsAt - 1) = <<Open>> \o q[i].template \o <<Close>>
                           /\ Split(q[i].template) # 0
      BY <2>2, <2>4, Zenon DEF ValidVars
    <3> QED
      BY <1>3, Zenon DEF ps
  <2> QED
    BY <2>3, <2>4
<1>6. \A p \in DOMAIN w.vars : ValidVariableType(w.vars[p].type) <=>
                                 (p \in DOMAIN node.vars => ValidVariableType(node.vars[p].type))
  <2> SUFFICES ASSUME NEW p \in DOMAIN w.vars
               PROVE  ValidVariableType(TypeOf(node, p)) <=>
                        (p \in DOMAIN node.vars => ValidVariableType(node.vars[p].type))
    BY <1>1
  <2> DEFINE declared == IF p \in DOMAIN node.vars THEN node.vars[p].type ELSE ""
             inferred == InferType(node.type, p)
  <2>1. ValidVariableType("") /\ ValidVariableType("string") /\ ValidVariableType(inferred)
    BY FieldAssumption DEF ValidVariableType, InferType
  <2>2. TypeOf(node, p) = declared \/ (declared = "" /\ TypeOf(node, p) \in {"", "string", inferred})
    BY DEF TypeOf
  <2> HIDE DEF inferred
  <2> QED
    BY <2>1, <2>2
<1>7. (\A p \in DOMAIN w.vars : p \in DOMAIN node.vars => ValidVariableType(node.vars[p].type)) <=> TypesKnown(node)
  BY <1>1 DEF TypesKnown
<1> QED
  BY <1>4, <1>5, <1>6, <1>7 DEF w

\* The string of a value is one of symbols.
LEMMA ValueIsString ==
    ASSUME NEW v, IsValue(v), v.type = "string"
    PROVE  v.value \in Seq(Symbols)
BY DEF IsValue, Text

\* What the nodes of a step are.
LEMMA StepIsTree ==
    ASSUME NEW step, IsStep(step)
    PROVE  /\ IsTree(step.nodes)
           /\ \A at \in DOMAIN step.nodes : Inside(step.nodes, at) # {} => step.nodes[at].type \in Composites
           /\ \A at \in DOMAIN step.nodes :
                LET node == step.nodes[at]
                IN  /\ node = [type |-> node.type, props |-> node.props, vars |-> node.vars]
                    /\ StringsOfSymbols(node)
<1>1. IsTree(step.nodes)
  BY DEF IsStep, IsTree
<1>2. \A at \in DOMAIN step.nodes : Inside(step.nodes, at) # {} => step.nodes[at].type \in Composites
  BY DEF IsStep, Inside
<1>3. ASSUME NEW at \in DOMAIN step.nodes
      PROVE  LET node == step.nodes[at]
             IN  /\ node = [type |-> node.type, props |-> node.props, vars |-> node.vars]
                 /\ StringsOfSymbols(node)
  <2> DEFINE node == step.nodes[at]
  <2>1. IsNode(node)
    BY DEF IsStep
  <2> HIDE DEF node
  <2>2. StringsOfSymbols(node)
    BY <2>1, ValueIsString DEF IsNode, StringsOfSymbols, Strings
  <2>3. node = [type |-> node.type, props |-> node.props, vars |-> node.vars]
    BY <2>1 DEF IsNode
  <2> QED
    BY <2>2, <2>3 DEF node
<1> QED
  BY <1>1, <1>2, <1>3

\* GenerateStepVariables refuses a step when one of its nodes is not well written,
\* and otherwise makes the metadata of all of them.
LEMMA StepIsGenerated ==
    ASSUME NEW step, IsStep(step), MaxDepth \in Nat
    PROVE  LET g == GenerateStepVariables(step)
               w == [at \in DOMAIN step.nodes |-> WithVariables(step.nodes[at])]
           IN  IF \A at \in DOMAIN step.nodes : WellWritten(step.nodes[at])
               THEN g = [outcomes |-> step.outcomes, nodes |-> w] /\ g # Nil /\ g.nodes = w
                      /\ g.outcomes = step.outcomes
               ELSE g = Nil
<1> DEFINE g == GenerateStepVariables(step)
           w == [at \in DOMAIN step.nodes |-> WithVariables(step.nodes[at])]
           well == \A at \in DOMAIN step.nodes : WellWritten(step.nodes[at])
<1>1. Generates(step.nodes)[<<>>] <=> well
  <2>1. \A at \in DOMAIN step.nodes : Discoverable(step.nodes[at]) <=> WellWritten(step.nodes[at])
    BY StepIsTree, NodeIsDiscoverable
  <2>2. Generates(step.nodes)[<<>>] <=> \A at \in DOMAIN step.nodes : Discoverable(step.nodes[at])
    BY StepIsTree, GeneratesAll
  <2> QED
    BY <2>1, <2>2
<1>2. step = [outcomes |-> step.outcomes, nodes |-> step.nodes]
  BY DEF IsStep
<1>3. g = IF ~Generates(step.nodes)[<<>>] THEN Nil ELSE [step EXCEPT !.nodes = w]
  BY DEF GenerateStepVariables
<1> HIDE DEF w, well, g
<1>4. [step EXCEPT !.nodes = w] = [outcomes |-> step.outcomes, nodes |-> w]
  BY <1>2
<1>5. [outcomes |-> step.outcomes, nodes |-> w] # Nil
  <2>1. "nodes" \in DOMAIN [outcomes |-> step.outcomes, nodes |-> w] /\ "nodes" \notin DOMAIN Nil
    BY DEF Nil
  <2> QED
    BY <2>1
<1>6. well => g = [outcomes |-> step.outcomes, nodes |-> w]
  BY <1>1, <1>3, <1>4
<1>7. ~well => g = Nil
  BY <1>1, <1>3
<1>8. well => g # Nil /\ g.nodes = w /\ g.outcomes = step.outcomes
  BY <1>5, <1>6
<1> QED
  BY <1>6, <1>7, <1>8 DEF w, well, g

\* ValidateStep accepts all nodes of a well written step exactly if they are admitted:
\* what a Chain asks of the steps inside it is what is asked of them anyway, and that
\* they are not of the types it refuses.
LEMMA NodesAreAdmitted ==
    ASSUME NEW step, IsStep(step), \A at \in DOMAIN step.nodes : WellWritten(step.nodes[at]),
           NEW w, w = [at \in DOMAIN step.nodes |-> WithVariables(step.nodes[at])]
    PROVE  (\A at \in DOMAIN w : ValidateStep(w, at)) <=> \A at \in DOMAIN step.nodes : Admitted(step.nodes, at)
<1> DEFINE nodes == step.nodes
           D == DOMAIN nodes
           Takes(at) == /\ nodes[at].type \in DOMAIN FlowTypes
                        /\ Configured(nodes[at]) =>
                             /\ SchemaAccepts(nodes[at].type, nodes[at].props)
                             /\ nodes[at].type = "Chain" \/ VerifyAccepts(nodes[at].type, nodes[at].props)
                        /\ TypesKnown(nodes[at])
           Blacklisted(at) == at # <<>> /\ nodes[Front(at)].type = "Chain" /\ nodes[at].type \in ChainBlacklist
<1>1. DOMAIN w = D
  OBVIOUS
<1>2. ASSUME NEW at \in D
      PROVE  /\ w[at].type = nodes[at].type /\ w[at].props = nodes[at].props
             /\ ValidVars(w[at]) <=> TypesKnown(nodes[at])
             /\ ~Configured(nodes[at]) => Inside(nodes, at) = {} /\ TypesKnown(nodes[at])
  <2> DEFINE node == nodes[at]
             x == WithVariables(node)
  <2>1. /\ node = [type |-> node.type, props |-> node.props, vars |-> node.vars]
        /\ StringsOfSymbols(node) /\ WellWritten(node)
    BY StepIsTree
  <2>2. w[at] = x
    OBVIOUS
  <2>3. ASSUME ~Configured(node) PROVE Inside(nodes, at) = {} /\ Strings(node) = {}
    <3>1. Inside(nodes, at) = {}
      BY <2>3 DEF IsStep, Inside
    <3>2. DOMAIN node.props = {<<>>} /\ node.props[<<>>] = Nil
      BY <2>3 DEF IsStep, IsNode
    <3> QED
      BY <3>1, <3>2 DEF Strings, Nil
  <2> HIDE DEF node
  <2>4. x.type = node.type /\ x.props = node.props /\ (ValidVars(x) <=> TypesKnown(node))
    BY <2>1, VariablesOfNode, VariablesAreValid
  <2>5. ~Configured(node) => Inside(nodes, at) = {} /\ TypesKnown(node)
    BY <2>3 DEF TypesKnown
  <2> QED
    BY <2>2, <2>4, <2>5 DEF node
<1>3. \A at \in D : Inside(w, at) = Inside(nodes, at) /\ Inside(nodes, at) \subseteq D
  BY <1>1 DEF Inside
<1>4. \A at \in D : Admitted(nodes, at) <=> Takes(at) /\ ~Blacklisted(at)
  BY DEF Admitted, ChainBlacklist
<1>5. \A at \in D : Configured(w[at]) <=> Configured(nodes[at])
  BY <1>2 DEF Configured
<1>6. \A at \in D : nodes[at].type # "Chain" => (ValidLeaf(w[at]) <=> Takes(at))
  BY <1>2, <1>5 DEF ValidLeaf
<1>7. \A at \in D : nodes[at].type # "Chain" => (ValidateStep(w, at) <=> Takes(at))
  BY <1>2, <1>6 DEF ValidateStep
<1>8. \A at \in D : nodes[at].type = "Chain" =>
        (ValidateStep(w, at) <=> Takes(at) /\ (Configured(nodes[at]) => VerifyChain(w, at)))
  BY <1>2, <1>5 DEF ValidateStep
<1>9. \A at \in D : \A p \in Inside(nodes, at) : p # <<>> /\ Front(p) = at
  BY DEF Inside
<1>10. \A p \in D : p # <<>> => Front(p) \in D /\ p \in Inside(nodes, Front(p)) /\ Configured(nodes[Front(p)])
  BY DEF IsStep, Inside
<1>11. \A at \in D : VerifyChain(w, at) <=>
         \A p \in Inside(nodes, at) : nodes[p].type \notin ChainBlacklist /\ (nodes[p].type \in BuiltIn => ValidLeaf(w[p]))
  BY <1>2, <1>3 DEF VerifyChain
<1>12. "Chain" \in ChainBlacklist
  BY DEF ChainBlacklist
<1> HIDE DEF Takes, nodes, D
<1>13. ASSUME \A at \in D : ValidateStep(w, at) PROVE \A at \in D : Takes(at) /\ ~Blacklisted(at)
  <2>1. \A at \in D : Takes(at)
    BY <1>7, <1>8, <1>13
  <2>2. ASSUME NEW at \in D, Blacklisted(at) PROVE FALSE
    <3>1. VerifyChain(w, Front(at)) /\ at \in Inside(nodes, Front(at)) /\ Front(at) \in D
      BY <1>8, <1>10, <1>13, <2>2
    <3> QED
      BY <1>11, <2>2, <3>1
  <2> QED
    BY <2>1, <2>2
<1>14. ASSUME \A at \in D : Takes(at) /\ ~Blacklisted(at) PROVE \A at \in D : ValidateStep(w, at)
  <2> SUFFICES ASSUME NEW at \in D PROVE ValidateStep(w, at)
    OBVIOUS
  <2>1. CASE nodes[at].type # "Chain"
    BY <1>7, <1>14, <2>1
  <2>2. CASE nodes[at].type = "Chain"
    <3>1. ASSUME NEW p \in Inside(nodes, at)
          PROVE  nodes[p].type \notin ChainBlacklist /\ ValidLeaf(w[p])
      <4>1. p \in D /\ p # <<>> /\ Front(p) = at
        BY <1>3, <1>9
      <4>2. nodes[p].type \notin ChainBlacklist
        BY <1>14, <2>2, <4>1
      <4>3. nodes[p].type # "Chain"
        BY <1>12, <4>2
      <4> QED
        BY <1>6, <1>14, <4>1, <4>2, <4>3
    <3>2. VerifyChain(w, at)
      BY <1>11, <3>1
    <3> QED
      BY <1>8, <1>14, <2>2, <3>2
  <2> QED
    BY <2>1, <2>2
<1> QED
  BY <1>1, <1>4, <1>13, <1>14 DEF D, nodes

\* PrepareJourneyConfiguration saves exactly the sound journeys, with the metadata
\* of all their nodes.
LEMMA JourneyIsPrepared ==
    ASSUME NEW journey, MaxDepth \in Nat,
           journey = [type |-> journey.type, start |-> journey.start, steps |-> journey.steps],
           \A id \in DOMAIN journey.steps : IsStep(journey.steps[id])
    PROVE  /\ PrepareJourney(journey) # Nil <=> Sound(journey)
           /\ PrepareJourney(journey) # Nil =>
                \A id \in DOMAIN journey.steps : \A at \in DOMAIN journey.steps[id].nodes :
                    DescribedBy(journey.steps[id].nodes[at], PrepareJourney(journey).steps[id].nodes[at])
<1> DEFINE ids == DOMAIN journey.steps
           Nodes(id) == journey.steps[id].nodes
           steps == [id \in ids |-> GenerateStepVariables(journey.steps[id])]
           Kept(id) == /\ steps[id] # Nil
                       /\ ValidStep(steps[id].nodes, <<>>, journey.type)
                       /\ ValidNested(steps[id].nodes, journey.type)[<<>>]
                       /\ \A o \in DOMAIN steps[id].outcomes : steps[id].outcomes[o] \in {""} \cup DOMAIN steps
           Fine(id) == /\ \A o \in DOMAIN journey.steps[id].outcomes : journey.steps[id].outcomes[o] \in {""} \cup ids
                       /\ \A at \in DOMAIN Nodes(id) :
                            /\ Admitted(Nodes(id), at)
                            /\ NormalizeJourneyType(journey.type) \in StepFlowTypes(Nodes(id)[at].type)
           saved == [journey EXCEPT !.type = NormalizeJourneyType(journey.type), !.steps = steps]
<1>1. PrepareJourney(journey) = IF journey.start \in ids /\ (\A id \in DOMAIN steps : Kept(id)) THEN saved ELSE Nil
  BY DEF PrepareJourney
<1>2. Sound(journey) <=> journey.start \in ids /\ \A id \in ids : Fine(id)
  BY DEF Sound
<1>3. ASSUME NEW id \in ids
      PROVE  /\ Kept(id) <=> Fine(id)
             /\ Kept(id) => \A at \in DOMAIN Nodes(id) :
                              /\ steps[id].nodes[at] = WithVariables(Nodes(id)[at])
                              /\ WellWritten(Nodes(id)[at])
  <2> DEFINE step == journey.steps[id]
             nodes == step.nodes
             g == GenerateStepVariables(step)
             w == [at \in DOMAIN nodes |-> WithVariables(nodes[at])]
             well == \A at \in DOMAIN nodes : WellWritten(nodes[at])
             leads == \A o \in DOMAIN step.outcomes : step.outcomes[o] \in {""} \cup ids
  <2>0. IsStep(step) /\ steps[id] = g /\ DOMAIN steps = ids
    OBVIOUS
  <2>1. /\ well => g # Nil /\ g.nodes = w /\ g.outcomes = step.outcomes
        /\ ~well => g = Nil
    BY <2>0, StepIsGenerated
  <2>2. /\ IsTree(nodes)
        /\ \A at \in DOMAIN nodes :
             /\ nodes[at] = [type |-> nodes[at].type, props |-> nodes[at].props, vars |-> nodes[at].vars]
             /\ StringsOfSymbols(nodes[at])
    BY <2>0, StepIsTree
  <2>3. IsTree(w) /\ DOMAIN w = DOMAIN nodes
    BY <2>2 DEF IsTree
  <2>4. ASSUME well, NEW at \in DOMAIN nodes
        PROVE  w[at] = WithVariables(nodes[at]) /\ w[at].type = nodes[at].type
    <3> DEFINE node == nodes[at]
               x == WithVariables(node)
    <3>1. /\ node = [type |-> node.type, props |-> node.props, vars |-> node.vars]
          /\ StringsOfSymbols(node) /\ WellWritten(node)
      BY <2>2, <2>4
    <3>2. w[at] = x
      OBVIOUS
    <3> HIDE DEF node
    <3>3. x.type = node.type
      BY <3>1, VariablesOfNode
    <3> QED
      BY <3>2, <3>3 DEF node
  <2>a. well => ((\A at \in DOMAIN w : ValidateStep(w, at)) <=> \A at \in DOMAIN nodes : Admitted(nodes, at))
    BY <2>0, NodesAreAdmitted
  <2> HIDE DEF steps, w, g, step
  <2>5. Kept(id) <=>
          well /\ leads /\ ValidStep(w, <<>>, journey.type) /\ ValidNested(w, journey.type)[<<>>]
    BY <2>0, <2>1
  <2>6. ValidStep(w, <<>>, journey.type) /\ ValidNested(w, journey.type)[<<>>]
          <=> \A at \in DOMAIN nodes : ValidStep(w, at, journey.type)
    <3>1. ValidNested(w, journey.type)[<<>>]
            <=> \A at \in DOMAIN w : at # <<>> => ValidStep(w, at, journey.type)
      BY <2>3, ValidNestedAll
    <3>2. <<>> \in DOMAIN w
      BY <2>3 DEF IsTree
    <3> QED
      BY <2>3, <3>1, <3>2
  <2> DEFINE flows == \A at \in DOMAIN nodes : NormalizeJourneyType(journey.type) \in StepFlowTypes(nodes[at].type)
             admitted == \A at \in DOMAIN nodes : Admitted(nodes, at)
  <2>b. well => ((\A at \in DOMAIN nodes : ValidStep(w, at, journey.type)) <=> admitted /\ flows)
    <3> SUFFICES ASSUME well PROVE (\A at \in DOMAIN nodes : ValidStep(w, at, journey.type)) <=> admitted /\ flows
      OBVIOUS
    <3>1. \A at \in DOMAIN nodes :
            ValidStep(w, at, journey.type) <=>
              ValidateStep(w, at) /\ NormalizeJourneyType(journey.type) \in StepFlowTypes(nodes[at].type)
      BY <2>4 DEF ValidStep
    <3> HIDE DEF nodes
    <3> QED
      BY <2>3, <2>a, <3>1
  <2>7. (Fine(id) <=> leads /\ admitted /\ flows) /\ (admitted => well)
    BY DEF step, Admitted
  <2>8. Kept(id) => \A at \in DOMAIN nodes :
                      steps[id].nodes[at] = WithVariables(nodes[at]) /\ WellWritten(nodes[at])
    <3> HIDE DEF Kept
    <3> QED
      BY <2>0, <2>1, <2>4, <2>5
  <2> HIDE DEF Kept, Fine, leads, admitted, flows
  <2>9. Kept(id) <=> Fine(id)
    BY <2>5, <2>6, <2>7, <2>b
  <2> QED
    BY <2>8, <2>9 DEF step
<1>4. DOMAIN steps = ids
  OBVIOUS
<1> HIDE DEF steps, Kept, Fine
<1>5. saved = [type |-> NormalizeJourneyType(journey.type), start |-> journey.start, steps |-> steps]
  <2> DEFINE n == NormalizeJourneyType(journey.type)
             a == journey.type
             b == journey.start
             c == journey.steps
  <2>1. journey = [type |-> a, start |-> b, steps |-> c]
    OBVIOUS
  <2> HIDE DEF n, a, b, c
  <2>2. [journey EXCEPT !.type = n, !.steps = steps] = [type |-> n, start |-> b, steps |-> steps]
    <3> DEFINE r == [journey EXCEPT !.type = n, !.steps = steps]
    <3>1. DOMAIN r = {"type", "start", "steps"}
      BY <2>1
    <3>2. r.type = n /\ r.start = b /\ r.steps = steps
      BY <2>1
    <3>3. r = [x \in DOMAIN r |-> r[x]]
      OBVIOUS
    <3> HIDE DEF r
    <3>4. r = [type |-> n, start |-> b, steps |-> steps]
      BY <3>1, <3>2, <3>3
    <3> QED
      BY <3>4 DEF r
  <2> QED
    BY <2>2 DEF n, b
<1> HIDE DEF saved
<1>6. saved # Nil /\ saved.steps = steps
  <2>1. "start" \in DOMAIN saved /\ "start" \notin DOMAIN Nil
    BY <1>5 DEF Nil
  <2> QED
    BY <1>5, <2>1
<1>7. PrepareJourney(journey) # Nil <=> Sound(journey)
  BY <1>1, <1>2, <1>3, <1>4, <1>6
<1>8. ASSUME PrepareJourney(journey) # Nil, NEW id \in ids, NEW at \in DOMAIN Nodes(id)
      PROVE  DescribedBy(Nodes(id)[at], PrepareJourney(journey).steps[id].nodes[at])
  <2>1. Kept(id) /\ PrepareJourney(journey).steps = steps
    BY <1>1, <1>4, <1>6, <1>8
  <2>2. steps[id].nodes[at] = WithVariables(Nodes(id)[at]) /\ WellWritten(Nodes(id)[at])
    BY <1>3, <1>8, <2>1
  <2> DEFINE node == Nodes(id)[at]
  <2>3. node = [type |-> node.type, props |-> node.props, vars |-> node.vars] /\ StringsOfSymbols(node)
    BY <1>8, StepIsTree
  <2> HIDE DEF node
  <2>4. WellWritten(node)
    BY <2>2 DEF node
  <2>5. DescribedBy(node, WithVariables(node))
    BY <2>3, <2>4, VariablesAreValid
  <2> QED
    BY <2>1, <2>2, <2>5 DEF node
<1> QED
  BY <1>7, <1>8

-----------------------------------------------------------------------------
(***************************************************************************)
(* A string with its placeholders filled in: what stands between them      *)
(* stays, and each is replaced by its text.                                *)
(***************************************************************************)
Piece(s, spans, texts, k) ==
    IF \E span \in spans : span[1] = k
    THEN texts[TemplateOf(s, CHOOSE span \in spans : span[1] = k)]
    ELSE IF \E span \in spans : span[1] < k /\ k <= span[2] THEN <<>> ELSE <<s[k]>>

IsFilling(f, s, spans, texts) ==
    /\ f[0] = <<>>
    /\ \A n \in 0..Len(s) : f[n] \in Seq(Symbols)
    /\ \A n \in 1..Len(s) : f[n] = f[n - 1] \o Piece(s, spans, texts, n)

\* Spans of a string that do not overlap, with a text for each.
Apart(s, spans, texts) ==
    /\ \A a \in spans : /\ a = <<a[1], a[2]>> /\ a[1] \in 1..Len(s) /\ a[2] \in 1..Len(s) /\ a[1] < a[2]
                        /\ texts[TemplateOf(s, a)] \in Seq(Symbols)
    /\ \A a, b \in spans : a = b \/ a[2] < b[1] \/ b[2] < a[1]

\* Concatenation of strings is associative.
LEMMA ConcatThree ==
    ASSUME NEW x \in Seq(Symbols), NEW y \in Seq(Symbols), NEW z \in Seq(Symbols)
    PROVE  Cat(Cat(x, y), z) = Cat(x, Cat(y, z))
BY ConcatAssociative DEF Cat

\* The empty string is neutral.
LEMMA CatEmpty ==
    ASSUME NEW x \in Seq(Symbols)
    PROVE  Cat(x, <<>>) = x /\ Cat(<<>>, x) = x
BY ConcatEmptySeq DEF Cat

\* Concatenation makes strings of strings.
LEMMA CatIsString ==
    ASSUME NEW x \in Seq(Symbols), NEW y \in Seq(Symbols)
    PROVE  Cat(x, y) \in Seq(Symbols)
BY DEF Cat

\* The text that is filled in, symbol by symbol.
LEMMA FillingExists ==
    ASSUME NEW s \in Seq(Symbols), NEW spans, NEW texts, Apart(s, spans, texts)
    PROVE  \E f : IsFilling(f, s, spans, texts) /\ Filled(s, spans, texts) = f[Len(s)]
<1> DEFINE P(k) == Piece(s, spans, texts, k)
           seqs == [k \in DOMAIN s |-> P(k)]
<1>0. Len(s) \in Nat /\ DOMAIN s = 1..Len(s)
  OBVIOUS
<1>1. \A k \in DOMAIN s : P(k) \in Seq(Symbols)
  <2> SUFFICES ASSUME NEW k \in DOMAIN s PROVE P(k) \in Seq(Symbols)
    OBVIOUS
  <2>1. CASE \E span \in spans : span[1] = k
    <3> DEFINE x == CHOOSE span \in spans : span[1] = k
    <3>1. x \in spans
      BY <2>1
    <3> HIDE DEF x
    <3>2. texts[TemplateOf(s, x)] \in Seq(Symbols)
      BY <3>1 DEF Apart
    <3>3. P(k) = texts[TemplateOf(s, x)]
      BY <2>1 DEF Piece, x
    <3> QED
      BY <3>2, <3>3
  <2>2. CASE ~\E span \in spans : span[1] = k
    <3>1. P(k) = <<>> \/ P(k) = <<s[k]>>
      BY <2>2 DEF Piece
    <3>2. s[k] \in Symbols
      BY <1>0
    <3>3. <<>> \in Seq(Symbols) /\ <<s[k]>> \in Seq(Symbols)
      BY <3>2
    <3> QED
      BY <3>1, <3>3, Zenon
  <2> QED
    BY <2>1, <2>2
<1>2. Filled(s, spans, texts) = FlattenSeq(seqs)
  BY DEF Filled, Piece
<1> HIDE DEF P
<1>3. seqs \in Seq(Seq(Symbols)) /\ Len(seqs) = Len(s) /\ \A n \in 1..Len(s) : seqs[n] = P(n)
  <2>1. seqs \in [1..Len(s) -> Seq(Symbols)] /\ \A n \in 1..Len(s) : seqs[n] = P(n)
    BY <1>0, <1>1
  <2> HIDE DEF seqs
  <2> QED
    BY <1>0, <2>1, SeqDef
<1> HIDE DEF seqs
<1>4. PICK f : /\ f[0] = <<>>
               /\ \A n \in 1..Len(seqs) : f[n] \in Seq(Symbols) /\ f[n] = f[n - 1] \o seqs[n]
               /\ FlattenSeq(seqs) = f[Len(seqs)]
  BY <1>3, FlattenUnfold
<1>5. \A n \in 0..Len(s) : f[n] \in Seq(Symbols)
  <2>1. \A n \in 0..Len(s) : n = 0 \/ n \in 1..Len(s)
    BY <1>0
  <2>2. <<>> \in Seq(Symbols)
    OBVIOUS
  <2> QED
    BY <1>3, <1>4, <2>1, <2>2
<1>6. \A n \in 1..Len(s) : f[n] = f[n - 1] \o P(n)
  BY <1>3, <1>4
<1>7. IsFilling(f, s, spans, texts)
  BY <1>4, <1>5, <1>6 DEF IsFilling, P
<1>8. Filled(s, spans, texts) = f[Len(s)]
  BY <1>2, <1>3, <1>4
<1> QED
  BY <1>7, <1>8

\* What no span touches stays.
LEMMA FillGap ==
    ASSUME NEW s \in Seq(Symbols), NEW spans, NEW texts, NEW f, IsFilling(f, s, spans, texts),
           NEW a \in 0..Len(s), NEW b \in a..Len(s), Apart(s, spans, texts),
           \A span \in spans : span[2] <= a \/ b < span[1]
    PROVE  f[b] = Cat(f[a], SubSeq(s, a + 1, b))
<1> DEFINE Q(d) == a + d <= b => f[a + d] = f[a] \o SubSeq(s, a + 1, a + d)
           S == {d \in Nat : Q(d)}
<1>0. Len(s) \in Nat /\ f[a] \in Seq(Symbols)
  BY DEF IsFilling
<1>1. 0 \in S
  <2>1. SubSeq(s, a + 1, a + 0) = <<>>
    BY SubSeqEmpty
  <2>2. a + 0 = a /\ f[a] \o <<>> = f[a]
    BY <1>0, ConcatEmptySeq
  <2> QED
    BY <2>1, <2>2
<1>2. ASSUME NEW d \in Nat, d \in S PROVE d + 1 \in S
  <2>1. SUFFICES ASSUME a + (d + 1) <= b
                 PROVE  f[a + (d + 1)] = f[a] \o SubSeq(s, a + 1, a + (d + 1))
    <3>1. SUFFICES Q(d + 1)
      <4> HIDE DEF Q
      <4> QED
        BY <3>1
    <3> QED
      OBVIOUS
  <2> DEFINE n == a + (d + 1)
             m == a + d
             sub == SubSeq(s, a + 1, m)
  <2>2. n \in 1..Len(s) /\ n - 1 = m /\ m <= b /\ n \in (a + 1)..Len(s) /\ a + 1 \in 1..Len(s)
    BY <1>0, <2>1
  <2>3. f[m] = f[a] \o sub
    BY <1>2, <2>2
  <2>4. Piece(s, spans, texts, n) = <<s[n]>>
    <3>1. \A span \in spans : span[1] \in Nat /\ span[2] \in Nat /\ span[1] < span[2]
      BY DEF Apart
    <3>2. \A span \in spans : span[1] # n /\ ~(span[1] < n /\ n <= span[2])
      BY <1>0, <2>1, <2>2, <3>1
    <3> HIDE DEF n
    <3> QED
      BY <3>2 DEF Piece
  <2>5. SubSeq(s, a + 1, n) = sub \o <<s[n]>>
    <3> HIDE DEF n, m
    <3>1. SubSeq(s, a + 1, n) = SubSeq(s, a + 1, n - 1) \o <<s[n]>>
      BY <2>2, SubSeqRecursiveSecond
    <3> QED
      BY <2>2, <3>1
  <2>6. sub \in Seq(Symbols) /\ <<s[n]>> \in Seq(Symbols)
    <3>1. \A i \in (a + 1)..m : s[i] \in Symbols
      BY <1>0, <2>2
    <3>2. m \in Int /\ a + 1 \in Int
      BY <1>0
    <3>3. s[n] \in Symbols
      BY <2>2
    <3> HIDE DEF m, n
    <3> QED
      BY <3>1, <3>2, <3>3, SubSeqProperties
  <2> HIDE DEF n, m, sub
  <2>7. f[n] = f[m] \o <<s[n]>>
    BY <2>2, <2>4 DEF IsFilling
  <2>8. (f[a] \o sub) \o <<s[n]>> = f[a] \o (sub \o <<s[n]>>)
    <3>1. Cat(Cat(f[a], sub), <<s[n]>>) = Cat(f[a], Cat(sub, <<s[n]>>))
      BY <1>0, <2>6, ConcatThree
    <3> QED
      BY <3>1 DEF Cat
  <2> QED
    BY <2>3, <2>5, <2>7, <2>8 DEF n
<1>3. Nat \subseteq S
  <2> HIDE DEF S
  <2> QED
    BY <1>1, <1>2, SetInduction
<1>4. b - a \in Nat /\ a + (b - a) = b /\ b <= b
  OBVIOUS
<1>5. b - a \in S
  <2> HIDE DEF S
  <2> QED
    BY <1>3, <1>4
<1>6. a + (b - a) <= b => f[a + (b - a)] = f[a] \o SubSeq(s, a + 1, a + (b - a))
  BY <1>5
<1> QED
  BY <1>4, <1>6 DEF Cat

\* A span is replaced by its text.
LEMMA FillToken ==
    ASSUME NEW s \in Seq(Symbols), NEW spans, NEW texts, NEW f, IsFilling(f, s, spans, texts),
           Apart(s, spans, texts), NEW span \in spans
    PROVE  f[span[2]] = Cat(f[span[1] - 1], texts[TemplateOf(s, span)])
<1> DEFINE i == span[1]
           j == span[2]
           S == {d \in Nat : i + d <= j => f[i + d] = f[i]}
<1>0. /\ span = <<i, j>> /\ i \in 1..Len(s) /\ j \in 1..Len(s) /\ i < j /\ Len(s) \in Nat
      /\ \A x \in spans : /\ x[1] \in Nat /\ x[2] \in Nat /\ x[1] < x[2]
                          /\ x = span \/ x[2] < i \/ j < x[1]
  BY DEF Apart
<1>1. f[i] = f[i - 1] \o texts[TemplateOf(s, span)]
  <2> DEFINE c == CHOOSE x \in spans : x[1] = i
  <2>1. c \in spans /\ c[1] = i
    OBVIOUS
  <2> HIDE DEF c, i, j
  <2>2. c = span
    BY <1>0, <2>1
  <2>3. Piece(s, spans, texts, i) = texts[TemplateOf(s, c)]
    BY DEF Piece, i, c
  <2>4. f[i] = f[i - 1] \o Piece(s, spans, texts, i)
    BY <1>0 DEF IsFilling
  <2> QED
    BY <2>2, <2>3, <2>4
<1> HIDE DEF i, j
<1>2. 0 \in S
  <2>1. i + 0 = i
    BY <1>0
  <2> QED
    BY <2>1
<1>3. ASSUME NEW d \in Nat, d \in S PROVE d + 1 \in S
  <2> DEFINE n == i + (d + 1)
  <2>1. SUFFICES ASSUME n <= j PROVE f[n] = f[i]
    OBVIOUS
  <2>2. n \in 1..Len(s) /\ n - 1 = i + d /\ i + d <= j /\ n > i /\ n - 1 \in 0..Len(s)
    BY <1>0, <2>1
  <2>3. Piece(s, spans, texts, n) = <<>>
    <3>0. span[1] = i
      BY DEF i
    <3>1. \A x \in spans : x[1] # n
      BY <1>0, <2>1, <2>2, <3>0
    <3>2. span[1] < n /\ n <= span[2]
      BY <2>1, <2>2 DEF i, j
    <3> HIDE DEF n
    <3> QED
      BY <3>1, <3>2 DEF Piece
  <2>4. f[n - 1] = f[i]
    BY <1>3, <2>2
  <2> HIDE DEF n
  <2>5. f[n] = f[n - 1] \o <<>> /\ f[n - 1] \in Seq(Symbols)
    BY <2>2, <2>3 DEF IsFilling
  <2> QED
    BY <2>4, <2>5, ConcatEmptySeq
<1>4. Nat \subseteq S
  <2> HIDE DEF S
  <2> QED
    BY <1>2, <1>3, SetInduction
<1>5. j - i \in Nat /\ i + (j - i) = j /\ j <= j
  BY <1>0
<1>6. j - i \in S
  <2> HIDE DEF S
  <2> QED
    BY <1>4, <1>5
<1>7. i + (j - i) <= j => f[i + (j - i)] = f[i]
  BY <1>6
<1>8. f[j] = f[i]
  BY <1>5, <1>7
<1> QED
  BY <1>1, <1>8 DEF i, j, Cat

\* The placeholders of a string do not overlap.
LEMMA PlacedApart ==
    ASSUME NEW s \in Seq(Symbols), NEW texts,
           \A span \in Placed(s) : texts[TemplateOf(s, span)] \in Seq(Symbols)
    PROVE  Apart(s, Placed(s), texts)
<1> DEFINE in == InsideUpTo(s)
<1>0. Len(s) \in Nat
  OBVIOUS
<1>1. \A n \in 1..Len(s) : in[n] = (IF in[n - 1] THEN s[n] # Close ELSE s[n] = Open)
  BY <1>0, InsideUnfold
<1>2. \A a \in Placed(s) :
        /\ a = <<a[1], a[2]>> /\ a[1] \in 1..Len(s) /\ a[2] \in 1..Len(s)
        /\ a[1] < a[2] /\ s[a[1]] = Open /\ ~in[a[1] - 1] /\ s[a[2]] = Close
        /\ \A k \in (a[1] + 1)..(a[2] - 1) : s[k] # Close
  BY PlacedIs DEF PlacedAt
<1>3. ASSUME NEW a \in Placed(s), NEW b \in Placed(s), a[1] <= b[1] PROVE a = b \/ a[2] < b[1]
  <2> DEFINE i == a[1]
             j == a[2]
             k == b[1]
             l == b[2]
  <2>1. /\ a = <<i, j>> /\ i \in 1..Len(s) /\ j \in 1..Len(s) /\ i < j /\ s[i] = Open /\ ~in[i - 1]
        /\ s[j] = Close /\ \A n \in (i + 1)..(j - 1) : s[n] # Close
    BY <1>2
  <2>2. /\ b = <<k, l>> /\ k \in 1..Len(s) /\ l \in 1..Len(s) /\ k < l /\ s[k] = Open /\ ~in[k - 1]
        /\ s[l] = Close /\ \A n \in (k + 1)..(l - 1) : s[n] # Close
    BY <1>2
  <2>3. i <= k
    BY <1>3
  <2> HIDE DEF i, j, k, l
  <2>4. CASE i = k
    <3>1. ~(j < l) /\ ~(l < j)
      BY <2>1, <2>2, <2>4
    <3>2. j = l
      BY <2>1, <2>2, <3>1
    <3> QED
      BY <2>1, <2>2, <2>4, <3>2
  <2>5. CASE i < k
    <3> DEFINE m == j - 1
    <3>1. i \in 0..Len(s) /\ m \in i..Len(s) /\ \A n \in (i + 1)..m : s[n] # Close
      BY <2>1
    <3>2. in[i]
      <4> HIDE DEF in
      <4> QED
        BY <1>1, <2>1
    <3> HIDE DEF m
    <3>3. \A n \in i..m : in[n]
      BY <1>0, <3>1, <3>2, InsideStays
    <3> HIDE DEF in
    <3>4. ~(k - 1 \in i..m)
      BY <2>2, <3>3
    <3>5. k - 1 > m
      BY <2>1, <2>2, <2>5, <3>1, <3>4
    <3>6. j < k
      BY <2>1, <2>2, <3>5 DEF m
    <3> QED
      BY <3>6 DEF j, k
  <2> QED
    BY <2>1, <2>2, <2>3, <2>4, <2>5
<1>4. \A a, b \in Placed(s) : a = b \/ a[2] < b[1] \/ b[2] < a[1]
  <2> SUFFICES ASSUME NEW a \in Placed(s), NEW b \in Placed(s) PROVE a = b \/ a[2] < b[1] \/ b[2] < a[1]
    OBVIOUS
  <2>1. a[1] <= b[1] \/ b[1] <= a[1]
    BY <1>2
  <2> QED
    BY <1>3, <2>1
<1> QED
  BY <1>2, <1>4 DEF Apart

\* Listed placeholders are in order.
LEMMA ListedInOrder ==
    ASSUME NEW s \in Seq(Symbols), NEW ps, Listed(s, ps, 1),
           NEW k \in 1..Len(ps), NEW m \in 1..Len(ps), k < m
    PROVE  ps[k].endsAt <= ps[m].startsAt
<1> DEFINE Q(d) == k + 1 + d <= Len(ps) => ps[k].endsAt <= ps[k + 1 + d].startsAt
           S == {d \in Nat : Q(d)}
<1>0. /\ Len(ps) \in Nat
      /\ \A n \in 1..Len(ps) : ps[n].startsAt >= IF n = 1 THEN 1 ELSE ps[n - 1].endsAt
  <2>1. /\ ps \in Seq([template : Seq(Symbols), startsAt : Nat, endsAt : Nat])
        /\ \A n \in 1..Len(ps) : ps[n].startsAt >= IF n = 1 THEN 1 ELSE ps[n - 1].endsAt
    BY Zenon DEF Listed
  <2>2. Len(ps) \in Nat
    BY <2>1
  <2> QED
    BY <2>1, <2>2
<1>1. \A n \in 1..Len(ps) : ps[n].startsAt \in Nat /\ ps[n].endsAt \in Nat /\ ps[n].startsAt < ps[n].endsAt - 1
  BY TokenStands
<1>2. \A n \in 1..Len(ps) : n + 1 \in 1..Len(ps) => ps[n].endsAt <= ps[n + 1].startsAt
  <2> SUFFICES ASSUME NEW n \in 1..Len(ps), n + 1 \in 1..Len(ps) PROVE ps[n].endsAt <= ps[n + 1].startsAt
    OBVIOUS
  <2>1. n + 1 # 1 /\ (n + 1) - 1 = n
    OBVIOUS
  <2>2. ps[n + 1].startsAt >= ps[n].endsAt
    BY <1>0, <2>1
  <2> QED
    BY <1>1, <2>2
<1>3. Q(0)
  <2>1. k + 1 + 0 = k + 1 /\ (k + 1 <= Len(ps) => k + 1 \in 1..Len(ps))
    BY <1>0
  <2> QED
    BY <1>2, <2>1
<1>4. ASSUME NEW d \in Nat, Q(d) PROVE Q(d + 1)
  <2> DEFINE n == k + 1 + d
  <2>1. k + 1 + (d + 1) = n + 1 /\ n \in Nat
    OBVIOUS
  <2>2. n + 1 <= Len(ps) => n \in 1..Len(ps) /\ n + 1 \in 1..Len(ps) /\ n <= Len(ps)
    BY <1>0
  <2>3. n <= Len(ps) => ps[k].endsAt <= ps[n].startsAt
    BY <1>4
  <2> HIDE DEF n
  <2>4. n + 1 <= Len(ps) => ps[k].endsAt <= ps[n + 1].startsAt
    <3> SUFFICES ASSUME n + 1 <= Len(ps) PROVE ps[k].endsAt <= ps[n + 1].startsAt
      OBVIOUS
    <3>1. ps[k].endsAt <= ps[n].startsAt /\ ps[n].endsAt <= ps[n + 1].startsAt
      BY <1>2, <2>2, <2>3
    <3>2. /\ ps[k].endsAt \in Nat /\ ps[n].startsAt \in Nat /\ ps[n].endsAt \in Nat
          /\ ps[n + 1].startsAt \in Nat /\ ps[n].startsAt < ps[n].endsAt - 1
      BY <1>1, <2>2
    <3> QED
      BY SMTT(30), <3>1, <3>2
  <2> QED
    BY <2>1, <2>4
<1>5. Nat \subseteq S
  <2> HIDE DEF Q
  <2>1. 0 \in S /\ \A n \in Nat : n \in S => n + 1 \in S
    BY <1>3, <1>4
  <2> HIDE DEF S
  <2> QED
    BY <2>1, SetInduction
<1>6. m - k - 1 \in Nat /\ k + 1 + (m - k - 1) = m /\ m <= Len(ps)
  OBVIOUS
<1>7. Q(m - k - 1)
  <2> HIDE DEF Q
  <2> QED
    BY <1>5, <1>6
<1> QED
  BY <1>6, <1>7

\* resolveStepVariable builds the text with every placeholder replaced.
LEMMA ReplacedIsFilled ==
    ASSUME NEW s \in Seq(Symbols), NEW ps, Listed(s, ps, 1), NEW values, NEW texts,
           \A k \in 1..Len(ps) : Text(values[k]) = texts[ps[k].template] /\ Text(values[k]) \in Seq(Symbols)
    PROVE  Replaced(s, ps, values) = Filled(s, Placed(s), texts)
<1> DEFINE R == ReplacedUpTo(s, ps, values)
           pos(n) == IF n = 0 THEN 0 ELSE ps[n].endsAt - 1
           L == Len(s)
           N == Len(ps)
<1>0. /\ L \in Nat /\ N \in Nat
      /\ ps \in Seq([template : Seq(Symbols), startsAt : Nat, endsAt : Nat])
      /\ \A k \in 1..N : <<ps[k].startsAt, ps[k].endsAt - 1>> \in Placed(s)
      /\ \A k \in 1..N : ps[k].template = SubSeq(s, ps[k].startsAt + 1, ps[k].endsAt - 1 - 1)
      /\ \A k \in 1..N : ps[k].startsAt >= IF k = 1 THEN 1 ELSE ps[k - 1].endsAt
      /\ \A span \in Placed(s) : span[1] >= 1 => \E k \in 1..N : span = <<ps[k].startsAt, ps[k].endsAt - 1>>
  <2>1. ps \in Seq([template : Seq(Symbols), startsAt : Nat, endsAt : Nat])
    BY Zenon DEF Listed
  <2>2. L \in Nat /\ N \in Nat
    BY <2>1
  <2> QED
    BY <2>2, Zenon DEF Listed
<1>1. /\ R[0] = <<>>
      /\ \A n \in 1..N : R[n] = Cat(Cat(R[n - 1], SubSeq(s, IF n = 1 THEN 1 ELSE ps[n - 1].endsAt, ps[n].startsAt - 1)),
                                    Text(values[n]))
  <2>1. Len(ps) \in Nat
    BY <1>0
  <2> HIDE DEF pos
  <2>2. /\ ReplacedUpTo(s, ps, values)[0] = <<>>
        /\ \A n \in 1..Len(ps) :
             ReplacedUpTo(s, ps, values)[n] =
               Cat(Cat(ReplacedUpTo(s, ps, values)[n - 1],
                       SubSeq(s, IF n = 1 THEN 1 ELSE ps[n - 1].endsAt, ps[n].startsAt - 1)), Text(values[n]))
    <3> HIDE DEF R, L, N
    <3> QED
      BY ONLY <2>1, ReplacedUnfold
  <2> QED
    BY <2>2
<1>2. \A k \in 1..N : /\ ps[k].startsAt \in 1..L /\ ps[k].endsAt - 1 \in 1..L /\ ps[k].endsAt \in Nat
                      /\ ps[k].startsAt < ps[k].endsAt - 1
  BY TokenStands
<1>3. \A k \in 1..N : TemplateOf(s, <<ps[k].startsAt, ps[k].endsAt - 1>>) = ps[k].template
  <2> SUFFICES ASSUME NEW k \in 1..N
               PROVE TemplateOf(s, <<ps[k].startsAt, ps[k].endsAt - 1>>) = ps[k].template
    OBVIOUS
  <2> DEFINE span == <<ps[k].startsAt, ps[k].endsAt - 1>>
  <2>1. span[1] = ps[k].startsAt /\ span[2] = ps[k].endsAt - 1
    OBVIOUS
  <2>2. ps[k].template = SubSeq(s, ps[k].startsAt + 1, ps[k].endsAt - 1 - 1)
    BY <1>0, Zenon
  <2> HIDE DEF span
  <2>3. TemplateOf(s, span) = ps[k].template
    BY <2>1, <2>2, Zenon DEF TemplateOf
  <2> QED
    BY <2>3 DEF span
<1>4. \A span \in Placed(s) : \E k \in 1..N : span = <<ps[k].startsAt, ps[k].endsAt - 1>>
  <2>1. \A span \in Placed(s) : span[1] >= 1
    BY PlacedIs
  <2> QED
    BY <1>0, <2>1, Zenon
<1>5. Apart(s, Placed(s), texts)
  <2>1. \A span \in Placed(s) : texts[TemplateOf(s, span)] \in Seq(Symbols)
    BY <1>3, <1>4, Zenon
  <2> QED
    BY <2>1, PlacedApart
<1>6. PICK f : IsFilling(f, s, Placed(s), texts) /\ Filled(s, Placed(s), texts) = f[L]
  BY <1>5, FillingExists
<1>7. \A n \in 0..L : f[n] \in Seq(Symbols)
  BY <1>6 DEF IsFilling
<1>8. \A n \in 0..N : pos(n) \in 0..L
  BY SMTT(30), <1>0, <1>2
<1> HIDE DEF R, N, L
<1>9. ASSUME NEW n \in 0..N, NEW b \in pos(n)..L, n < N => b = ps[n + 1].startsAt - 1
      PROVE  f[b] = Cat(f[pos(n)], SubSeq(s, pos(n) + 1, b))
  <2> DEFINE a == pos(n)
  <2>1. a \in 0..L /\ b \in a..L
    BY <1>8
  <2>2. \A span \in Placed(s) : span[2] <= a \/ b < span[1]
    <3> SUFFICES ASSUME NEW span \in Placed(s) PROVE span[2] <= a \/ b < span[1]
      OBVIOUS
    <3>1. PICK k \in 1..N : span = <<ps[k].startsAt, ps[k].endsAt - 1>>
      BY <1>4
    <3>2. span[1] = ps[k].startsAt /\ span[2] = ps[k].endsAt - 1
      BY <3>1
    <3>3. CASE k <= n
      <4>1. n \in 1..N /\ a = ps[n].endsAt - 1
        BY <1>0, <3>3
      <4>2. k = n \/ ps[k].endsAt <= ps[n].startsAt
        BY <3>3, <4>1, ListedInOrder DEF N
      <4>3. ps[k].endsAt - 1 <= ps[n].endsAt - 1
        BY SMTT(30), <1>2, <4>1, <4>2
      <4> QED
        BY <3>2, <4>1, <4>3
    <3>4. CASE k > n
      <4>1. n < N /\ n + 1 \in 1..N
        BY <1>0, <3>4
      <4>2. k = n + 1 \/ (n + 1 < k /\ ps[n + 1].endsAt <= ps[k].startsAt)
        <5>1. k = n + 1 \/ n + 1 < k
          BY <1>0, <3>4
        <5> QED
          BY <4>1, <5>1, ListedInOrder DEF N
      <4>3. ps[n + 1].startsAt <= ps[k].startsAt
        BY <1>2, <4>1, <4>2
      <4>4. ps[n + 1].startsAt - 1 < ps[k].startsAt
        BY <1>2, <4>1, <4>3
      <4> QED
        BY <1>9, <3>2, <4>1, <4>4
    <3> QED
      BY <1>0, <3>3, <3>4
  <2> HIDE DEF a
  <2>3. f[b] = Cat(f[a], SubSeq(s, a + 1, b))
    <3>1. IsFilling(f, s, Placed(s), texts) /\ Apart(s, Placed(s), texts)
      BY <1>5, <1>6
    <3>2. a \in 0..Len(s) /\ b \in a..Len(s)
      BY <2>1 DEF L
    <3> QED
      BY <2>2, <3>1, <3>2, FillGap
  <2> QED
    BY <2>3 DEF a
<1> DEFINE Q(n) == n <= N => R[n] = f[pos(n)]
           S == {n \in Nat : Q(n)}
<1>10. Q(0)
  <2>1. f[0] = <<>> /\ pos(0) = 0
    BY <1>6 DEF IsFilling
  <2> HIDE DEF pos
  <2> QED
    BY <1>1, <2>1
<1>11. ASSUME NEW n \in Nat, Q(n) PROVE Q(n + 1)
  <2> SUFFICES ASSUME n + 1 <= N PROVE R[n + 1] = f[pos(n + 1)]
    OBVIOUS
  <2> DEFINE m == n + 1
             a == pos(n)
             i == ps[m].startsAt
             j == ps[m].endsAt - 1
             t == Text(values[m])
             gap == SubSeq(s, a + 1, i - 1)
  <2>1. m \in 1..N /\ m - 1 = n /\ n \in 0..N /\ n < N /\ n <= N
    BY <1>0
  <2>2. R[n] = f[a]
    BY <1>11, <2>1
  <2>3. i \in 1..L /\ j \in 1..L /\ i < j /\ a \in 0..L /\ pos(m) = j
    BY <1>2, <1>8, <2>1
  <2>4. (IF m = 1 THEN 1 ELSE ps[m - 1].endsAt) = a + 1
    <3>1. CASE m = 1
      <4>1. n = 0
        BY <2>1, <3>1
      <4> QED
        BY <3>1, <4>1
    <3>2. CASE m # 1
      <4>1. n # 0 /\ n \in 1..N /\ ps[n].endsAt \in Nat
        BY <1>0, <1>2, <2>1, <3>2
      <4>2. a = ps[n].endsAt - 1
        BY <4>1
      <4>3. ps[n].endsAt = a + 1
        BY <4>1, <4>2
      <4> HIDE DEF a
      <4> QED
        BY <2>1, <3>2, <4>3
    <3> QED
      BY <3>1, <3>2
  <2>5. i >= a + 1
    <3>1. i >= IF m = 1 THEN 1 ELSE ps[m - 1].endsAt
      BY <1>0, <2>1
    <3> HIDE DEF a, i, m
    <3> QED
      BY <2>4, <3>1
  <2>6. R[m] = Cat(Cat(R[m - 1], SubSeq(s, IF m = 1 THEN 1 ELSE ps[m - 1].endsAt, i - 1)), t)
    BY <1>1, <2>1, Zenon
  <2>7. R[m] = Cat(Cat(f[a], gap), t)
    <3> HIDE DEF a, i, m, t
    <3> QED
      BY <2>1, <2>2, <2>4, <2>6
  <2>8. f[i - 1] = Cat(f[a], gap)
    <3>1. i - 1 \in a..L
      <4> HIDE DEF a, i
      <4> QED
        BY <1>0, <2>3, <2>5
    <3> QED
      BY <1>9, <2>1, <3>1
  <2>9. f[j] = Cat(f[i - 1], t)
    <3> DEFINE span == <<i, j>>
    <3>1. span \in Placed(s) /\ span[1] = i /\ span[2] = j /\ TemplateOf(s, span) = ps[m].template
      BY <1>0, <1>3, <2>1
    <3>2. texts[ps[m].template] = t
      BY <2>1 DEF N
    <3> HIDE DEF span, i, j, t
    <3>3. f[span[2]] = Cat(f[span[1] - 1], texts[TemplateOf(s, span)])
      <4>1. IsFilling(f, s, Placed(s), texts) /\ Apart(s, Placed(s), texts)
        BY <1>5, <1>6
      <4>2. span \in Placed(s)
        BY <3>1
      <4> QED
        BY <4>1, <4>2, FillToken
    <3> QED
      BY <3>1, <3>2, <3>3
  <2> HIDE DEF a, i, j, t, gap, pos
  <2>10. R[m] = f[pos(m)]
    BY <2>3, <2>7, <2>8, <2>9
  <2> QED
    BY <2>10
<1>12. Nat \subseteq S
  <2> HIDE DEF Q
  <2>1. 0 \in S /\ \A n \in Nat : n \in S => n + 1 \in S
    BY <1>10, <1>11
  <2> HIDE DEF S
  <2> QED
    BY <2>1, SetInduction
<1>13. R[N] = f[pos(N)]
  <2>1. Q(N)
    <3> HIDE DEF Q
    <3> QED
      BY <1>0, <1>12
  <2> HIDE DEF pos
  <2> QED
    BY <1>0, <2>1
<1>14. f[L] = Cat(f[pos(N)], SubSeq(s, pos(N) + 1, L))
  <2>1. N \in 0..N /\ ~(N < N) /\ L \in pos(N)..L
    BY <1>0, <1>8
  <2> HIDE DEF pos
  <2> QED
    BY <1>9, <2>1
<1>15. (IF ps = <<>> THEN 1 ELSE ps[N].endsAt) = pos(N) + 1
  <2>1. ps = <<>> <=> N = 0
    BY <1>0 DEF N
  <2>2. N # 0 => N \in 1..N /\ ps[N].endsAt \in Nat
    BY <1>0, <1>2
  <2>3. CASE N = 0
    BY <2>1, <2>3
  <2>4. CASE N # 0
    <3>1. pos(N) = ps[N].endsAt - 1
      BY <2>4
    <3>2. pos(N) + 1 = ps[N].endsAt
      BY <2>2, <2>4, <3>1
    <3> HIDE DEF pos
    <3> QED
      BY <2>1, <2>4, <3>2
  <2> QED
    BY <2>3, <2>4
<1>16. Replaced(s, ps, values) = Cat(R[N], SubSeq(s, IF ps = <<>> THEN 1 ELSE ps[N].endsAt, L))
  BY DEF Replaced, R, N, L, Cat
<1> HIDE DEF pos
<1> QED
  BY <1>6, <1>13, <1>14, <1>15, <1>16 DEF L


-----------------------------------------------------------------------------
(***************************************************************************)
(* The placeholders of the environment and of instances.                   *)
(***************************************************************************)

\* A prefix of one symbol and a path after the dot.
LEMMA SplitTwo ==
    ASSUME NEW path \in Seq(Symbols)
    PROVE  Split(path) = 2 <=> Len(path) >= 3 /\ path[1] # Dot /\ path[2] = Dot
<1> DEFINE T == NextAt(path, Dot, 1)
           m == Min(T)
           n == Len(path)
<1>0. n \in Nat /\ 1 \in Nat /\ 1 >= 1
  OBVIOUS
<1>1. Split(path) = IF T = {} THEN 0 ELSE IF m \in {1, n} THEN 0 ELSE m
  BY DEF Split
<1>2. CASE T = {}
  <2>1. \A i \in 1..n : path[i] # Dot
    BY <1>2 DEF NextAt
  <2> QED
    BY <1>0, <1>1, <1>2, <2>1
<1>3. CASE T # {}
  <2>1. m \in 1..n /\ path[m] = Dot /\ \A k \in 1..(m - 1) : path[k] # Dot
    BY <1>0, <1>3, FirstAt
  <2> HIDE DEF T, m, n
  <2>2. Split(path) = IF m \in {1, n} THEN 0 ELSE m
    BY <1>1, <1>3
  <2>3. ASSUME Split(path) = 2 PROVE n >= 3 /\ path[1] # Dot /\ path[2] = Dot
    <3>1. m = 2 /\ m # n
      BY <2>2, <2>3
    <3>2. 1 \in 1..(m - 1)
      BY <3>1
    <3> QED
      BY <1>0, <2>1, <3>1, <3>2
  <2>4. ASSUME n >= 3, path[1] # Dot, path[2] = Dot PROVE Split(path) = 2
    <3>1. m # 1
      BY <2>1, <2>4
    <3>2. ~(2 \in 1..(m - 1))
      BY <2>1, <2>4
    <3>3. m = 2
      BY <1>0, <2>1, <3>1, <3>2
    <3> QED
      BY <1>0, <2>2, <2>4, <3>3
  <2> QED
    BY <2>3, <2>4 DEF n
<1> QED
  BY <1>2, <1>3

\* The symbols of a part of a string.
LEMMA PartOf ==
    ASSUME NEW s \in Seq(Symbols), NEW i \in Nat, NEW j \in Nat, i >= 1, i <= j + 1, j <= Len(s)
    PROVE  /\ SubSeq(s, i, j) \in Seq(Symbols) /\ Len(SubSeq(s, i, j)) = j - i + 1
           /\ \A k \in 1..(j - i + 1) : SubSeq(s, i, j)[k] = s[i + k - 1]
<1>1. \A k \in i..j : s[k] \in Symbols
  <2>1. \A k \in i..j : k \in 1..Len(s)
    OBVIOUS
  <2> QED
    BY <2>1
<1> QED
  BY <1>1, SubSeqProperties

\* The pattern, without what it captures.
LEMMA PatternAtIs ==
    ASSUME NEW s \in Seq(Symbols), NEW i \in 1..Len(s), NEW j
    PROVE  j \in PatternAt(s, i) <=> j \in 1..Len(s) /\ PatternedAt(s, i, j)
<1> DEFINE path == SubSeq(s, i + 1, j - 1)
<1>0. Len(s) \in Nat
  OBVIOUS
<1>1. CASE j \in (i + 3)..Len(s)
  <2>0. i + 1 \in Nat /\ j - 1 \in Nat /\ i + 1 >= 1 /\ i + 1 <= (j - 1) + 1 /\ j - 1 <= Len(s)
        /\ (j - 1) - (i + 1) + 1 = j - i - 1
    BY <1>0, <1>1
  <2>1. path \in Seq(Symbols) /\ Len(path) = j - i - 1 /\ \A k \in 1..(j - i - 1) : path[k] = s[(i + 1) + k - 1]
    <3>1. /\ path \in Seq(Symbols) /\ Len(path) = (j - 1) - (i + 1) + 1
          /\ \A k \in 1..((j - 1) - (i + 1) + 1) : path[k] = s[(i + 1) + k - 1]
      BY <2>0, PartOf
    <3> QED
      BY <2>0, <3>1
  <2>2. path[1] = s[i + 1] /\ path[2] = s[i + 2]
    <3>1. 1 \in 1..(j - i - 1) /\ 2 \in 1..(j - i - 1) /\ (i + 1) + 1 - 1 = i + 1 /\ (i + 1) + 2 - 1 = i + 2
      BY <1>1
    <3> HIDE DEF path
    <3> QED
      BY <2>1, <3>1
  <2> HIDE DEF path
  <2>3. Split(path) = 2 <=> j - i - 1 >= 3 /\ s[i + 1] # Dot /\ s[i + 2] = Dot
    BY <2>1, <2>2, SplitTwo
  <2>4. (j - i - 1 >= 3 <=> i + 4 <= j) /\ j \in 1..Len(s)
    BY <1>0, <1>1
  <2> DEFINE plain == \A k \in (i + 1)..(j - 1) : s[k] \notin {Open, Close}
  <2>6. PatternedAt(s, i, j) <=>
          i + 4 <= j /\ s[i] = Open /\ s[i + 1] \in Identifiers /\ s[i + 2] = Dot /\ s[j] = Close /\ plain
    BY DEF PatternedAt
  <2>7. j \in PatternAt(s, i) <=> s[i] = Open /\ s[i + 1] \in Identifiers /\ s[j] = Close /\ plain /\ Split(path) = 2
    BY <1>1 DEF PatternAt, path
  <2>8. s[i + 1] \in Identifiers => s[i + 1] # Dot
    BY SymbolAssumption
  <2> HIDE DEF plain
  <2> QED
    BY <2>3, <2>4, <2>6, <2>7, <2>8
<1>2. CASE j \notin (i + 3)..Len(s)
  <2>1. j \notin PatternAt(s, i)
    BY <1>2 DEF PatternAt
  <2>2. ~(j \in 1..Len(s) /\ i + 4 <= j)
    BY <1>0, <1>2
  <2> QED
    BY <2>1, <2>2 DEF PatternedAt
<1> QED
  BY <1>1, <1>2

\* What the patterns of a string are.
LEMMA PatternsIs ==
    ASSUME NEW s \in Seq(Symbols)
    PROVE  /\ \A i, j \in 1..Len(s) : PatternedAt(s, i, j) => <<i, j>> \in Patterns(s)
           /\ \A span \in Patterns(s) : /\ span = <<span[1], span[2]>> /\ span[1] \in 1..Len(s)
                                        /\ span[2] \in 1..Len(s) /\ PatternedAt(s, span[1], span[2])
<1>1. DOMAIN s = 1..Len(s)
  OBVIOUS
<1> QED
  BY <1>1 DEF Patterns

\* The pattern at a place is unique, and FindAllStringSubmatchIndex finds it.
LEMMA FirstPattern ==
    ASSUME NEW s \in Seq(Symbols), NEW i \in 1..Len(s)
    PROVE  /\ PatternAt(s, i) = {} => \A span \in Patterns(s) : span[1] # i
           /\ PatternAt(s, i) # {} => /\ <<i, Min(PatternAt(s, i))>> \in Patterns(s)
                                      /\ Min(PatternAt(s, i)) \in (i + 1)..Len(s)
<1> DEFINE T == PatternAt(s, i)
           m == Min(T)
<1>0. Len(s) \in Nat
  OBVIOUS
<1>1. \A j : j \in T <=> j \in 1..Len(s) /\ PatternedAt(s, i, j)
  BY PatternAtIs
<1> HIDE DEF T
<1>2. ASSUME T = {}, NEW span \in Patterns(s) PROVE span[1] # i
  BY <1>1, <1>2, PatternsIs
<1>3. ASSUME T # {} PROVE <<i, m>> \in Patterns(s) /\ m \in (i + 1)..Len(s)
  <2>1. T \in SUBSET (1..Len(s))
    BY <1>1
  <2>2. m \in T
    BY <1>0, <1>3, <2>1, FirstPlace
  <2> HIDE DEF m
  <2>3. m \in 1..Len(s) /\ PatternedAt(s, i, m)
    BY <1>1, <2>2
  <2>4. i + 4 <= m
    BY <2>3 DEF PatternedAt
  <2> QED
    BY <1>0, <2>3, <2>4, PatternsIs
<1> QED
  BY <1>2, <1>3 DEF T

\* Patterns do not overlap.
LEMMA PatternsApart ==
    ASSUME NEW s \in Seq(Symbols), NEW a \in Patterns(s), NEW b \in Patterns(s)
    PROVE  a = b \/ a[2] < b[1] \/ b[2] < a[1]
<1>0. Len(s) \in Nat /\ Open # Close
  BY DEF Open, Close
<1>1. \A x \in Patterns(s) :
        /\ x = <<x[1], x[2]>> /\ x[1] \in 1..Len(s) /\ x[2] \in 1..Len(s) /\ x[1] + 4 <= x[2]
        /\ s[x[1]] = Open /\ s[x[2]] = Close /\ \A k \in (x[1] + 1)..(x[2] - 1) : s[k] # Open /\ s[k] # Close
  BY PatternsIs DEF PatternedAt
<1>2. ASSUME NEW x \in Patterns(s), NEW y \in Patterns(s), x[1] <= y[1] PROVE x = y \/ x[2] < y[1]
  <2> DEFINE i == x[1]
             j == x[2]
             k == y[1]
             l == y[2]
  <2>1. /\ x = <<i, j>> /\ i \in 1..Len(s) /\ j \in 1..Len(s) /\ i < j /\ s[i] = Open
        /\ s[j] = Close /\ \A n \in (i + 1)..(j - 1) : s[n] # Open /\ s[n] # Close
    BY <1>1
  <2>2. /\ y = <<k, l>> /\ k \in 1..Len(s) /\ l \in 1..Len(s) /\ k < l /\ s[k] = Open
        /\ s[l] = Close /\ \A n \in (k + 1)..(l - 1) : s[n] # Open /\ s[n] # Close
    BY <1>1
  <2>3. i <= k
    BY <1>2
  <2> HIDE DEF i, j, k, l
  <2>4. CASE i = k
    <3>1. ~(j < l) /\ ~(l < j)
      BY <2>1, <2>2, <2>4
    <3>2. j = l
      BY <2>1, <2>2, <3>1
    <3> QED
      BY <2>1, <2>2, <2>4, <3>2
  <2>5. CASE i < k
    <3>1. ~(k \in (i + 1)..(j - 1)) /\ k # j
      BY <1>0, <2>1, <2>2
    <3>2. j < k
      BY <2>1, <2>2, <2>5, <3>1
    <3> QED
      BY <3>2 DEF j, k
  <2> QED
    BY <2>1, <2>2, <2>3, <2>4, <2>5
<1>3. a[1] <= b[1] \/ b[1] <= a[1]
  BY <1>1
<1> QED
  BY <1>2, <1>3

\* Some of the patterns of a string are spans to fill in.
LEMMA SomePatterns ==
    ASSUME NEW s \in Seq(Symbols), NEW spans \in SUBSET Patterns(s), NEW texts,
           \A span \in spans : texts[TemplateOf(s, span)] \in Seq(Symbols)
    PROVE  Apart(s, spans, texts)
<1>1. \A a \in spans : /\ a = <<a[1], a[2]>> /\ a[1] \in 1..Len(s) /\ a[2] \in 1..Len(s) /\ a[1] < a[2]
                       /\ texts[TemplateOf(s, a)] \in Seq(Symbols)
  <2> SUFFICES ASSUME NEW a \in spans
               PROVE  a = <<a[1], a[2]>> /\ a[1] \in 1..Len(s) /\ a[2] \in 1..Len(s) /\ a[1] < a[2]
    OBVIOUS
  <2>1. a = <<a[1], a[2]>> /\ a[1] \in 1..Len(s) /\ a[2] \in 1..Len(s) /\ PatternedAt(s, a[1], a[2])
    BY PatternsIs
  <2>2. a[1] + 4 <= a[2]
    BY <2>1 DEF PatternedAt
  <2> QED
    BY <2>1, <2>2
<1>2. \A a, b \in spans : a = b \/ a[2] < b[1] \/ b[2] < a[1]
  BY PatternsApart
<1> QED
  BY <1>1, <1>2 DEF Apart

\* The templates FindAllStringSubmatchIndex captures are those of the patterns.
LEMMA TemplatesAre ==
    ASSUME NEW s \in Seq(Symbols)
    PROVE  Templates(s) = {TemplateOf(s, span) : span \in Patterns(s)}
<1>0. DOMAIN s = 1..Len(s)
  OBVIOUS
<1>1. ASSUME NEW i \in DOMAIN s, NEW j \in PatternAt(s, i)
      PROVE  SubSeq(s, i + 1, j - 1) \in {TemplateOf(s, span) : span \in Patterns(s)}
  <2>1. j \in 1..Len(s) /\ PatternedAt(s, i, j)
    BY <1>0, PatternAtIs
  <2> DEFINE x == <<i, j>>
  <2>2. x \in Patterns(s)
    BY <1>0, <2>1, PatternsIs
  <2>3. x[1] = i /\ x[2] = j
    OBVIOUS
  <2> HIDE DEF x
  <2>4. TemplateOf(s, x) = SubSeq(s, i + 1, j - 1)
    BY <2>3, Zenon DEF TemplateOf
  <2> QED
    BY <2>2, <2>4
<1>2. ASSUME NEW span \in Patterns(s)
      PROVE  \E i \in DOMAIN s : \E j \in PatternAt(s, i) : TemplateOf(s, span) = SubSeq(s, i + 1, j - 1)
  <2> DEFINE i == span[1]
             j == span[2]
  <2>1. i \in DOMAIN s /\ j \in 1..Len(s) /\ PatternedAt(s, i, j)
    BY <1>0, PatternsIs
  <2>2. TemplateOf(s, span) = SubSeq(s, i + 1, j - 1)
    BY DEF TemplateOf
  <2> HIDE DEF i, j
  <2>3. j \in PatternAt(s, i)
    BY <1>0, <2>1, PatternAtIs
  <2> QED
    BY <2>1, <2>2, <2>3
<1>3. \A t : t \in Templates(s) <=> \E i \in DOMAIN s : \E j \in PatternAt(s, i) : t = SubSeq(s, i + 1, j - 1)
  BY DEF Templates
<1>4. ASSUME NEW t \in Templates(s) PROVE t \in {TemplateOf(s, span) : span \in Patterns(s)}
  <2>1. PICK i \in DOMAIN s : \E j \in PatternAt(s, i) : t = SubSeq(s, i + 1, j - 1)
    BY <1>3, Zenon
  <2>2. PICK j \in PatternAt(s, i) : t = SubSeq(s, i + 1, j - 1)
    BY <2>1, Zenon
  <2> QED
    BY <1>1, <2>2, Zenon
<1>5. \A span \in Patterns(s) : TemplateOf(s, span) \in Templates(s)
  BY <1>2, <1>3, Zenon
<1> QED
  BY <1>4, <1>5, Zenon

\* A value that is one placeholder.
LEMMA OneTemplateIs ==
    ASSUME NEW s \in Seq(Symbols)
    PROVE  IsOneTemplate(s) <=> <<1, Len(s)>> \in Patterns(s)
<1> DEFINE n == Len(s)
           x == <<1, n>>
<1>1. n \in Nat /\ (s # <<>> <=> n >= 1) /\ x[1] = 1 /\ x[2] = n
  OBVIOUS
<1>2. IsOneTemplate(s) <=> s # <<>> /\ n \in PatternAt(s, 1)
  BY DEF IsOneTemplate
<1>3. x \in Patterns(s) => n >= 1 /\ PatternedAt(s, 1, n)
  <2> HIDE DEF x
  <2> QED
    BY <1>1, PatternsIs
<1>4. n >= 1 /\ PatternedAt(s, 1, n) => x \in Patterns(s)
  <2>1. n >= 1 => 1 \in 1..Len(s) /\ n \in 1..Len(s)
    BY <1>1
  <2> QED
    BY <2>1, PatternsIs
<1>5. n >= 1 => (n \in PatternAt(s, 1) <=> PatternedAt(s, 1, n))
  <2> SUFFICES ASSUME n >= 1 PROVE n \in PatternAt(s, 1) <=> PatternedAt(s, 1, n)
    OBVIOUS
  <2>1. 1 \in 1..Len(s) /\ n \in 1..Len(s)
    BY <1>1
  <2> HIDE DEF n
  <2> QED
    BY <2>1, PatternAtIs
<1> HIDE DEF x, n
<1> QED
  BY <1>1, <1>2, <1>3, <1>4, <1>5 DEF x, n

\* The builders of the environment and of instances write the text with the
\* templates replaced that they have a text for.
LEMMA WrittenIsFilled ==
    ASSUME NEW s \in Seq(Symbols), NEW texts, NEW spans,
           spans = {span \in Patterns(s) : TemplateOf(s, span) \in DOMAIN texts},
           \A t \in DOMAIN texts : texts[t] \in Seq(Symbols)
    PROVE  Written(s, texts) = Filled(s, spans, texts) /\ Written(s, texts) \in Seq(Symbols)
<1> DEFINE W == WrittenFrom(s, texts)
           L == Len(s)
           Free(i) == \A span \in Patterns(s) : ~(span[1] < i /\ i <= span[2])
<1>0. L \in Nat
  OBVIOUS
<1>1. Apart(s, spans, texts)
  <2>1. spans \in SUBSET Patterns(s) /\ \A span \in spans : texts[TemplateOf(s, span)] \in Seq(Symbols)
    OBVIOUS
  <2> QED
    BY <2>1, SomePatterns
<1>2. PICK f : IsFilling(f, s, spans, texts) /\ Filled(s, spans, texts) = f[L]
  BY <1>1, FillingExists
<1>f. IsFilling(f, s, spans, texts)
  BY <1>2
<1>3. f[0] = <<>> /\ \A n \in 0..L : f[n] \in Seq(Symbols)
  BY <1>f DEF IsFilling
<1>4. \A k \in 1..Len(s) : PatternAt(s, k) # {} => Min(PatternAt(s, k)) \in (k + 1)..Len(s)
  BY FirstPattern
<1>5. \A x \in Patterns(s) : x[1] \in 1..L /\ x[2] \in 1..L
  BY PatternsIs
<1> DEFINE Claim(i) == f[L] = Cat(f[i - 1], W[i]) /\ W[i] \in Seq(Symbols)
           S == {d \in Nat : \A i \in 1..(L + 1) : L + 1 - i <= d /\ Free(i) => Claim(i)}
<1>6. 0 \in S
  <2> SUFFICES ASSUME NEW i \in 1..(L + 1), L + 1 - i <= 0 PROVE Claim(i)
    OBVIOUS
  <2>1. i = Len(s) + 1 /\ i - 1 = L /\ L \in 0..L
    BY <1>0
  <2>2. W[i] = <<>>
    BY <1>0, <1>4, <2>1, WrittenUnfold
  <2>3. <<>> \in Seq(Symbols) /\ f[L] \in Seq(Symbols)
    BY <1>3, <2>1
  <2>4. Cat(f[L], <<>>) = f[L]
    BY <2>3, CatEmpty
  <2> HIDE DEF W
  <2> QED
    BY <2>1, <2>2, <2>3, <2>4
<1>7. ASSUME NEW d \in Nat, d \in S PROVE d + 1 \in S
  <2>0. \A i \in 1..(L + 1) : L + 1 - i <= d /\ Free(i) => Claim(i)
    BY <1>7
  <2> HIDE DEF Claim, S
  <2>1. SUFFICES ASSUME NEW i \in 1..(L + 1), L + 1 - i = d + 1, Free(i) PROVE Claim(i)
    <3>1. \A i \in 1..(L + 1) : L + 1 - i <= d + 1 => L + 1 - i <= d \/ L + 1 - i = d + 1
      BY <1>0
    <3> QED
      BY <2>0, <3>1 DEF S
  <2>2. i \in 1..Len(s) /\ i # Len(s) + 1 /\ i - 1 \in 0..Len(s) /\ i \in 0..L /\ i - 1 + 1 = i
    BY <1>0, <2>1
  <2>3. ASSUME NEW j \in i..L, NEW x \in Seq(Symbols), Free(j + 1),
               f[j] = Cat(f[i - 1], x), W[i] = Cat(x, W[j + 1])
        PROVE  Claim(i)
    <3>1. j + 1 \in 1..(L + 1) /\ L + 1 - (j + 1) <= d /\ j + 1 - 1 = j
      BY <1>0, <2>1
    <3>2. f[L] = Cat(f[j + 1 - 1], W[j + 1]) /\ W[j + 1] \in Seq(Symbols)
      <4> HIDE DEF Free
      <4>1. Claim(j + 1)
        BY <2>0, <2>3, <3>1
      <4> QED
        BY <4>1 DEF Claim
    <3> DEFINE y == W[j + 1]
               z == f[i - 1]
    <3>3. y \in Seq(Symbols) /\ z \in Seq(Symbols) /\ f[L] = Cat(f[j], y)
      BY <1>3, <2>2, <3>1, <3>2
    <3>4. f[j] = Cat(z, x) /\ W[i] = Cat(x, y)
      BY <2>3
    <3> HIDE DEF y, z, W
    <3>5. Cat(Cat(z, x), y) = Cat(z, Cat(x, y)) /\ Cat(x, y) \in Seq(Symbols)
      BY <3>3, ConcatThree, CatIsString
    <3>6. f[L] = Cat(z, W[i]) /\ W[i] \in Seq(Symbols)
      BY <3>3, <3>4, <3>5
    <3> QED
      BY <3>6 DEF Claim, z
  <2>4. CASE PatternAt(s, i) = {}
    <3>1. W[i] = Cat(<<s[i]>>, W[i + 1])
      <4>1. i \in 1..(Len(s) + 1) /\ Len(s) \in Nat
        BY <1>0, <2>2
      <4> HIDE DEF L
      <4> QED
        BY <1>4, <2>2, <2>4, <4>1, WrittenUnfold
    <3>2. \A span \in Patterns(s) : span[1] # i
      BY <2>2, <2>4, FirstPattern
    <3>3. Free(i + 1)
      <4> SUFFICES ASSUME NEW span \in Patterns(s), span[1] < i + 1, i + 1 <= span[2] PROVE FALSE
        OBVIOUS
      <4>1. span[1] # i /\ span[1] \in Nat /\ span[2] \in Nat /\ ~(span[1] < i /\ i <= span[2])
        BY <1>5, <2>1, <3>2
      <4> QED
        BY <2>2, <4>1
    <3>4. \A span \in spans : span[2] <= i - 1 \/ i < span[1]
      <4> SUFFICES ASSUME NEW span \in spans PROVE span[2] <= i - 1 \/ i < span[1]
        OBVIOUS
      <4>0. span \in Patterns(s)
        OBVIOUS
      <4>1. span[1] # i /\ span[1] \in Nat /\ span[2] \in Nat /\ ~(span[1] < i /\ i <= span[2])
        BY <1>5, <2>1, <3>2, <4>0
      <4> QED
        BY <2>2, <4>1
    <3>5. f[i] = Cat(f[i - 1], SubSeq(s, i - 1 + 1, i))
      <4>1. i \in (i - 1)..Len(s)
        BY <1>0, <2>2
      <4> QED
        BY <1>1, <1>f, <2>2, <3>4, <4>1, FillGap
    <3>6. SubSeq(s, i - 1 + 1, i) = <<s[i]>> /\ <<s[i]>> \in Seq(Symbols)
      <4>1. s[i] \in Symbols
        BY <2>2
      <4>2. SubSeq(s, i, i) = <<s[i]>>
        <5> DEFINE t == SubSeq(s, i, i)
        <5>1. t \in Seq(Symbols) /\ Len(t) = i - i + 1 /\ \A k \in 1..(i - i + 1) : t[k] = s[i + k - 1]
          BY <1>0, <2>2, PartOf
        <5>2. i - i + 1 = 1 /\ 1 \in 1..(i - i + 1) /\ i + 1 - 1 = i
          BY <2>2
        <5> HIDE DEF t
        <5>3. Len(t) = 1 /\ t[1] = s[i]
          BY <5>1, <5>2
        <5>4. t = <<s[i]>>
          BY <5>1, <5>3
        <5> QED
          BY <5>4 DEF t
      <4> QED
        BY <2>2, <4>1, <4>2
    <3>7. i \in i..L
      BY <1>0, <2>2
    <3> HIDE DEF W, Free
    <3> QED
      BY <2>3, <3>1, <3>3, <3>5, <3>6, <3>7
  <2>5. CASE PatternAt(s, i) # {}
    <3> DEFINE j == Min(PatternAt(s, i))
               span == <<i, j>>
               template == SubSeq(s, i + 1, j - 1)
               x == IF template \in DOMAIN texts THEN texts[template] ELSE SubSeq(s, i, j)
    <3>1. span \in Patterns(s) /\ j \in (i + 1)..Len(s)
      BY <2>2, <2>5, FirstPattern
    <3>2. W[i] = Cat(x, W[j + 1])
      BY <1>0, <1>4, <2>2, <2>5, WrittenUnfold
    <3> HIDE DEF j
    <3>3. span[1] = i /\ span[2] = j /\ j \in i..L /\ j \in Nat
      BY <1>0, <2>2, <3>1
    <3> HIDE DEF span
    <3>4. TemplateOf(s, span) = template
      BY <3>3, Zenon DEF TemplateOf
    <3>5. \A y \in Patterns(s) : y = span \/ y[2] < i \/ j < y[1]
      BY <3>1, <3>3, PatternsApart
    <3>6. Free(j + 1)
      <4> SUFFICES ASSUME NEW y \in Patterns(s), y[1] < j + 1, j + 1 <= y[2] PROVE FALSE
        OBVIOUS
      <4>1. (y = span \/ y[2] < i \/ j < y[1]) /\ y[1] \in Nat /\ y[2] \in Nat
        BY <1>5, <3>5
      <4> QED
        BY <2>2, <3>3, <4>1
    <3> HIDE DEF template, W, Free
    <3>7. CASE template \in DOMAIN texts
      <4>1. span \in spans
        BY <3>1, <3>4, <3>7
      <4>2. f[span[2]] = Cat(f[span[1] - 1], texts[TemplateOf(s, span)])
        BY <1>1, <1>f, <4>1, FillToken
      <4>3. x = texts[template] /\ x \in Seq(Symbols)
        BY <3>7
      <4>4. f[j] = Cat(f[i - 1], x)
        BY <3>3, <3>4, <4>2, <4>3
      <4> HIDE DEF x
      <4> QED
        BY <2>3, <3>2, <3>3, <3>6, <4>3, <4>4
    <3>8. CASE template \notin DOMAIN texts
      <4>1. x = SubSeq(s, i, j)
        BY <3>8
      <4>2. SubSeq(s, i, j) \in Seq(Symbols)
        BY <1>0, <2>2, <3>3, PartOf
      <4>3. \A y \in spans : y[2] <= i - 1 \/ j < y[1]
        <5> SUFFICES ASSUME NEW y \in spans PROVE y[2] <= i - 1 \/ j < y[1]
          OBVIOUS
        <5>1. y \in Patterns(s) /\ y # span
          BY <3>4, <3>8
        <5>2. (y[2] < i \/ j < y[1]) /\ y[2] \in Nat
          BY <1>5, <3>5, <5>1
        <5> QED
          BY <2>2, <5>2
      <4>4. f[j] = Cat(f[i - 1], SubSeq(s, i - 1 + 1, j))
        <5>1. j \in (i - 1)..Len(s)
          BY <1>0, <2>2, <3>3
        <5>2. i - 1 \in 0..Len(s)
          BY <2>2
        <5> HIDE DEF L, x
        <5> QED
          BY <1>1, <1>f, <4>3, <5>1, <5>2, FillGap
      <4>5. f[j] = Cat(f[i - 1], x)
        BY <2>2, <4>1, <4>4
      <4> HIDE DEF x
      <4> QED
        BY <2>3, <3>2, <3>3, <3>6, <4>1, <4>2, <4>5
    <3> QED
      BY <3>7, <3>8
  <2> QED
    BY <2>4, <2>5
<1>8. Nat \subseteq S
  <2> HIDE DEF S
  <2> QED
    BY <1>6, <1>7, SetInduction
<1>9. Claim(1)
  <2>1. 1 \in 1..(L + 1) /\ L + 1 - 1 <= L
    BY <1>0
  <2>2. Free(1)
    <3> SUFFICES ASSUME NEW span \in Patterns(s) PROVE ~(span[1] < 1 /\ 1 <= span[2])
      OBVIOUS
    <3> QED
      BY <1>5
  <2>3. L \in S
    <3> HIDE DEF S
    <3> QED
      BY <1>0, <1>8
  <2> HIDE DEF Free, Claim
  <2> QED
    BY <2>1, <2>2, <2>3
<1>10. f[L] = Cat(f[0], W[1]) /\ W[1] \in Seq(Symbols)
  <2>1. 1 - 1 = 0
    OBVIOUS
  <2> QED
    BY <1>9, <2>1
<1>11. Written(s, texts) = W[1]
  BY DEF Written
<1> HIDE DEF W, L
<1>12. Cat(<<>>, W[1]) = W[1]
  BY <1>10, CatEmpty
<1> QED
  BY <1>2, <1>3, <1>10, <1>11, <1>12

-----------------------------------------------------------------------------
(***************************************************************************)
(* Compiling: the placeholders of the environment.                         *)
(***************************************************************************)

\* Without placeholders of its own grammar a well formed string has no pattern.
LEMMA NoPlaceholderNoPattern ==
    ASSUME NEW s \in Seq(Symbols), WellFormed(s), Placed(s) = {}
    PROVE  Patterns(s) = {}
<1> SUFFICES ASSUME NEW x \in Patterns(s) PROVE FALSE
  OBVIOUS
<1> DEFINE i == x[1]
           j == x[2]
           opens == NextAt(s, Open, 1)
           start == Min(opens)
           closes == NextAt(s, Close, start + 1)
<1>0. Len(s) \in Nat /\ 1 \in 1..(Len(s) + 1) /\ 1 - 1 = 0 /\ ~InsideUpTo(s)[0]
  BY InsideUnfold
<1>1. i \in 1..Len(s) /\ j \in 1..Len(s) /\ i < j /\ s[i] = Open /\ s[j] = Close
  <2>1. i \in 1..Len(s) /\ j \in 1..Len(s) /\ PatternedAt(s, i, j)
    BY PatternsIs
  <2> HIDE DEF i, j
  <2> QED
    BY <2>1 DEF PatternedAt
<1> HIDE DEF i, j
<1>2. i \in opens
  BY <1>1 DEF NextAt
<1>3. start \in 1..Len(s) /\ \A y \in opens : start <= y
  <2>1. opens \in SUBSET (1..Len(s))
    BY DEF NextAt
  <2> HIDE DEF opens
  <2>2. start \in opens /\ \A y \in opens : start <= y
    BY <1>0, <1>2, <2>1, FirstPlace
  <2> QED
    BY <2>1, <2>2
<1>4. j \in closes
  <2> HIDE DEF start, opens
  <2>1. start <= i /\ start \in Nat
    BY <1>2, <1>3
  <2>2. j \in (start + 1)..Len(s)
    BY <1>1, <2>1
  <2> QED
    BY <1>1, <2>2 DEF NextAt
<1>5. opens # {} /\ closes # {}
  BY <1>2, <1>4
<1>6. <<start, Min(closes)>> \in Placed(s)
  <2>1. 1 \in 1..(Len(s) + 1) /\ ~InsideUpTo(s)[1 - 1]
    BY <1>0
  <2> QED
    BY <1>5, <2>1, NextPlaced
<1> QED
  BY <1>6

\* A string in which nothing is replaced stays as it is.
LEMMA NothingFilled ==
    ASSUME NEW s \in Seq(Symbols), NEW texts
    PROVE  Filled(s, {}, texts) = s
<1>1. Apart(s, {}, texts)
  BY DEF Apart
<1>2. PICK f : IsFilling(f, s, {}, texts) /\ Filled(s, {}, texts) = f[Len(s)]
  BY <1>1, FillingExists
<1>3. IsFilling(f, s, {}, texts)
  BY <1>2
<1>4. Len(s) \in Nat /\ 0 \in 0..Len(s) /\ Len(s) \in 0..Len(s) /\ 0 + 1 = 1
  OBVIOUS
<1> DEFINE none == {}
<1>5. IsFilling(f, s, none, texts) /\ Apart(s, none, texts) /\ \A x \in none : x[2] <= 0 \/ Len(s) < x[1]
  BY <1>1, <1>3
<1> HIDE DEF none
<1>6. f[Len(s)] = Cat(f[0], SubSeq(s, 0 + 1, Len(s)))
  BY <1>4, <1>5, FillGap
<1>7. f[0] = <<>>
  BY <1>3 DEF IsFilling
<1>8. SubSeq(s, 1, Len(s)) = s /\ Cat(<<>>, s) = s
  BY SubSeqFull, CatEmpty
<1> QED
  BY <1>2, <1>4, <1>6, <1>7, <1>8

\* What the template of a pattern is.
LEMMA PatternTemplate ==
    ASSUME NEW s \in Seq(Symbols), NEW span \in Patterns(s)
    PROVE  TemplateOf(s, span) \in Seq(Symbols) /\ TemplateOf(s, span)[1] = s[span[1] + 1]
<1> DEFINE i == span[1]
           j == span[2]
           t == SubSeq(s, i + 1, j - 1)
<1>1. i \in 1..Len(s) /\ j \in 1..Len(s) /\ i + 4 <= j /\ Len(s) \in Nat
  <2>1. i \in 1..Len(s) /\ j \in 1..Len(s) /\ PatternedAt(s, i, j)
    BY PatternsIs
  <2> HIDE DEF i, j
  <2> QED
    BY <2>1 DEF PatternedAt
<1>2. TemplateOf(s, span) = t
  BY DEF TemplateOf
<1> HIDE DEF i, j
<1>3. /\ i + 1 \in Nat /\ j - 1 \in Nat /\ i + 1 >= 1 /\ i + 1 <= (j - 1) + 1 /\ j - 1 <= Len(s)
      /\ 1 \in 1..((j - 1) - (i + 1) + 1) /\ (i + 1) + 1 - 1 = i + 1
  BY <1>1
<1>4. t \in Seq(Symbols) /\ \A k \in 1..((j - 1) - (i + 1) + 1) : t[k] = s[(i + 1) + k - 1]
  BY <1>3, PartOf
<1> HIDE DEF t
<1>5. t[1] = s[i + 1]
  BY <1>3, <1>4
<1> QED
  BY <1>2, <1>4, <1>5 DEF i

\* The templates of the environment.
LEMMA EnvTemplatesAre ==
    ASSUME NEW s \in Seq(Symbols)
    PROVE  /\ EnvTemplates(s) = {TemplateOf(s, span) : span \in EnvSpans(s)}
           /\ EnvSpans(s) = {span \in Patterns(s) : TemplateOf(s, span) \in EnvTemplates(s)}
<1>1. \A span \in Patterns(s) : TemplateOf(s, span)[1] = s[span[1] + 1]
  BY PatternTemplate
<1>2. \A t : t \in EnvTemplates(s) <=> \E span \in Patterns(s) : t = TemplateOf(s, span) /\ t[1] = "env"
  BY TemplatesAre DEF EnvTemplates
<1>3. \A span : span \in EnvSpans(s) <=> span \in Patterns(s) /\ s[span[1] + 1] = "env"
  BY DEF EnvSpans
<1>4. \A span : span \in EnvSpans(s) <=> span \in Patterns(s) /\ TemplateOf(s, span)[1] = "env"
  BY <1>1, <1>3
<1>5. \A span \in Patterns(s) : TemplateOf(s, span) \in EnvTemplates(s) <=> TemplateOf(s, span)[1] = "env"
  BY <1>2
<1>6. \A t : t \in EnvTemplates(s) <=> \E span \in EnvSpans(s) : t = TemplateOf(s, span)
  BY <1>2, <1>4, Zenon
<1> QED
  BY <1>4, <1>5, <1>6, Zenon

\* resolveStaticEnvironmentString replaces the placeholders of the environment, and
\* what it makes is a value again.
LEMMA ValueAfterEnv ==
    ASSUME NEW v, IsValue(v)
    PROVE  /\ EnvResolves(v, Environment) <=> EnvKnown(v)
           /\ EnvKnown(v) => ResolveStaticString(v, Environment) = AfterEnv(v) /\ IsValue(AfterEnv(v))
<1>1. CASE v.type # "string"
  BY <1>1 DEF EnvResolves, EnvKnown, ResolveStaticString, AfterEnv
<1>2. CASE v.type = "string"
  <2> DEFINE s == v.value
             T == {TemplateOf(s, span) : span \in EnvSpans(s)}
             texts == [t \in T |-> Text(Environment[EnvName(t)])]
             n == Len(s)
             x == <<1, n>>
  <2>1. s \in Seq(Symbols)
    BY <1>2, ValueIsString
  <2>2. EnvTemplates(s) = T /\ EnvSpans(s) = {span \in Patterns(s) : TemplateOf(s, span) \in T}
    BY <2>1, EnvTemplatesAre
  <2> HIDE DEF s
  <2>3. EnvResolves(v, Environment) <=> \A t \in T : EnvName(t) \in DOMAIN Environment
    BY <1>2, <2>2 DEF EnvResolves, s
  <2>4. EnvKnown(v) <=> \A t \in T : EnvName(t) \in DOMAIN Environment
    BY <1>2 DEF EnvKnown, s
  <2>5. ASSUME EnvKnown(v)
        PROVE  ResolveStaticString(v, Environment) = AfterEnv(v) /\ IsValue(AfterEnv(v))
    <3>1. \A t \in T : IsValue(Environment[EnvName(t)])
      BY <2>4, <2>5, ValueAssumption
    <3>2. \A t \in T : Text(Environment[EnvName(t)]) \in Seq(Symbols)
      BY <3>1 DEF IsValue
    <3> HIDE DEF T
    <3>3. DOMAIN texts = T /\ \A t \in DOMAIN texts : texts[t] \in Seq(Symbols)
      BY <3>2
    <3>4. ResolveStaticString(v, Environment) =
            IF IsOneTemplate(s) /\ s[2] = "env" THEN Environment[EnvName(SubSeq(s, 2, n - 1))]
            ELSE Str(Written(s, texts))
      BY <1>2, <2>2 DEF ResolveStaticString, s
    <3>5. AfterEnv(v) = IF x \in EnvSpans(s) THEN Environment[EnvName(TemplateOf(s, x))]
                        ELSE Str(Filled(s, EnvSpans(s), texts))
      BY <1>2 DEF AfterEnv, s, T
    <3> HIDE DEF texts
    <3>6. Written(s, texts) = Filled(s, EnvSpans(s), texts) /\ Written(s, texts) \in Seq(Symbols)
      BY <2>1, <2>2, <3>3, WrittenIsFilled
    <3>7. x[1] = 1 /\ x[2] = n /\ x[1] + 1 = 2
      OBVIOUS
    <3>8. IsOneTemplate(s) <=> x \in Patterns(s)
      BY <2>1, OneTemplateIs
    <3> HIDE DEF x
    <3>9. TemplateOf(s, x) = SubSeq(s, 2, n - 1)
      BY <3>7, Zenon DEF TemplateOf
    <3>10. x \in EnvSpans(s) <=> IsOneTemplate(s) /\ s[2] = "env"
      BY <3>7, <3>8 DEF EnvSpans
    <3>11. ResolveStaticString(v, Environment) = AfterEnv(v)
      BY <3>4, <3>5, <3>6, <3>9, <3>10
    <3>12. CASE x \in EnvSpans(s)
      <4>1. TemplateOf(s, x) \in T
        BY <3>12 DEF T
      <4> QED
        BY <3>1, <3>5, <3>11, <3>12, <4>1
    <3>13. CASE x \notin EnvSpans(s)
      <4> DEFINE r == Written(s, texts)
      <4>1. AfterEnv(v) = Str(r) /\ r \in Seq(Symbols)
        BY <3>5, <3>6, <3>13
      <4> HIDE DEF r
      <4>2. IsValue(Str(r))
        BY <4>1 DEF IsValue, Str, Text
      <4> QED
        BY <3>11, <4>1, <4>2
    <3> QED
      BY <3>12, <3>13
  <2> QED
    BY <2>3, <2>4, <2>5
<1> QED
  BY <1>1, <1>2

\* A string without placeholders stays as it is.
LEMMA PlainAfterEnv ==
    ASSUME NEW v, IsValue(v), v.type = "string", WellFormed(v.value), Placed(v.value) = {}
    PROVE  AfterEnv(v) = v
<1> DEFINE s == v.value
           T == {TemplateOf(s, span) : span \in EnvSpans(s)}
           texts == [t \in T |-> Text(Environment[EnvName(t)])]
<1>1. s \in Seq(Symbols)
  BY ValueIsString
<1>2. EnvSpans(s) = {}
  BY <1>1, NoPlaceholderNoPattern DEF EnvSpans
<1>3. AfterEnv(v) = Str(Filled(s, EnvSpans(s), texts))
  BY <1>2 DEF AfterEnv
<1> HIDE DEF texts
<1>4. Filled(s, {}, texts) = s
  BY <1>1, NothingFilled
<1>5. v = Str(s)
  BY DEF IsValue, Str
<1> QED
  BY <1>2, <1>3, <1>4, <1>5

-----------------------------------------------------------------------------
(***************************************************************************)
(* Executing: the other placeholders.                                      *)
(***************************************************************************)

\* What a placeholder stands for in a running step.
ValueOf(t) == Lookup(t, RunContexts, Resolvers)

\* resolvePlaceholderValue gives a value or fails.
LEMMA LookupGivesValues ==
    ASSUME NEW t
    PROVE  /\ IsValue(ValueOf(t)) \/ ValueOf(t) = Bad("resolver")
           /\ ValueOf(t).type # "error" => Text(ValueOf(t)) \in Seq(Symbols)
           /\ ValueOf(t).type = "error" => ValueOf(t) = Bad("resolver")
<1> DEFINE path == SubSeq(t, 3, Len(t))
           v == ValueOf(t)
<1>1. \/ v = Bad("resolver")
      \/ \E x \in DOMAIN Resolvers : v = Resolvers[x]
      \/ \E x \in DOMAIN RunContexts : \E n \in DOMAIN RunContexts[x] : v = RunContexts[x][n]
      \/ v = Nil
  <2> DEFINE y == t[1]
             none == Split(t) # 2
  <2>1. v = IF none \/ y \notin DOMAIN RunContexts \cup DOMAIN Resolvers THEN Bad("resolver")
            ELSE IF y \notin DOMAIN RunContexts THEN Resolvers[y]
            ELSE IF path \in DOMAIN RunContexts[y] THEN RunContexts[y][path] ELSE Nil
    BY DEF Lookup, ValueOf
  <2> HIDE DEF y, none, path, v
  <2> QED
    BY <2>1
<1>2. IsValue(Nil)
  <2>1. Nil.type = "nil" /\ Nil.value = <<>> /\ Nil = [type |-> Nil.type, value |-> Nil.value]
    BY DEF Nil
  <2>2. Text(Nil) = <<>>
    BY <2>1 DEF Text
  <2>3. <<>> \in Seq(Symbols)
    OBVIOUS
  <2> QED
    BY <2>1, <2>2, <2>3 DEF IsValue
<1> HIDE DEF v
<1>3. IsValue(v) \/ v = Bad("resolver")
  BY <1>1, <1>2, ValueAssumption DEF IsResolver
<1>4. IsValue(v) => v.type # "error" /\ Text(v) \in Seq(Symbols)
  BY DEF IsValue
<1>5. Bad("resolver").type = "error"
  BY DEF Bad
<1> QED
  BY <1>3, <1>4, <1>5 DEF v

\* The meaning of a string with placeholders, for a type.
Means(s, type) ==
    LET templates == {TemplateOf(s, span) : span \in Placed(s)}
        native == ValueOf(TemplateOf(s, <<1, Len(s)>>))
    IN  IF \E t \in templates : ValueOf(t).type = "error" THEN Bad("resolver")
        ELSE IF Whole(s) /\ (type = "" \/ (type \in {"object", "array"} /\ native.type = type)) THEN native
        ELSE Convert(Filled(s, Placed(s), [t \in templates |-> Text(ValueOf(t))]), type, Literals)

\* resolveStepVariable gives the meaning of the string, with the offsets that were
\* found in it.
LEMMA VariableMeans ==
    ASSUME NEW s \in Seq(Symbols), NEW var, Listed(s, var.placeholders, 1),
           IsExact(s, var.placeholders) <=> Whole(s)
    PROVE  ResolveVariable(s, var, RunContexts, Resolvers, Literals) = Means(s, var.type)
<1> DEFINE ps == var.placeholders
           T == {TemplateOf(s, span) : span \in Placed(s)}
           texts == [t \in T |-> Text(ValueOf(t))]
           values == [i \in DOMAIN ps |-> Lookup(ps[i].template, RunContexts, Resolvers)]
           x == <<1, Len(s)>>
           native == ValueOf(TemplateOf(s, x))
           cut == \E i \in DOMAIN ps : \/ ps[i].startsAt < (IF i = 1 THEN 1 ELSE ps[i - 1].endsAt)
                                       \/ ps[i].endsAt > Len(s) + 1
           asIs == \/ values[1].type = "error" \/ var.type = ""
                   \/ values[1].type = var.type /\ var.type \in {"object", "array"}
           failed == \E i \in DOMAIN ps : values[i].type = "error"
<1>1. /\ ps \in Seq([template : Seq(Symbols), startsAt : Nat, endsAt : Nat])
      /\ \A k \in 1..Len(ps) : <<ps[k].startsAt, ps[k].endsAt - 1>> \in Placed(s)
      /\ \A k \in 1..Len(ps) : ps[k].template = SubSeq(s, ps[k].startsAt + 1, ps[k].endsAt - 1 - 1)
      /\ \A k \in 1..Len(ps) : ps[k].startsAt >= IF k = 1 THEN 1 ELSE ps[k - 1].endsAt
      /\ \A span \in Placed(s) : span[1] >= 1 =>
           \E k \in 1..Len(ps) : span = <<ps[k].startsAt, ps[k].endsAt - 1>>
  <2> HIDE DEF ps
  <2>1. Listed(s, ps, 1)
    BY DEF ps
  <2> QED
    BY <2>1, Zenon DEF Listed
<1>2. ResolveVariable(s, var, RunContexts, Resolvers, Literals) =
        IF IsExact(s, ps) /\ asIs THEN values[1]
        ELSE IF cut THEN Bad("offsets") ELSE IF failed THEN Bad("resolver")
        ELSE Convert(Replaced(s, ps, values), var.type, Literals)
  BY DEF ResolveVariable
<1>3. Means(s, var.type) =
        IF \E t \in T : ValueOf(t).type = "error" THEN Bad("resolver")
        ELSE IF Whole(s) /\ (var.type = "" \/ (var.type \in {"object", "array"} /\ native.type = var.type)) THEN native
        ELSE Convert(Filled(s, Placed(s), texts), var.type, Literals)
  BY DEF Means
<1>l. Listed(s, ps, 1) /\ (IsExact(s, ps) <=> Whole(s))
  OBVIOUS
<1> DEFINE type == var.type
<1> HIDE DEF ps, type
<1>4. DOMAIN ps = 1..Len(ps) /\ Len(ps) \in Nat
  BY <1>1
<1>5. \A k \in 1..Len(ps) : /\ ps[k].startsAt \in Nat /\ ps[k].endsAt \in Nat /\ ps[k].endsAt <= Len(s) + 1
  BY <1>l, TokenStands
<1>6. ~cut
  <2> SUFFICES ASSUME NEW i \in DOMAIN ps
               PROVE  ~(ps[i].startsAt < (IF i = 1 THEN 1 ELSE ps[i - 1].endsAt)) /\ ~(ps[i].endsAt > Len(s) + 1)
    OBVIOUS
  <2>1. i \in 1..Len(ps) /\ (i # 1 => i - 1 \in 1..Len(ps))
    BY <1>4
  <2>2. ps[i].startsAt >= IF i = 1 THEN 1 ELSE ps[i - 1].endsAt
    BY <1>1, <2>1
  <2>3. (IF i = 1 THEN 1 ELSE ps[i - 1].endsAt) \in Nat
    BY <1>5, <2>1
  <2>4. ps[i].startsAt \in Nat /\ ps[i].endsAt \in Nat /\ ps[i].endsAt <= Len(s) + 1
    BY <1>5, <2>1
  <2> DEFINE low == IF i = 1 THEN 1 ELSE ps[i - 1].endsAt
  <2> HIDE DEF low
  <2>5. ps[i].startsAt >= low /\ low \in Nat
    BY <2>2, <2>3 DEF low
  <2>6. Len(s) \in Nat
    OBVIOUS
  <2>7. ~(ps[i].startsAt < low) /\ ~(ps[i].endsAt > Len(s) + 1)
    BY <2>4, <2>5, <2>6
  <2> QED
    BY <2>7 DEF low
<1>7. \A k \in 1..Len(ps) : ps[k].template \in T
  <2> SUFFICES ASSUME NEW k \in 1..Len(ps) PROVE ps[k].template \in T
    OBVIOUS
  <2> DEFINE span == <<ps[k].startsAt, ps[k].endsAt - 1>>
  <2>1. span \in Placed(s)
    BY <1>1, Zenon
  <2>2. span[1] = ps[k].startsAt /\ span[2] = ps[k].endsAt - 1
    OBVIOUS
  <2>3. ps[k].template = SubSeq(s, ps[k].startsAt + 1, ps[k].endsAt - 1 - 1)
    BY <1>1, Zenon
  <2> HIDE DEF span
  <2>4. TemplateOf(s, span) = ps[k].template
    BY <2>2, <2>3, Zenon DEF TemplateOf
  <2> QED
    BY <2>1, <2>4
<1>8. \A t \in T : \E k \in 1..Len(ps) : ps[k].template = t
  <2> SUFFICES ASSUME NEW span \in Placed(s) PROVE \E k \in 1..Len(ps) : ps[k].template = TemplateOf(s, span)
    OBVIOUS
  <2>1. span[1] >= 1
    BY PlacedIs
  <2>2. PICK k \in 1..Len(ps) : span = <<ps[k].startsAt, ps[k].endsAt - 1>>
    BY <1>1, <2>1, Zenon
  <2>3. span[1] = ps[k].startsAt /\ span[2] = ps[k].endsAt - 1
    BY <2>2
  <2>4. ps[k].template = SubSeq(s, ps[k].startsAt + 1, ps[k].endsAt - 1 - 1)
    BY <1>1, Zenon
  <2>5. TemplateOf(s, span) = ps[k].template
    BY <2>3, <2>4, Zenon DEF TemplateOf
  <2> QED
    BY <2>5
<1>9. \A k \in 1..Len(ps) : values[k] = ValueOf(ps[k].template)
  BY <1>4 DEF ValueOf
<1> HIDE DEF T, values, cut
<1>10. failed <=> \E t \in T : ValueOf(t).type = "error"
  BY <1>4, <1>7, <1>8, <1>9
<1>11. ASSUME IsExact(s, ps) PROVE 1 \in DOMAIN ps /\ values[1] = native
  <2>1. Len(ps) = 1 /\ ps[1].startsAt = 1 /\ ps[1].endsAt = Len(s) + 1
    BY <1>11 DEF IsExact
  <2>2. 1 \in 1..Len(ps) /\ ps[1].startsAt + 1 = 2 /\ ps[1].endsAt - 1 - 1 = Len(s) - 1
    BY <2>1
  <2>3. ps[1].template = SubSeq(s, 2, Len(s) - 1)
    BY <1>1, <2>2
  <2>4. x[1] = 1 /\ x[2] = Len(s) /\ x[1] + 1 = 2
    OBVIOUS
  <2> HIDE DEF x
  <2>5. TemplateOf(s, x) = SubSeq(s, 2, Len(s) - 1)
    BY <2>4, Zenon DEF TemplateOf
  <2> QED
    BY <1>4, <1>9, <2>2, <2>3, <2>5
<1>12. ~failed => Replaced(s, ps, values) = Filled(s, Placed(s), texts)
  <2> SUFFICES ASSUME ~failed PROVE Replaced(s, ps, values) = Filled(s, Placed(s), texts)
    OBVIOUS
  <2>1. \A k \in 1..Len(ps) : Text(values[k]) = texts[ps[k].template] /\ Text(values[k]) \in Seq(Symbols)
    <3> SUFFICES ASSUME NEW k \in 1..Len(ps)
                 PROVE  Text(values[k]) = texts[ps[k].template] /\ Text(values[k]) \in Seq(Symbols)
      OBVIOUS
    <3>1. values[k].type # "error" /\ values[k] = ValueOf(ps[k].template) /\ ps[k].template \in T
      BY <1>4, <1>7, <1>9
    <3>2. texts[ps[k].template] = Text(ValueOf(ps[k].template))
      BY <3>1
    <3> HIDE DEF texts
    <3> QED
      BY <3>1, <3>2, LookupGivesValues
  <2> HIDE DEF texts, failed
  <2> QED
    BY <1>l, <2>1, ReplacedIsFilled
<1>13. IsExact(s, ps) => /\ values[1].type = "error" => values[1] = Bad("resolver") /\ failed
                         /\ failed => values[1].type = "error"
  <2> SUFFICES ASSUME IsExact(s, ps)
               PROVE  /\ values[1].type = "error" => values[1] = Bad("resolver") /\ failed
                      /\ failed => values[1].type = "error"
    OBVIOUS
  <2>1. DOMAIN ps = 1..1
    BY <1>4 DEF IsExact
  <2>2. failed <=> values[1].type = "error"
    BY <2>1
  <2> HIDE DEF failed
  <2> QED
    BY <1>11, <2>2, LookupGivesValues
<1> HIDE DEF failed, texts, native
<1>14. CASE IsExact(s, ps)
  <2>1. Whole(s) /\ values[1] = native
    BY <1>l, <1>11, <1>14
  <2>2. CASE failed
    <3>1. asIs /\ values[1] = Bad("resolver")
      BY <1>13, <1>14, <2>2
    <3> HIDE DEF asIs
    <3>2. ResolveVariable(s, var, RunContexts, Resolvers, Literals) = Bad("resolver")
      BY <1>2, <1>14, <3>1
    <3>3. Means(s, var.type) = Bad("resolver")
      BY <1>3, <1>10, <2>2
    <3> QED
      BY <3>2, <3>3
  <2>3. CASE ~failed
    <3>1. values[1].type # "error"
      BY <1>13, <1>14, <2>3
    <3> QED
      BY <1>2, <1>3, <1>6, <1>10, <1>12, <1>14, <2>1, <2>3, <3>1
  <2> QED
    BY <2>2, <2>3
<1>15. CASE ~IsExact(s, ps)
  <2>1. ResolveVariable(s, var, RunContexts, Resolvers, Literals) =
          IF failed THEN Bad("resolver") ELSE Convert(Replaced(s, ps, values), var.type, Literals)
    BY <1>2, <1>6, <1>15
  <2>2. Means(s, var.type) =
          IF failed THEN Bad("resolver") ELSE Convert(Filled(s, Placed(s), texts), var.type, Literals)
    BY <1>3, <1>10, <1>15, <1>l
  <2> QED
    BY <1>12, <2>1, <2>2
<1> QED
  BY <1>14, <1>15

\* A node as compileRuntimeJourney has it before it looks for placeholders again: the
\* environment in its place, and the types found when the journey was saved.
Rewritten(node) ==
    [type |-> node.type, props |-> [p \in DOMAIN node.props |-> AfterEnv(node.props[p])],
     vars |-> WithVariables(node).vars]

\* The parts of a rewritten node.
LEMMA RewrittenParts ==
    ASSUME NEW node, IsNode(node), \A p \in DOMAIN node.props : EnvKnown(node.props[p])
    PROVE  LET c == Rewritten(node)
           IN  /\ c = [type |-> c.type, props |-> c.props, vars |-> c.vars]
               /\ c.type = node.type /\ c.vars = WithVariables(node).vars
               /\ DOMAIN c.props = DOMAIN node.props
               /\ \A p \in DOMAIN node.props : c.props[p] = AfterEnv(node.props[p])
               /\ IsNode(c) /\ StringsOfSymbols(c)
<1> DEFINE c == Rewritten(node)
           q == [p \in DOMAIN node.props |-> AfterEnv(node.props[p])]
<1>1. c = [type |-> node.type, props |-> q, vars |-> WithVariables(node).vars]
  BY DEF Rewritten
<1>2. DOMAIN q = DOMAIN node.props /\ \A p \in DOMAIN node.props : q[p] = AfterEnv(node.props[p])
  OBVIOUS
<1> HIDE DEF c, q
<1>3. c.type = node.type /\ c.vars = WithVariables(node).vars /\ c.props = q
  BY <1>1
<1>4. c = [type |-> c.type, props |-> c.props, vars |-> c.vars]
  BY <1>1, <1>3
<1>5. \A p \in DOMAIN c.props : IsValue(c.props[p])
  BY <1>2, <1>3, ValueAfterEnv DEF IsNode
<1>6. IsNode(c)
  <2>1. Configured(c) <=> Configured(node)
    BY <1>2, <1>3 DEF Configured
  <2>2. AfterEnv(Nil) = Nil
    BY DEF AfterEnv, Nil
  <2>3. ~Configured(node) => DOMAIN c.props = {<<>>} /\ c.props[<<>>] = Nil
    BY <1>2, <1>3, <2>2 DEF IsNode
  <2> QED
    BY <1>4, <1>5, <2>1, <2>3 DEF IsNode
<1>7. StringsOfSymbols(c)
  BY <1>5, ValueIsString DEF StringsOfSymbols, Strings
<1> QED
  BY <1>2, <1>3, <1>4, <1>6, <1>7 DEF c

\* The type a variable has when the step is executed.
MeantType(node, p) ==
    LET declared == IF p \in DOMAIN node.vars THEN node.vars[p].type ELSE ""
        inferred == InferType(node.type, p)
    IN  IF declared # "" THEN declared ELSE IF inferred # "" THEN inferred
        ELSE IF Whole(node.props[p].value) /\ Whole(AfterEnv(node.props[p]).value) THEN "" ELSE "string"

\* Compiling finds the type anew, and gets what was meant when the journey was saved.
LEMMA CompiledType ==
    ASSUME NEW node, IsNode(node), WellWritten(node),
           \A p \in DOMAIN node.props : EnvKnown(node.props[p]),
           NEW p \in Strings(Rewritten(node)), Placed(Rewritten(node).props[p].value) # {}
    PROVE  TypeOf(Rewritten(node), p) = MeantType(node, p)
<1> DEFINE c == Rewritten(node)
           w == WithVariables(node)
           v == node.props[p]
<1>1. /\ c.type = node.type /\ c.vars = w.vars /\ DOMAIN c.props = DOMAIN node.props
      /\ \A q \in DOMAIN node.props : c.props[q] = AfterEnv(node.props[q])
  BY RewrittenParts
<1>0. p \in DOMAIN c.props /\ c.props[p].type = "string" /\ Placed(c.props[p].value) # {}
  BY DEF Strings
<1> HIDE DEF c
<1>2. IsValue(v) /\ c.props[p] = AfterEnv(v) /\ AfterEnv(v).type = "string" /\ p \in DOMAIN node.props
  BY <1>0, <1>1 DEF IsNode
<1>3. v.type = "string"
  BY <1>2 DEF AfterEnv
<1>4. p \in Strings(node)
  BY <1>2, <1>3 DEF Strings
<1>5. Placed(v.value) # {}
  <2>1. WellFormed(v.value)
    BY <1>4 DEF WellWritten
  <2>2. SUFFICES ASSUME Placed(v.value) = {} PROVE FALSE
    OBVIOUS
  <2>3. AfterEnv(v) = v
    BY <1>2, <1>3, <2>1, <2>2, PlainAfterEnv
  <2> QED
    BY <1>0, <1>2, <2>2, <2>3
<1>6. p \in DOMAIN w.vars /\ w.vars[p].type = TypeOf(node, p)
  <2>1. node = [type |-> node.type, props |-> node.props, vars |-> node.vars]
    BY DEF IsNode
  <2>2. StringsOfSymbols(node)
    BY ValueIsString DEF IsNode, StringsOfSymbols, Strings
  <2>3. /\ DOMAIN w.vars = {q \in Strings(node) : Placed(node.props[q].value) # {}}
        /\ \A q \in DOMAIN w.vars : w.vars[q].type = TypeOf(node, q)
    BY <2>1, <2>2, VariablesOfNode
  <2> HIDE DEF w
  <2> QED
    BY <1>4, <1>5, <2>3
<1> HIDE DEF w
<1> DEFINE declared == IF p \in DOMAIN node.vars THEN node.vars[p].type ELSE ""
           inferred == InferType(node.type, p)
           first == IF declared # "" THEN declared ELSE IF inferred # "" THEN inferred
                    ELSE IF Whole(v.value) THEN "" ELSE "string"
<1>7. TypeOf(node, p) = first
  BY DEF TypeOf
<1>8. TypeOf(c, p) = IF first # "" THEN first ELSE IF inferred # "" THEN inferred
                     ELSE IF Whole(AfterEnv(v).value) THEN "" ELSE "string"
  <2> HIDE DEF first
  <2> QED
    BY <1>1, <1>2, <1>6, <1>7 DEF TypeOf
<1>9. MeantType(node, p) = IF declared # "" THEN declared ELSE IF inferred # "" THEN inferred
                           ELSE IF Whole(v.value) /\ Whole(AfterEnv(v).value) THEN "" ELSE "string"
  BY DEF MeantType
<1> HIDE DEF declared, inferred, v
<1>10. CASE declared # ""
  BY <1>8, <1>9, <1>10 DEF c
<1>11. CASE declared = "" /\ inferred # ""
  BY <1>8, <1>9, <1>11 DEF c
<1>12. CASE declared = "" /\ inferred = "" /\ Whole(v.value)
  <2>1. first = ""
    BY <1>12
  <2> HIDE DEF first
  <2>2. CASE Whole(AfterEnv(v).value)
    BY <1>8, <1>9, <1>12, <2>1, <2>2 DEF c
  <2>3. CASE ~Whole(AfterEnv(v).value)
    BY <1>8, <1>9, <1>12, <2>1, <2>3 DEF c
  <2> QED
    BY <2>2, <2>3
<1>13. CASE declared = "" /\ inferred = "" /\ ~Whole(v.value)
  <2>1. first = "string" /\ first # ""
    BY <1>13
  <2> HIDE DEF first
  <2> QED
    BY <1>8, <1>9, <1>13, <2>1 DEF c
<1> QED
  BY <1>10, <1>11, <1>12, <1>13

\* The meaning of a property: that of its string if placeholders are left in it.
LEMMA MeaningIs ==
    ASSUME NEW node, NEW p \in DOMAIN node.props
    PROVE  LET v == AfterEnv(node.props[p])
           IN  Meaning(node, p) = IF v.type = "string" /\ "vars" \notin Range(p) /\ Placed(v.value) # {}
                                  THEN Means(v.value, MeantType(node, p)) ELSE v
<1> DEFINE v == AfterEnv(node.props[p])
           s == v.value
           T == {TemplateOf(s, span) : span \in Placed(s)}
           type == MeantType(node, p)
           native == ValueOf(TemplateOf(s, <<1, Len(s)>>))
           failed == \E t \in T : ValueOf(t).type = "error"
           asIs == Whole(s) /\ (type = "" \/ (type \in {"object", "array"} /\ native.type = type))
           built == Convert(Filled(s, Placed(s), [t \in T |-> Text(ValueOf(t))]), type, Literals)
<1>1. Meaning(node, p) = IF v.type # "string" \/ "vars" \in Range(p) THEN v ELSE IF T = {} THEN v
                         ELSE IF failed THEN Bad("resolver") ELSE IF asIs THEN native ELSE built
  BY DEF Meaning, MeantType, ValueOf
<1>2. Means(s, type) = IF failed THEN Bad("resolver") ELSE IF asIs THEN native ELSE built
  BY DEF Means
<1>3. T = {} <=> Placed(s) = {}
  OBVIOUS
<1> HIDE DEF v, T, type, native, failed, asIs, built
<1> QED
  BY <1>1, <1>2, <1>3 DEF v, type

\* ResolveStepConfig gives every property what it means, or all that went wrong.
LEMMA NodeMeans ==
    ASSUME NEW node, IsNode(node), WellWritten(node),
           \A p \in DOMAIN node.props : EnvKnown(node.props[p]), WellWritten(Rewritten(node))
    PROVE  LET meaning == [p \in DOMAIN node.props |-> Meaning(node, p)]
               errors == {p \in DOMAIN node.props : meaning[p].type = "error"}
           IN  ResolveStepConfig(WithVariables(Rewritten(node)), RunContexts, Resolvers, Literals)
                 = IF errors # {} THEN [type |-> "error", value |-> UNION {meaning[p].value : p \in errors}]
                   ELSE Config(meaning)
<1> DEFINE c == Rewritten(node)
           x == WithVariables(c)
           meaning == [p \in DOMAIN node.props |-> Meaning(node, p)]
           errors == {p \in DOMAIN node.props : meaning[p].type = "error"}
           resolved == [p \in DOMAIN x.vars |-> ResolveVariable(Source(x, p), x.vars[p], RunContexts, Resolvers, Literals)]
           wrong == {p \in DOMAIN resolved : resolved[p].type = "error"}
<1>1. /\ c = [type |-> c.type, props |-> c.props, vars |-> c.vars] /\ StringsOfSymbols(c) /\ IsNode(c)
      /\ DOMAIN c.props = DOMAIN node.props
      /\ \A p \in DOMAIN node.props : c.props[p] = AfterEnv(node.props[p])
  BY RewrittenParts
<1>2. /\ x.props = c.props /\ DOMAIN x.vars = {p \in Strings(c) : Placed(c.props[p].value) # {}}
      /\ \A p \in DOMAIN x.vars :
           /\ p \in Strings(c) /\ x.vars[p].type = TypeOf(c, p)
           /\ Listed(c.props[p].value, x.vars[p].placeholders, 1)
           /\ IsExact(c.props[p].value, x.vars[p].placeholders) <=> Whole(c.props[p].value)
  <2> HIDE DEF c
  <2> QED
    BY <1>1, VariablesOfNode DEF c
<1>3. \A p \in Strings(c) : Placed(c.props[p].value) # {} => TypeOf(c, p) = MeantType(node, p)
  BY CompiledType
<1>4. ResolveStepConfig(x, RunContexts, Resolvers, Literals) =
        IF wrong # {} THEN [type |-> "error", value |-> UNION {resolved[p].value : p \in wrong}]
        ELSE Config([p \in DOMAIN x.props |-> IF p \in DOMAIN resolved THEN resolved[p] ELSE x.props[p]])
  BY DEF ResolveStepConfig
<1>5. DOMAIN resolved = DOMAIN x.vars
  OBVIOUS
<1> HIDE DEF x, c
<1>6. \A p : p \in DOMAIN x.vars <=> /\ p \in DOMAIN node.props /\ AfterEnv(node.props[p]).type = "string"
                                    /\ "vars" \notin Range(p)
                                    /\ Placed(AfterEnv(node.props[p]).value) # {}
  BY <1>1, <1>2 DEF Strings
<1>7. \A p \in DOMAIN x.vars : resolved[p] = meaning[p]
  <2> SUFFICES ASSUME NEW p \in DOMAIN x.vars PROVE resolved[p] = meaning[p]
    OBVIOUS
  <2> DEFINE s == c.props[p].value
             var == x.vars[p]
  <2>1. p \in Strings(c) /\ Placed(s) # {} /\ p \in DOMAIN node.props
    BY <1>2, <1>6
  <2>2. s \in Seq(Symbols) /\ Listed(s, var.placeholders, 1) /\ (IsExact(s, var.placeholders) <=> Whole(s))
    BY <1>1, <1>2, <2>1 DEF StringsOfSymbols
  <2>3. var.type = MeantType(node, p) /\ s = AfterEnv(node.props[p]).value
    BY <1>1, <1>2, <1>3, <2>1
  <2>4. Source(x, p) = s
    BY <1>2, <2>1 DEF Source, Strings
  <2>5. resolved[p] = ResolveVariable(Source(x, p), var, RunContexts, Resolvers, Literals)
    OBVIOUS
  <2>6. meaning[p] = Meaning(node, p)
    BY <2>1
  <2> HIDE DEF s, var, resolved, meaning
  <2>7. ResolveVariable(s, var, RunContexts, Resolvers, Literals) = Means(s, var.type)
    BY <2>2, VariableMeans
  <2>8. Meaning(node, p) = Means(s, var.type)
    BY <1>6, <2>1, <2>3, MeaningIs
  <2> QED
    BY <2>4, <2>5, <2>6, <2>7, <2>8
<1>8. \A p \in DOMAIN node.props : p \notin DOMAIN x.vars => meaning[p] = x.props[p] /\ meaning[p].type # "error"
  <2> SUFFICES ASSUME NEW p \in DOMAIN node.props, p \notin DOMAIN x.vars
               PROVE  meaning[p] = x.props[p] /\ meaning[p].type # "error"
    OBVIOUS
  <2>1. x.props[p] = AfterEnv(node.props[p]) /\ IsValue(x.props[p])
    BY <1>1, <1>2 DEF IsNode
  <2>2. meaning[p] = Meaning(node, p)
    OBVIOUS
  <2> HIDE DEF meaning
  <2>3. Meaning(node, p) = AfterEnv(node.props[p])
    BY <1>6, MeaningIs
  <2> QED
    BY <2>1, <2>2, <2>3 DEF IsValue
<1>9. DOMAIN x.vars \subseteq DOMAIN node.props /\ DOMAIN x.props = DOMAIN node.props
  BY <1>1, <1>2, <1>6
<1>10. DOMAIN meaning = DOMAIN node.props /\ meaning = [p \in DOMAIN node.props |-> meaning[p]]
  OBVIOUS
<1> HIDE DEF resolved, meaning
<1>11. wrong = errors
  BY <1>5, <1>7, <1>8, <1>9
<1>12. \A p \in errors : resolved[p] = meaning[p]
  BY <1>5, <1>7, <1>11
<1>13. {resolved[p].value : p \in wrong} = {meaning[p].value : p \in errors}
  <2> HIDE DEF wrong, errors
  <2> QED
    BY <1>11, <1>12
<1>14. [p \in DOMAIN x.props |-> IF p \in DOMAIN resolved THEN resolved[p] ELSE x.props[p]] = meaning
  <2>1. \A p \in DOMAIN node.props : (IF p \in DOMAIN resolved THEN resolved[p] ELSE x.props[p]) = meaning[p]
    BY <1>5, <1>7, <1>8
  <2> QED
    BY <1>9, <1>10, <2>1
<1> HIDE DEF wrong, errors
<1>15. ResolveStepConfig(x, RunContexts, Resolvers, Literals) =
         IF errors # {} THEN [type |-> "error", value |-> UNION {meaning[p].value : p \in errors}] ELSE Config(meaning)
  BY <1>4, <1>11, <1>13, <1>14
<1> QED
  BY <1>15 DEF x, c, errors, meaning

\* A record with one of its fields changed.
LEMMA NodeWithProps ==
    ASSUME NEW a, NEW b, NEW d, NEW q, NEW node, node = [type |-> a, props |-> b, vars |-> d]
    PROVE  [node EXCEPT !.props = q] = [type |-> a, props |-> q, vars |-> d]
<1> DEFINE r == [node EXCEPT !.props = q]
<1>1. DOMAIN r = {"type", "props", "vars"} /\ r.type = a /\ r.props = q /\ r.vars = d
  OBVIOUS
<1>2. r = [x \in DOMAIN r |-> r[x]]
  OBVIOUS
<1> HIDE DEF r
<1>3. r = [type |-> a, props |-> q, vars |-> d]
  BY <1>1, <1>2
<1> QED
  BY <1>3 DEF r

\* resolveStaticEnvironmentPlaceholders, for all nodes of a saved step.
LEMMA StepIsRewritten ==
    ASSUME NEW step, IsStep(step), MaxDepth \in Nat, NEW saved,
           \A at \in DOMAIN step.nodes : WellWritten(step.nodes[at]),
           saved = [outcomes |-> step.outcomes,
                    nodes |-> [at \in DOMAIN step.nodes |-> WithVariables(step.nodes[at])]]
    PROVE  LET known == \A at \in DOMAIN step.nodes :
                          \A p \in DOMAIN step.nodes[at].props : EnvKnown(step.nodes[at].props[p])
               r == ResolveStatic(saved, Environment)
           IN  /\ EnvironmentResolves(saved, Environment) <=> known
               /\ known => /\ r.nodes = [at \in DOMAIN step.nodes |-> Rewritten(step.nodes[at])]
                           /\ IsStep(r)
<1> DEFINE nodes == step.nodes
           w == [at \in DOMAIN nodes |-> WithVariables(nodes[at])]
           known == \A at \in DOMAIN nodes : \A p \in DOMAIN nodes[at].props : EnvKnown(nodes[at].props[p])
           r == ResolveStatic(saved, Environment)
           Resolved(node) == [node EXCEPT !.props = [p \in DOMAIN node.props |-> ResolveStaticString(node.props[p], Environment)]]
           n == [at \in DOMAIN nodes |-> Rewritten(nodes[at])]
<1>0. saved = [outcomes |-> step.outcomes, nodes |-> w] /\ saved.nodes = w /\ DOMAIN w = DOMAIN nodes
  OBVIOUS
<1>1. \A at \in DOMAIN nodes :
        /\ IsNode(nodes[at]) /\ StringsOfSymbols(nodes[at]) /\ WellWritten(nodes[at])
        /\ nodes[at] = [type |-> nodes[at].type, props |-> nodes[at].props, vars |-> nodes[at].vars]
  BY StepIsTree DEF IsStep
<1>2. \A at \in DOMAIN nodes :
        /\ w[at] = WithVariables(nodes[at])
        /\ w[at] = [type |-> nodes[at].type, props |-> nodes[at].props, vars |-> w[at].vars]
        /\ w[at].props = nodes[at].props
  <2> SUFFICES ASSUME NEW at \in DOMAIN nodes
               PROVE  /\ w[at] = WithVariables(nodes[at])
                      /\ w[at] = [type |-> nodes[at].type, props |-> nodes[at].props, vars |-> w[at].vars]
                      /\ w[at].props = nodes[at].props
    OBVIOUS
  <2> DEFINE node == nodes[at]
  <2>1. /\ node = [type |-> node.type, props |-> node.props, vars |-> node.vars]
        /\ StringsOfSymbols(node) /\ WellWritten(node)
    BY <1>1
  <2>2. w[at] = WithVariables(node)
    OBVIOUS
  <2> HIDE DEF node, w
  <2>3. /\ WithVariables(node) = [type |-> node.type, props |-> node.props, vars |-> WithVariables(node).vars]
        /\ WithVariables(node).props = node.props
    BY <2>1, VariablesOfNode
  <2> QED
    BY <2>2, <2>3 DEF node
<1>3. \A at \in DOMAIN nodes : \A p \in DOMAIN nodes[at].props :
        /\ EnvResolves(nodes[at].props[p], Environment) <=> EnvKnown(nodes[at].props[p])
        /\ EnvKnown(nodes[at].props[p]) =>
             ResolveStaticString(nodes[at].props[p], Environment) = AfterEnv(nodes[at].props[p])
  BY <1>1, ValueAfterEnv DEF IsNode
<1>r. r = [saved EXCEPT !.nodes = [at \in DOMAIN saved.nodes |-> Resolved(saved.nodes[at])]]
  BY DEF ResolveStatic
<1> HIDE DEF w
<1>4. EnvironmentResolves(saved, Environment) <=> known
  BY <1>0, <1>2, <1>3 DEF EnvironmentResolves
<1>5. ASSUME known, NEW at \in DOMAIN nodes PROVE Resolved(w[at]) = Rewritten(nodes[at])
  <2> DEFINE node == nodes[at]
             x == w[at]
             q == [p \in DOMAIN x.props |-> ResolveStaticString(x.props[p], Environment)]
             e == [p \in DOMAIN node.props |-> AfterEnv(node.props[p])]
  <2>1. x = [type |-> node.type, props |-> node.props, vars |-> x.vars] /\ x.props = node.props
        /\ x = WithVariables(node)
    BY <1>2
  <2>2. \A p \in DOMAIN node.props : ResolveStaticString(node.props[p], Environment) = AfterEnv(node.props[p])
    BY <1>3, <1>5
  <2>3. Resolved(x) = [x EXCEPT !.props = q]
    OBVIOUS
  <2>4. Rewritten(node) = [type |-> node.type, props |-> e, vars |-> WithVariables(node).vars]
    BY DEF Rewritten
  <2> HIDE DEF node, x, Resolved
  <2>5. q = e
    BY <2>1, <2>2
  <2> HIDE DEF q, e
  <2>6. [x EXCEPT !.props = q] = [type |-> node.type, props |-> q, vars |-> x.vars]
    BY <2>1, NodeWithProps
  <2>7. Resolved(x) = Rewritten(node)
    BY <2>1, <2>3, <2>4, <2>5, <2>6
  <2> QED
    BY <2>7 DEF node, x
<1>6. known => r = [outcomes |-> step.outcomes, nodes |-> n]
  <2> SUFFICES ASSUME known PROVE r = [outcomes |-> step.outcomes, nodes |-> n]
    OBVIOUS
  <2> DEFINE m == [at \in DOMAIN saved.nodes |-> Resolved(saved.nodes[at])]
  <2>1. m = n
    <3> HIDE DEF Resolved
    <3> QED
      BY <1>0, <1>5
  <2>2. r = [saved EXCEPT !.nodes = m]
    BY <1>r
  <2> HIDE DEF m, n, r
  <2>3. [saved EXCEPT !.nodes = m] = [outcomes |-> step.outcomes, nodes |-> m]
    BY <1>0
  <2> QED
    BY <2>1, <2>2, <2>3
<1>7. known => r.nodes = n /\ r.outcomes = step.outcomes /\ r = [outcomes |-> r.outcomes, nodes |-> r.nodes]
  <2> HIDE DEF n, r, known
  <2> QED
    BY <1>6
<1>8. known => \A at \in DOMAIN nodes : /\ IsNode(Rewritten(nodes[at])) /\ Rewritten(nodes[at]).type = nodes[at].type
                                          /\ DOMAIN Rewritten(nodes[at]).props = DOMAIN nodes[at].props
  BY <1>1, RewrittenParts
<1>9. known => IsStep(r)
  <2> SUFFICES ASSUME known PROVE IsStep(r)
    OBVIOUS
  <2>1. DOMAIN n = DOMAIN nodes /\ \A at \in DOMAIN nodes : n[at] = Rewritten(nodes[at])
    OBVIOUS
  <2>2. /\ <<>> \in DOMAIN nodes
        /\ \A at \in DOMAIN nodes :
             /\ at \in Seq(Nat) /\ Len(at) <= MaxDepth
             /\ at # <<>> => /\ Front(at) \in DOMAIN nodes
                             /\ nodes[Front(at)].type \in Composites /\ Configured(nodes[Front(at)])
    BY DEF IsStep
  <2> HIDE DEF n, r, known, nodes
  <2>3. \A at \in DOMAIN n :
          /\ at \in Seq(Nat) /\ Len(at) <= MaxDepth /\ IsNode(n[at])
          /\ at # <<>> => /\ Front(at) \in DOMAIN n
                          /\ n[Front(at)].type \in Composites /\ Configured(n[Front(at)])
    BY <1>8, <2>1, <2>2 DEF Configured
  <2> QED
    BY <1>7, <2>1, <2>2, <2>3 DEF IsStep
<1> QED
  BY <1>4, <1>7, <1>9

\* Whether a node is well written depends on its type and its properties.
LEMMA WellWrittenSame ==
    ASSUME NEW a, NEW b, a.type = b.type, a.props = b.props
    PROVE  WellWritten(a) <=> WellWritten(b)
BY SMTT(30) DEF WellWritten, Strings, Structural

\* What executing a step of a journey that was saved and compiled gives.
RanOf(c) ==
    LET saved == GenerateStepVariables(c.step)
        compiled == CompileStep(saved, Environment)
    IN  IF saved = Nil THEN Bad("save")
        ELSE IF \E at \in DOMAIN saved.nodes : ~ValidateStep(saved.nodes, at) THEN Bad("save")
        ELSE IF compiled = Nil THEN Bad("compile")
        ELSE ResolveStepConfig(compiled.nodes[c.at], RunContexts, Resolvers, Literals)

\* Saving, compiling and executing a step gives what was written, or says at which
\* of the three it was refused.
LEMMA StepMeans ==
    ASSUME NEW c, IsStep(c.step), c.at \in DOMAIN c.step.nodes, MaxDepth \in Nat
    PROVE  LET nodes == c.step.nodes
               node == nodes[c.at]
               meaning == [p \in DOMAIN node.props |-> Meaning(node, p)]
               errors == {p \in DOMAIN node.props : meaning[p].type = "error"}
               unsaved == \E at \in DOMAIN nodes : ~Admitted(nodes, at)
               uncompiled == \E at \in DOMAIN nodes :
                                 \/ \E p \in DOMAIN nodes[at].props : ~EnvKnown(nodes[at].props[p])
                                 \/ ~WellWritten(Rewritten(nodes[at]))
           IN  RanOf(c) = IF unsaved THEN Bad("save") ELSE IF uncompiled THEN Bad("compile")
                          ELSE IF errors # {}
                          THEN [type |-> "error", value |-> UNION {meaning[p].value : p \in errors}]
                          ELSE Config(meaning)
<1> DEFINE step == c.step
           nodes == step.nodes
           node == nodes[c.at]
           meaning == [p \in DOMAIN node.props |-> Meaning(node, p)]
           errors == {p \in DOMAIN node.props : meaning[p].type = "error"}
           well == \A at \in DOMAIN nodes : WellWritten(nodes[at])
           admitted == \A at \in DOMAIN nodes : Admitted(nodes, at)
           known == \A at \in DOMAIN nodes : \A p \in DOMAIN nodes[at].props : EnvKnown(nodes[at].props[p])
           again == \A at \in DOMAIN nodes : WellWritten(Rewritten(nodes[at]))
           saved == GenerateStepVariables(step)
           compiled == CompileStep(saved, Environment)
           w == [at \in DOMAIN nodes |-> WithVariables(nodes[at])]
           got == ResolveStepConfig(compiled.nodes[c.at], RunContexts, Resolvers, Literals)
           ends == IF errors # {} THEN [type |-> "error", value |-> UNION {meaning[p].value : p \in errors}]
                   ELSE Config(meaning)
<1>1. IsStep(step) /\ c.at \in DOMAIN nodes
  OBVIOUS
<1>2. /\ well => saved # Nil /\ saved.nodes = w /\ saved = [outcomes |-> step.outcomes, nodes |-> w]
      /\ ~well => saved = Nil
  BY <1>1, StepIsGenerated
<1>3. RanOf(c) = IF saved = Nil THEN Bad("save")
                 ELSE IF \E at \in DOMAIN saved.nodes : ~ValidateStep(saved.nodes, at) THEN Bad("save")
                 ELSE IF compiled = Nil THEN Bad("compile") ELSE got
  BY DEF RanOf
<1> HIDE DEF step
<1>4. \A at \in DOMAIN nodes :
        /\ nodes[at] = [type |-> nodes[at].type, props |-> nodes[at].props, vars |-> nodes[at].vars]
        /\ StringsOfSymbols(nodes[at]) /\ IsNode(nodes[at])
  BY <1>1, StepIsTree DEF IsStep
<1>5. well => ((\E at \in DOMAIN saved.nodes : ~ValidateStep(saved.nodes, at)) <=> ~admitted)
  <2> SUFFICES ASSUME well PROVE (\E at \in DOMAIN saved.nodes : ~ValidateStep(saved.nodes, at)) <=> ~admitted
    OBVIOUS
  <2>1. (\A at \in DOMAIN w : ValidateStep(w, at)) <=> admitted
    BY <1>1, NodesAreAdmitted
  <2> HIDE DEF w, saved
  <2> QED
    BY <1>2, <2>1
<1>6. ASSUME well
      PROVE  /\ compiled = Nil <=> ~(known /\ again)
             /\ known /\ again => compiled.nodes[c.at] = WithVariables(Rewritten(node))
  <2> DEFINE r == ResolveStatic(saved, Environment)
             n == [at \in DOMAIN nodes |-> Rewritten(nodes[at])]
  <2>1. /\ EnvironmentResolves(saved, Environment) <=> known
        /\ known => r.nodes = n /\ IsStep(r)
    <3> HIDE DEF saved
    <3>1. saved = [outcomes |-> step.outcomes, nodes |-> [at \in DOMAIN step.nodes |-> WithVariables(step.nodes[at])]]
      BY <1>2, <1>6
    <3> QED
      BY <1>1, <1>6, <3>1, StepIsRewritten
  <2>2. compiled = IF EnvironmentResolves(saved, Environment) THEN GenerateStepVariables(r) ELSE Nil
    BY DEF CompileStep
  <2>3. DOMAIN n = DOMAIN nodes /\ \A at \in DOMAIN nodes : n[at] = Rewritten(nodes[at])
    OBVIOUS
  <2> DEFINE g == GenerateStepVariables(r)
             wr == [at \in DOMAIN r.nodes |-> WithVariables(r.nodes[at])]
             wellr == \A at \in DOMAIN r.nodes : WellWritten(r.nodes[at])
  <2>4. known => IF wellr THEN g # Nil /\ g.nodes = wr ELSE g = Nil
    <3> SUFFICES ASSUME known PROVE IF wellr THEN g # Nil /\ g.nodes = wr ELSE g = Nil
      OBVIOUS
    <3> HIDE DEF r
    <3>1. IsStep(r)
      BY <2>1
    <3> QED
      BY <3>1, StepIsGenerated
  <2> HIDE DEF n, compiled, saved
  <2>5. known => (wellr <=> again)
    <3> HIDE DEF r
    <3> QED
      BY <2>1, <2>3
  <2>6. known => wr[c.at] = WithVariables(Rewritten(node))
    <3> HIDE DEF r
    <3> QED
      BY <1>1, <2>1, <2>3
  <2> HIDE DEF known, again, wellr, wr, g, r
  <2> QED
    BY <2>1, <2>2, <2>4, <2>5, <2>6 DEF g
<1>7. ASSUME well, known, again PROVE got = ends
  <2>1. compiled.nodes[c.at] = WithVariables(Rewritten(node))
    BY <1>6, <1>7
  <2>2. /\ IsNode(node) /\ WellWritten(node) /\ WellWritten(Rewritten(node))
        /\ \A p \in DOMAIN node.props : EnvKnown(node.props[p])
    BY <1>1, <1>4, <1>7
  <2> HIDE DEF node, compiled
  <2>3. ResolveStepConfig(WithVariables(Rewritten(node)), RunContexts, Resolvers, Literals) = ends
    BY <2>2, NodeMeans
  <2> HIDE DEF ends
  <2> QED
    BY <2>1, <2>3
<1> DEFINE unsaved == \E at \in DOMAIN nodes : ~Admitted(nodes, at)
           uncompiled == \E at \in DOMAIN nodes :
                             \/ \E p \in DOMAIN nodes[at].props : ~EnvKnown(nodes[at].props[p])
                             \/ ~WellWritten(Rewritten(nodes[at]))
<1>8. (unsaved <=> ~admitted) /\ (admitted => well) /\ (uncompiled <=> ~(known /\ again))
  BY DEF Admitted
<1> HIDE DEF well, admitted, known, again, saved, compiled, got, ends, unsaved, uncompiled
<1>9. RanOf(c) = IF unsaved THEN Bad("save") ELSE IF uncompiled THEN Bad("compile") ELSE ends
  <2>1. CASE ~well
    BY <1>2, <1>3, <1>8, <2>1
  <2>2. CASE well /\ ~admitted
    BY <1>2, <1>3, <1>5, <1>8, <2>2
  <2>3. CASE well /\ admitted /\ ~(known /\ again)
    BY <1>2, <1>3, <1>5, <1>6, <1>8, <2>3
  <2>4. CASE well /\ admitted /\ known /\ again
    BY <1>2, <1>3, <1>5, <1>6, <1>7, <1>8, <2>4
  <2> QED
    BY <2>1, <2>2, <2>3, <2>4
<1> QED
  BY <1>9 DEF unsaved, uncompiled, ends, step

-----------------------------------------------------------------------------
(***************************************************************************)
(* Configurations of instances.                                            *)
(***************************************************************************)

\* What a resolver gives for a template, and its text.
InstanceText(t, rs) == IF rs[t[1]].type = "nil" THEN <<"<nil>">> ELSE Text(rs[t[1]])

\* What a configured string stands for in an instance.
Stands(s, rs) ==
    IF <<1, Len(s)>> \in Patterns(s) THEN rs[TemplateOf(s, <<1, Len(s)>>)[1]]
    ELSE Str(Filled(s, Patterns(s),
                    [t \in {TemplateOf(s, span) : span \in Patterns(s)} |-> InstanceText(t, rs)]))

\* Whether a template of a string cannot be resolved.
Unresolvable(s, rs) ==
    \E t \in {TemplateOf(s, span) : span \in Patterns(s)} :
        t[1] \in DOMAIN RunContexts \/ t[1] \notin DOMAIN rs \/ rs[t[1]].type = "error"

\* resolveConfigStringPlaceholders: the string with its placeholders resolved, or an error.
LEMMA InstanceStringIs ==
    ASSUME NEW v, IsValue(v), NEW rs, \A y \in DOMAIN rs : IsResolver(rs[y])
    PROVE  LET got == ResolveInstanceString(v, DOMAIN RunContexts, rs)
           IN  /\ v.type # "string" => got = v /\ got.type # "error"
               /\ v.type = "string" /\ Unresolvable(v.value, rs) => got.type = "error"
               /\ v.type = "string" /\ ~Unresolvable(v.value, rs) => got = Stands(v.value, rs) /\ got.type # "error"
<1>1. CASE v.type # "string"
  BY <1>1 DEF ResolveInstanceString, IsValue
<1>2. CASE v.type = "string"
  <2> DEFINE s == v.value
             T == {TemplateOf(s, span) : span \in Patterns(s)}
             texts == [t \in T |-> InstanceText(t, rs)]
             got == ResolveInstanceString(v, DOMAIN RunContexts, rs)
             x == <<1, Len(s)>>
  <2>1. s \in Seq(Symbols)
    BY <1>2, ValueIsString
  <2>2. Templates(s) = T
    BY <2>1, TemplatesAre
  <2>3. got = IF \E t \in Templates(s) : ~InstanceResolves(t, DOMAIN RunContexts, rs) THEN Bad("resolver")
              ELSE IF IsOneTemplate(s) THEN rs[s[2]]
              ELSE Str(Written(s, [t \in Templates(s) |-> InstanceText(t, rs)]))
    BY <1>2 DEF ResolveInstanceString, InstanceText
  <2>4. Stands(s, rs) = IF x \in Patterns(s) THEN rs[TemplateOf(s, x)[1]] ELSE Str(Filled(s, Patterns(s), texts))
    BY DEF Stands
  <2>5. Unresolvable(s, rs) <=> \E t \in T : ~InstanceResolves(t, DOMAIN RunContexts, rs)
    BY DEF Unresolvable, InstanceResolves
  <2>6. ASSUME Unresolvable(s, rs) PROVE got.type = "error"
    <3>1. got = Bad("resolver")
      BY <2>2, <2>3, <2>5, <2>6
    <3> HIDE DEF got
    <3> QED
      BY <3>1 DEF Bad
  <2>7. ASSUME ~Unresolvable(s, rs) PROVE got = Stands(s, rs) /\ got.type # "error"
    <3>1. got = IF IsOneTemplate(s) THEN rs[s[2]] ELSE Str(Written(s, texts))
      BY <2>2, <2>3, <2>5, <2>7
    <3>2. \A t \in T : t[1] \in DOMAIN rs /\ rs[t[1]].type # "error"
      BY <2>7 DEF Unresolvable
    <3>3. \A t \in T : InstanceText(t, rs) \in Seq(Symbols)
      <4> SUFFICES ASSUME NEW t \in T PROVE InstanceText(t, rs) \in Seq(Symbols)
        OBVIOUS
      <4> DEFINE y == rs[t[1]]
      <4>1. IsResolver(y) /\ y.type # "error" /\ "<nil>" \in Symbols
        BY <3>2, ValueAssumption
      <4>2. InstanceText(t, rs) = IF y.type = "nil" THEN <<"<nil>">> ELSE Text(y)
        BY DEF InstanceText
      <4> HIDE DEF y
      <4>3. Bad("resolver").type = "error"
        BY DEF Bad
      <4>4. Text(y) \in Seq(Symbols)
        BY <4>1, <4>3 DEF IsResolver, IsValue
      <4>5. <<"<nil>">> \in Seq(Symbols)
        BY <4>1
      <4> QED
        BY <4>2, <4>4, <4>5
    <3> HIDE DEF got, s, T
    <3>4. DOMAIN texts = T /\ \A t \in DOMAIN texts : texts[t] \in Seq(Symbols)
      BY <3>3
    <3> HIDE DEF texts
    <3>5. Patterns(s) = {span \in Patterns(s) : TemplateOf(s, span) \in DOMAIN texts}
      BY <3>4 DEF T
    <3>6. Written(s, texts) = Filled(s, Patterns(s), texts)
      BY <2>1, <3>4, <3>5, WrittenIsFilled
    <3>7. IsOneTemplate(s) <=> x \in Patterns(s)
      BY <2>1, OneTemplateIs
    <3>8. x[1] + 1 = 2
      OBVIOUS
    <3> HIDE DEF x
    <3>9. x \in Patterns(s) => TemplateOf(s, x)[1] = s[2] /\ TemplateOf(s, x) \in T
      <4> SUFFICES ASSUME x \in Patterns(s) PROVE TemplateOf(s, x)[1] = s[2] /\ TemplateOf(s, x) \in T
        OBVIOUS
      <4>1. TemplateOf(s, x)[1] = s[x[1] + 1]
        BY <2>1, PatternTemplate
      <4>2. TemplateOf(s, x) \in T
        BY DEF T
      <4> QED
        BY <3>8, <4>1, <4>2
    <3>10. got = Stands(s, rs)
      BY <2>4, <3>1, <3>6, <3>7, <3>9
    <3>11. CASE x \in Patterns(s)
      <4>1. got = rs[s[2]]
        BY <3>1, <3>7, <3>11
      <4> QED
        BY <3>2, <3>9, <3>10, <3>11, <4>1
    <3>12. CASE x \notin Patterns(s)
      <4>1. got = Str(Written(s, texts))
        BY <3>1, <3>7, <3>12
      <4>2. got.type = "string"
        BY <4>1 DEF Str
      <4> QED
        BY <3>10, <4>2
    <3> QED
      BY <3>11, <3>12
  <2> HIDE DEF got
  <2> QED
    BY <1>2, <2>6, <2>7 DEF got
<1> QED
  BY <1>1, <1>2

\* What the factory of an instance gets.
GotOf(c) == ResolveInstanceConfig(c.config, DOMAIN RunContexts, c.resolvers)

\* The whole configuration of an instance, or an error if one placeholder of it has
\* no value.
LEMMA InstanceMeans ==
    ASSUME NEW c, \A p \in DOMAIN c.config : IsValue(c.config[p]),
           NEW rs, rs = c.resolvers, \A y \in DOMAIN rs : IsResolver(rs[y])
    PROVE  LET strings == {p \in DOMAIN c.config : c.config[p].type = "string"}
           IN  GotOf(c) = IF DOMAIN rs = {} THEN Config(c.config)
                          ELSE IF \E p \in strings : Unresolvable(c.config[p].value, rs) THEN Bad("resolver")
                          ELSE Config([p \in DOMAIN c.config |->
                                         IF p \in strings THEN Stands(c.config[p].value, rs) ELSE c.config[p]])
<1> DEFINE D == DOMAIN c.config
           strings == {p \in D : c.config[p].type = "string"}
           resolved == [p \in D |-> ResolveInstanceString(c.config[p], DOMAIN RunContexts, rs)]
           wanted == [p \in D |-> IF p \in strings THEN Stands(c.config[p].value, rs) ELSE c.config[p]]
           refused == \E p \in strings : Unresolvable(c.config[p].value, rs)
<1>1. GotOf(c) = IF DOMAIN rs = {} THEN Config(c.config)
                 ELSE IF \E p \in DOMAIN resolved : resolved[p].type = "error" THEN Bad("resolver") ELSE Config(resolved)
  BY DEF GotOf, ResolveInstanceConfig
<1>2. \A p \in D : LET v == c.config[p]
                   IN  /\ p \notin strings => resolved[p] = v /\ resolved[p].type # "error"
                       /\ p \in strings /\ Unresolvable(v.value, rs) => resolved[p].type = "error"
                       /\ p \in strings /\ ~Unresolvable(v.value, rs) => resolved[p] = Stands(v.value, rs) /\ resolved[p].type # "error"
  <2> SUFFICES ASSUME NEW p \in D
               PROVE  LET v == c.config[p]
                      IN  /\ p \notin strings => resolved[p] = v /\ resolved[p].type # "error"
                          /\ p \in strings /\ Unresolvable(v.value, rs) => resolved[p].type = "error"
                          /\ p \in strings /\ ~Unresolvable(v.value, rs) =>
                               resolved[p] = Stands(v.value, rs) /\ resolved[p].type # "error"
    OBVIOUS
  <2> DEFINE v == c.config[p]
  <2>1. resolved[p] = ResolveInstanceString(v, DOMAIN RunContexts, rs) /\ IsValue(v)
    OBVIOUS
  <2>2. p \in strings <=> v.type = "string"
    OBVIOUS
  <2> HIDE DEF v, resolved, strings
  <2> QED
    BY <2>1, <2>2, InstanceStringIs DEF v
<1>3. DOMAIN resolved = D /\ resolved = [p \in D |-> resolved[p]] /\ strings \subseteq D
  OBVIOUS
<1> HIDE DEF resolved, strings, D
<1>4. (\E p \in DOMAIN resolved : resolved[p].type = "error") <=> refused
  BY <1>2, <1>3
<1>5. ~refused => resolved = wanted
  <2> SUFFICES ASSUME ~refused PROVE resolved = wanted
    OBVIOUS
  <2>1. \A p \in D : resolved[p] = IF p \in strings THEN Stands(c.config[p].value, rs) ELSE c.config[p]
    BY <1>2
  <2> QED
    BY <1>3, <2>1
<1> HIDE DEF refused, wanted
<1>6. GotOf(c) = IF DOMAIN rs = {} THEN Config(c.config) ELSE IF refused THEN Bad("resolver") ELSE Config(wanted)
  BY <1>1, <1>4, <1>5
<1> QED
  BY <1>6 DEF refused, wanted, strings, D

-----------------------------------------------------------------------------
(***************************************************************************)
(* The specification.  Its inductive invariant: the input is the one of    *)
(* the start, and an output, once there is one, is what the step of the    *)
(* input's kind computes of it.                                            *)
(***************************************************************************)
RunOf(c) ==
    LET script == SavedScript([type |-> c.type, declared |-> c.declared, hasDeclared |-> c.hasDeclared])
    IN  [script |-> script, end |-> ExecuteScript(script, c.calls, c.catches, c.asks)]
BindingOf(c) ==
    [described |-> Descriptors(c.type, c.providers), bound |-> BoundBy(c.runBy, c.type, c.providers)]

SavedOf(c) == PrepareJourney(c.journey)

InputIsConfigured ==
    \/ input \in RouteInputs \/ input \in ProxyInputs
    \/ input \in ScriptInputs \/ input \in BindingInputs
    \/ input \in JourneyInputs \/ input \in StepInputs \/ input \in InstanceInputs
OutputIsComputed ==
    \/ output = None
    \/ input.kind = "route" /\ output = <<Match(input.routes, input.req)>>
    \/ input.kind = "proxy" /\ output = <<Proxy(input.table, input.config, input.req)>>
    \/ input.kind = "script" /\ output = <<RunOf(input)>>
    \/ input.kind = "bindings" /\ output = <<BindingOf(input)>>
    \/ input.kind = "journey" /\ output = <<SavedOf(input)>>
    \/ input.kind = "step" /\ output = <<RanOf(input)>>
    \/ input.kind = "instance" /\ output = <<GotOf(input)>>
Inv == InputIsConfigured /\ OutputIsComputed

\* Inv is inductive: every step computes the output of an input of its own kind.
LEMMA InvIsInductive == Spec => []Inv
<1>1. Init => Inv
  BY DEF Init, Inv, InputIsConfigured, OutputIsComputed
<1>2. Inv /\ [Next]_vars => Inv'
  <2>1. SUFFICES ASSUME Inv, [Next]_vars PROVE Inv'
    OBVIOUS
  <2>2. CASE UNCHANGED vars
    BY <2>1, <2>2 DEF Inv, InputIsConfigured, OutputIsComputed, vars
  <2>3. CASE MatchRoute
    BY <2>1, <2>3 DEF Inv, InputIsConfigured, OutputIsComputed, MatchRoute, Compute
  <2>4. CASE ForwardRequest
    BY <2>1, <2>4 DEF Inv, InputIsConfigured, OutputIsComputed, ForwardRequest, Compute
  <2>5. CASE RunScript
    BY <2>1, <2>5 DEF Inv, InputIsConfigured, OutputIsComputed, RunScript, Compute, RunOf
  <2>6. CASE BindScript
    BY <2>1, <2>6 DEF Inv, InputIsConfigured, OutputIsComputed, BindScript, Compute, BindingOf, BoundBy
  <2>7. CASE SaveJourney
    BY <2>1, <2>7 DEF Inv, InputIsConfigured, OutputIsComputed, SaveJourney, Compute, SavedOf
  <2>8. CASE RunStep
    BY <2>1, <2>8 DEF Inv, InputIsConfigured, OutputIsComputed, RunStep, Compute, RanOf
  <2>9. CASE ConfigureInstance
    BY <2>1, <2>9 DEF Inv, InputIsConfigured, OutputIsComputed, ConfigureInstance, Compute, GotOf
  <2> QED
    BY <2>1, <2>2, <2>3, <2>4, <2>5, <2>6, <2>7, <2>8, <2>9 DEF Next
<1> QED
  BY <1>1, <1>2, PTL DEF Spec

\* An input of a kind is one of the inputs of that kind.
LEMMA KindsAreApart ==
    ASSUME InputIsConfigured
    PROVE  /\ input.kind = "route" => input \in RouteInputs
           /\ input.kind = "proxy" => input \in ProxyInputs
           /\ input.kind = "script" => input \in ScriptInputs
           /\ input.kind = "bindings" => input \in BindingInputs
           /\ input.kind = "journey" => input \in JourneyInputs
           /\ input.kind = "step" => input \in StepInputs
           /\ input.kind = "instance" => input \in InstanceInputs
<1>1. \A c \in RouteInputs : c.kind = "route"
  BY RouteAssumption
<1>2. \A c \in ProxyInputs : c.kind = "proxy"
  BY ProxyAssumption
<1>3. \A c \in ScriptInputs : c.kind = "script"
  BY ScriptAssumption
<1>4. \A c \in BindingInputs : c.kind = "bindings"
  BY BindingAssumption
<1>5. \A c \in JourneyInputs : c.kind = "journey"
  BY JourneyAssumption
<1>6. \A c \in StepInputs : c.kind = "step"
  BY StepAssumption
<1>7. \A c \in InstanceInputs : c.kind = "instance"
  BY InstanceAssumption
<1> QED
  BY <1>1, <1>2, <1>3, <1>4, <1>5, <1>6, <1>7 DEF InputIsConfigured

\* What is computed of an input of a kind.
LEMMA ResultIs ==
    ASSUME Inv, output # None
    PROVE  /\ input.kind = "route" => Result = Match(input.routes, input.req)
           /\ input.kind = "proxy" => Result = Proxy(input.table, input.config, input.req)
           /\ input.kind = "script" => Result = RunOf(input)
           /\ input.kind = "bindings" => Result = BindingOf(input)
           /\ input.kind = "journey" => Result = SavedOf(input)
           /\ input.kind = "step" => Result = RanOf(input)
           /\ input.kind = "instance" => Result = GotOf(input)
BY DEF Inv, OutputIsComputed, Result

\* The route table finds the first declared route that fits, whatever the table and
\* the request: no branch the pruning leaves out holds an earlier one.
THEOREM RouteTableFindsFirst == Spec => []FirstDeclaredRouteWins
<1>1. Inv => FirstDeclaredRouteWins
  <2>1. SUFFICES ASSUME Inv, output # None, input.kind = "route"
        PROVE  Result = FirstDeclared(input.routes, input.req)
    BY DEF FirstDeclaredRouteWins, Computed
  <2>2. input \in RouteInputs
    BY <2>1, KindsAreApart DEF Inv
  <2>3. IsTable(input.routes) /\ IsRequest(input.req)
    BY <2>2, RouteAssumption
  <2>4. Match(input.routes, input.req) = FirstDeclared(input.routes, input.req)
    BY <2>3, MatchIsFirstDeclared
  <2> QED
    BY <2>1, <2>4, ResultIs
<1> QED
  BY <1>1, InvIsInductive, PTL

\* HTTPProxy answers and forwards as the first declared route, its policies and
\* the layers of headers say.
THEOREM ProxyFollowsConfiguration == Spec => []ForwardedAsConfigured
<1>1. Inv => ForwardedAsConfigured
  <2>1. SUFFICES ASSUME Inv, output # None, input.kind = "proxy"
        PROVE  Forwarded(input.table, input.config, input.req, Result)
    BY DEF ForwardedAsConfigured, Computed
  <2>2. input \in ProxyInputs
    BY <2>1, KindsAreApart DEF Inv
  <2>3. /\ IsTable(input.table.routes) /\ IsRequest(input.req) /\ IsProxyConfig(input.config)
        /\ \A i \in DOMAIN input.table.routes : \A j \in DOMAIN input.table.routes[i].policies :
               IsPolicy(input.table.routes[i].policies[j])
    BY <2>2, ProxyAssumption
  <2>4. Forwarded(input.table, input.config, input.req, Proxy(input.table, input.config, input.req))
    BY <2>3, ProxyForwards
  <2> QED
    BY <2>1, <2>4, ResultIs
<1> QED
  BY <1>1, InvIsInductive, PTL

\* A script ends in an outcome it declares, which leads where the step says, and it
\* finds every binding the REST API describes for its type, but for those of which
\* DescribedBindingsAreBound says otherwise.
THEOREM ScriptsKeepTheirWord == Spec => []ScriptsAreAsDescribed
<1>1. Inv => ScriptsEndInDeclaredOutcomes
  <2> DEFINE script == SavedScript([type |-> input.type, declared |-> input.declared,
                                    hasDeclared |-> input.hasDeclared])
             end == ExecuteScript(script, input.calls, input.catches, input.asks)
             Leads(outcome, last) ==
                 LET name == Canon[input.calls[last]]
                 IN  /\ \A i \in DOMAIN input.calls : i > last => Canon[input.calls[i]] = ""
                     /\ script.hasDeclared =>
                          \E i \in DOMAIN input.declared : Canon[input.declared[i]] = name
                     /\ OutcomeTargets(input.outcomes, outcome)
                          = {input.outcomes[n] : n \in {m \in DOMAIN input.outcomes : Canon[m] = name}}
  <2>1. SUFFICES ASSUME Inv, output # None, input.kind = "script", Result.end.ok
        PROVE  /\ IsRunnableScriptType(Result.script.type)
               /\ Result.end.outcome = "" => input.asks
               /\ Result.end.outcome # "" =>
                    \E last \in DOMAIN input.calls :
                        LET name == Canon[input.calls[last]]
                        IN  /\ \A i \in DOMAIN input.calls : i > last => Canon[input.calls[i]] = ""
                            /\ Result.script.hasDeclared =>
                                 \E i \in DOMAIN input.declared : Canon[input.declared[i]] = name
                            /\ OutcomeTargets(input.outcomes, Result.end.outcome)
                                 = {input.outcomes[n] : n \in {m \in DOMAIN input.outcomes : Canon[m] = name}}
    BY DEF ScriptsEndInDeclaredOutcomes, Computed
  <2>2. input \in ScriptInputs
    BY <2>1, KindsAreApart DEF Inv
  <2>3. /\ input.hasDeclared \in BOOLEAN
        /\ input.declared \in Seq(DOMAIN Canon) /\ input.calls \in Seq(DOMAIN Canon)
    BY <2>2, ScriptAssumption
  <2>4. Result.script = script /\ Result.end = end
    BY <2>1, ResultIs DEF RunOf
  <2>5. end.ok
    BY <2>1, <2>4
  <2>s. script = SavedScript([type |-> input.type, declared |-> input.declared,
                              hasDeclared |-> input.hasDeclared])
    OBVIOUS
  <2> HIDE DEF script
  <2>6. EndsWell(script, input.declared, input.calls, input.catches, input.asks)
    BY <2>3, <2>5, <2>s, ScriptEnds
  <2>7. IsRunnableScriptType(script.type) /\ (end.outcome = "" => input.asks)
    BY <2>6 DEF EndsWell
  <2>8. ASSUME end.outcome # "" PROVE \E last \in DOMAIN input.calls : Leads(end.outcome, last)
    <3>1. PICK last \in DOMAIN input.calls :
            /\ Canon[end.outcome] = Canon[input.calls[last]]
            /\ \A i \in DOMAIN input.calls : i > last => Canon[input.calls[i]] = ""
            /\ script.hasDeclared =>
                 \E i \in DOMAIN input.declared : Canon[input.declared[i]] = Canon[input.calls[last]]
      BY <2>6, <2>8 DEF EndsWell
    <3> HIDE DEF end
    <3>2. Leads(end.outcome, last)
      BY <3>1 DEF OutcomeTargets
    <3> QED
      BY <3>2
  <2> HIDE DEF end
  <2>9. Result.end.outcome # "" => \E last \in DOMAIN input.calls : Leads(Result.end.outcome, last)
    <3> HIDE DEF Leads
    <3> QED
      BY <2>4, <2>8
  <2> QED
    BY <2>4, <2>7, <2>9, Zenon
<1>2. Inv => DescribedBindingsAreBound
  <2>1. SUFFICES ASSUME Inv, output # None, input.kind = "bindings", Result.described.ok, Result.bound.ok,
                        ~Silent(input.type, input.providers)
        PROVE  Result.described.names \ Result.bound.names \subseteq Missing(input.type, input.providers, input.runBy)
    BY DEF DescribedBindingsAreBound, Computed, Missing, Silent
  <2>2. input \in BindingInputs
    BY <2>1, KindsAreApart DEF Inv
  <2>3. /\ input.runBy \in {"step", "schedule"}
        /\ input.runBy = "schedule" => NormalizeScriptType(input.type) = "schedule"
    BY <2>2, BindingAssumption
  <2>4. /\ Result.described = Descriptors(input.type, input.providers)
        /\ Result.bound = BoundBy(input.runBy, input.type, input.providers)
    BY <2>1, ResultIs DEF BindingOf
  <2> QED
    BY <2>1, <2>3, <2>4, DescribedIsBound
<1> QED
  BY <1>1, <1>2, InvIsInductive, PTL DEF ScriptsAreAsDescribed

\* Exactly the sound journeys are saved, and what is saved with them is where their
\* placeholders are, whatever the journey and its nested steps.
THEOREM JourneysAreSavedSound == Spec => []SavedJourneysAreSound
<1>1. Inv => SavedJourneysAreSound
  <2> DEFINE journey == input.journey
  <2>1. SUFFICES ASSUME Inv, output # None, input.kind = "journey"
        PROVE  /\ Result # Nil <=> Sound(journey)
               /\ Result # Nil =>
                    \A id \in DOMAIN journey.steps : \A at \in DOMAIN journey.steps[id].nodes :
                        DescribedBy(journey.steps[id].nodes[at], Result.steps[id].nodes[at])
    BY DEF SavedJourneysAreSound, Computed
  <2>2. input \in JourneyInputs
    BY <2>1, KindsAreApart DEF Inv
  <2>3. /\ MaxDepth \in Nat
        /\ journey = [type |-> journey.type, start |-> journey.start, steps |-> journey.steps]
        /\ \A id \in DOMAIN journey.steps : IsStep(journey.steps[id])
    BY <2>2, JourneyAssumption
  <2>4. Result = PrepareJourney(journey)
    BY SMTT(30), <2>1, ResultIs DEF SavedOf
  <2> HIDE DEF journey
  <2> QED
    BY <2>3, <2>4, JourneyIsPrepared
<1> QED
  BY <1>1, InvIsInductive, PTL

\* A step gets what its author wrote with the placeholders replaced, or is refused
\* where it should be, for every step, environment and set of contexts and resolvers.
LEMMA StepsGetTheirMeaning ==
    ASSUME Inv
    PROVE  StepsGetWhatWasWritten
<1>1. SUFFICES ASSUME output # None, input.kind = "step" PROVE StepsGetWhatWasWritten
  BY DEF StepsGetWhatWasWritten, Computed
<1> DEFINE nodes == input.step.nodes
           node == nodes[input.at]
           Compiled(n) == [n EXCEPT !.props = [p \in DOMAIN n.props |-> AfterEnv(n.props[p])]]
           meaning == [p \in DOMAIN node.props |-> Meaning(node, p)]
           errors == {p \in DOMAIN node.props : meaning[p].type = "error"}
           unsaved == \E at \in DOMAIN nodes : ~Admitted(nodes, at)
           Unknown(at) == \E p \in DOMAIN nodes[at].props : ~EnvKnown(nodes[at].props[p])
           uncompiled == \E at \in DOMAIN nodes : Unknown(at) \/ ~WellWritten(Compiled(nodes[at]))
           rewritten == \E at \in DOMAIN nodes : Unknown(at) \/ ~WellWritten(Rewritten(nodes[at]))
           failure == [type |-> "error", value |-> UNION {meaning[p].value : p \in errors}]
<1>2. input \in StepInputs /\ Result = RanOf(input) /\ MaxDepth \in Nat
  BY <1>1, KindsAreApart, ResultIs, JourneyAssumption DEF Inv
<1>3. IsStep(input.step) /\ input.at \in DOMAIN nodes
  BY SMTT(30), <1>2, StepAssumption
<1>4. Result = IF unsaved THEN Bad("save") ELSE IF rewritten THEN Bad("compile")
               ELSE IF errors # {} THEN failure ELSE Config(meaning)
  BY <1>2, <1>3, StepMeans
<1>5. \A at \in DOMAIN nodes :
        nodes[at] = [type |-> nodes[at].type, props |-> nodes[at].props, vars |-> nodes[at].vars]
  BY <1>3, StepIsTree
<1>6. \A at \in DOMAIN nodes : WellWritten(Compiled(nodes[at])) <=> WellWritten(Rewritten(nodes[at]))
  <2> SUFFICES ASSUME NEW at \in DOMAIN nodes
               PROVE  WellWritten(Compiled(nodes[at])) <=> WellWritten(Rewritten(nodes[at]))
    OBVIOUS
  <2> DEFINE n == nodes[at]
             q == [p \in DOMAIN n.props |-> AfterEnv(n.props[p])]
  <2>1. n = [type |-> n.type, props |-> n.props, vars |-> n.vars]
    BY <1>5
  <2> HIDE DEF n
  <2>2. Rewritten(n) = [type |-> n.type, props |-> q, vars |-> WithVariables(n).vars]
    BY DEF Rewritten
  <2>3. Compiled(n) = [n EXCEPT !.props = q]
    OBVIOUS
  <2> HIDE DEF q, Compiled
  <2>4. Compiled(n).type = n.type /\ Compiled(n).props = q
    BY <2>1, <2>3
  <2>5. Rewritten(n).type = n.type /\ Rewritten(n).props = q
    BY <2>2
  <2> QED
    BY <2>4, <2>5, WellWrittenSame DEF n
<1>7. rewritten <=> uncompiled
  <2> HIDE DEF Compiled, Unknown
  <2> QED
    BY <1>6
<1>8. DOMAIN meaning = DOMAIN node.props
  OBVIOUS
<1>9. Config(meaning).type = "config" /\ Config(meaning).value = meaning
  <2> HIDE DEF meaning
  <2> QED
    BY DEF Config
<1>10. IF unsaved THEN Same(Result, Bad("save"))
       ELSE IF uncompiled THEN Same(Result, Bad("compile"))
       ELSE IF errors # {} THEN Same(Result, failure)
       ELSE /\ Result.type = "config" /\ DOMAIN Result.value = DOMAIN node.props
            /\ \A p \in DOMAIN node.props : Same(Result.value[p], meaning[p])
  <2> HIDE DEF unsaved, uncompiled, rewritten, errors, failure, meaning, node
  <2> QED
    BY <1>4, <1>7, <1>8, <1>9 DEF Same
<1> QED
  BY <1>10 DEF StepsGetWhatWasWritten, Computed

\* An instance gets what the resolvers give for every placeholder, or nothing, for
\* every configuration and set of resolvers.
LEMMA InstancesGetTheirMeaning ==
    ASSUME Inv
    PROVE  InstancesGetResolvedValues
<1>1. SUFFICES ASSUME output # None, input.kind = "instance" PROVE InstancesGetResolvedValues
  BY DEF InstancesGetResolvedValues, Computed
<1> DEFINE rs == input.resolvers
           none == DOMAIN rs = {}
           strings == {p \in DOMAIN input.config : input.config[p].type = "string"}
           Value(p) == IF p \in strings THEN Stands(input.config[p].value, rs) ELSE input.config[p]
           wanted == [p \in DOMAIN input.config |-> Value(p)]
           refused == \E p \in strings : Unresolvable(input.config[p].value, rs)
<1>2. input \in InstanceInputs /\ Result = GotOf(input)
  BY <1>1, KindsAreApart, ResultIs DEF Inv
<1>3. (\A p \in DOMAIN input.config : IsValue(input.config[p])) /\ \A y \in DOMAIN rs : IsResolver(rs[y])
  BY <1>2, InstanceAssumption
<1>4. Result = IF none THEN Config(input.config) ELSE IF refused THEN Bad("resolver") ELSE Config(wanted)
  BY <1>2, <1>3, InstanceMeans
<1>5. DOMAIN wanted = DOMAIN input.config /\ \A p \in DOMAIN input.config : wanted[p] = Value(p)
  OBVIOUS
<1>6. Config(wanted).type = "config" /\ Config(wanted).value = wanted
  <2> HIDE DEF wanted
  <2> QED
    BY DEF Config
<1>7. IF none THEN Same(Result, Config(input.config))
      ELSE IF refused THEN Same(Result, Bad("resolver"))
      ELSE /\ Result.type = "config" /\ DOMAIN Result.value = DOMAIN input.config
           /\ \A p \in DOMAIN input.config : Same(Result.value[p], Value(p))
  <2> HIDE DEF refused, wanted, Value, none
  <2> QED
    BY <1>4, <1>5, <1>6 DEF Same
<1>8. refused <=> \E p \in strings : \E t \in {TemplateOf(input.config[p].value, span) : span \in Patterns(input.config[p].value)} :
                    t[1] \in DOMAIN RunContexts \/ t[1] \notin DOMAIN rs \/ rs[t[1]].type = "error"
  BY DEF Unresolvable
<1> QED
  BY <1>7, <1>8, Zenon DEF InstancesGetResolvedValues, Stands, InstanceText

\* Steps and instances get what their placeholders stand for, or nothing at all,
\* whatever the strings, the environment, the contexts and the resolvers are.
THEOREM PlaceholdersStandForTheirValues == Spec => []PlaceholdersAreResolved
<1>1. Inv => PlaceholdersAreResolved
  BY StepsGetTheirMeaning, InstancesGetTheirMeaning DEF PlaceholdersAreResolved
<1> QED
  BY <1>1, InvIsInductive, PTL
=============================================================================
