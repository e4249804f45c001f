---- MODULE RoutingProofs ----
(***************************************************************************)
(* Theorems about the routing tables for every set of Ingresses, hosts and *)
(* paths: AddRoute keeps the order of priority LookupRoute relies on, the  *)
(* merge gives every host its certificate, LookupHost the closest host.    *)
(***************************************************************************)
EXTENDS ProxyConfig, FiniteSetTheorems, WellFoundedInduction, SequenceTheorems, TLAPS

LEMMA MinProperties ==
  ASSUME NEW I, I \subseteq Nat, I # {}
  PROVE  Min(I) \in I /\ \A i \in I : Min(I) =< i
<1> DEFINE R == OpToRel(<, Nat)
<1>1. IsWellFoundedOn(R, Nat)
  BY NatLessThanWellFounded, Zenon
<1> HIDE DEF R
<1>2. PICK m \in I : \A i \in I : ~(<<i, m>> \in R)
  BY <1>1, WFMin, Zenon
<1>3. \A i \in I : ~(i < m)
  BY <1>2, Zenon DEF R, OpToRel
<1>4. \A i \in I : m =< i
  BY <1>3
<1> QED BY <1>4, Zenon DEF Min

(* s with e at place i. *)
LEMMA InsertAtProperties ==
  ASSUME NEW S, NEW s \in Seq(S), NEW e \in S, NEW i \in 1..Len(s)
  PROVE  /\ InsertAt(s, i, e) \in Seq(S)
         /\ Len(InsertAt(s, i, e)) = Len(s) + 1
         /\ \A k \in 1..Len(s) + 1 :
              InsertAt(s, i, e)[k] = IF k < i THEN s[k] ELSE IF k = i THEN e ELSE s[k - 1]
<1> DEFINE a == SubSeq(s, 1, i - 1)
           b == SubSeq(s, i, Len(s))
           n == Len(s)
<1>0. n \in Nat /\ i \in Nat /\ 1 =< i /\ i =< n
  BY LenProperties
<1>1. a \in Seq(S) /\ Len(a) = i - 1 /\ \A k \in 1..(i - 1) : a[k] = s[k]
  BY <1>0
<1>2. b \in Seq(S) /\ Len(b) = n - i + 1 /\ \A k \in 1..(n - i + 1) : b[k] = s[i + k - 1]
  BY <1>0
<1>3. <<e>> \in Seq(S) /\ Len(<<e>>) = 1 /\ <<e>>[1] = e
  OBVIOUS
<1> HIDE DEF a, b
<1> DEFINE c == a \o <<e>>
<1>4. c \in Seq(S) /\ Len(c) = i /\ \A k \in 1..i : c[k] = IF k < i THEN s[k] ELSE e
  BY <1>0, <1>1, <1>3
<1> HIDE DEF c, n
<1>5. /\ c \o b \in Seq(S) /\ Len(c \o b) = n + 1
      /\ \A k \in 1..(n + 1) : (c \o b)[k] = IF k =< i THEN c[k] ELSE b[k - i]
  <2>1. /\ c \o b \in Seq(S) /\ Len(c \o b) = Len(c) + Len(b)
        /\ \A k \in 1..(Len(c) + Len(b)) : (c \o b)[k] = IF k =< Len(c) THEN c[k] ELSE b[k - Len(c)]
    BY <1>2, <1>4, ConcatProperties, Zenon
  <2>2. Len(c) + Len(b) = n + 1
    BY <1>0, <1>2, <1>4
  <2> QED BY <1>4, <2>1, <2>2
<1>6. ASSUME NEW k \in 1..(n + 1)
      PROVE  (c \o b)[k] = IF k < i THEN s[k] ELSE IF k = i THEN e ELSE s[k - 1]
  <2>1. CASE k =< i
    BY <1>0, <1>4, <1>5, <2>1
  <2>2. CASE i < k
    <3>1. k - i \in 1..(n - i + 1) /\ i + (k - i) - 1 = k - 1
      BY <1>0, <2>2
    <3>2. ~(k =< i) /\ ~(k < i) /\ k # i
      BY <1>0, <2>2
    <3>3. (c \o b)[k] = b[k - i]
      BY <1>5, <3>2
    <3>4. b[k - i] = s[i + (k - i) - 1]
      BY <1>2, <3>1
    <3>5. b[k - i] = s[k - 1]
      BY <3>1, <3>4
    <3> QED BY <3>2, <3>3, <3>5
  <2>3. k \in Nat
    BY <1>0
  <2>4. k =< i \/ i < k
    BY <1>0, <2>3
  <2> QED BY <2>1, <2>2, <2>4, Zenon
<1>7. InsertAt(s, i, e) = c \o b
  BY DEF InsertAt, a, b, c
<1> QED BY <1>0, <1>5, <1>6, <1>7 DEF n

(* What SelectInSeq returns, for the set I of the places that pass its test. *)
FirstOf(I) == IF I # {} THEN Min(I) ELSE 0

LEMMA FirstOfProperties ==
  ASSUME NEW n \in Nat, NEW I, I \subseteq 1..n
  PROVE  /\ FirstOf(I) \in 0..n
         /\ FirstOf(I) = 0 => I = {}
         /\ FirstOf(I) # 0 => FirstOf(I) \in I /\ \A k \in 1..(FirstOf(I) - 1) : k \notin I
<1>1. CASE I = {}
  BY <1>1 DEF FirstOf
<1>2. CASE I # {}
  <2> DEFINE m == Min(I)
  <2>0. I \subseteq Nat
    OBVIOUS
  <2>1. m \in I /\ \A i \in I : m =< i
    BY <1>2, <2>0, MinProperties, Zenon
  <2>2. FirstOf(I) = m
    BY <1>2 DEF FirstOf
  <2> HIDE DEF m
  <2>3. ASSUME NEW k \in 1..(m - 1) PROVE k \notin I
    <3>1. ~(m =< k)
      BY <2>1
    <3> QED BY <2>1, <3>1
  <2> QED BY <2>1, <2>2, <2>3
<1> QED BY <1>1, <1>2

(* AddRoute puts the route at one place and moves nothing else. *)
LEMMA AddRouteProperties ==
  ASSUME NEW routes \in Seq(RouteConfig), NEW route \in RouteConfig
  PROVE  \E i \in 1..Len(routes) + 1 :
           /\ AddRoute(routes, route) \in Seq(RouteConfig)
           /\ Len(AddRoute(routes, route)) = Len(routes) + 1
           /\ \A k \in 1..Len(routes) + 1 : AddRoute(routes, route)[k] =
                IF k < i THEN routes[k] ELSE IF k = i THEN route ELSE routes[k - 1]
           /\ route.exact => i = 1
           /\ ~route.exact => /\ \A k \in 1..(i - 1) : Ahead(routes[k], route)
                              /\ i =< Len(routes) => ~Ahead(routes[i], route)
<1> DEFINE n == Len(routes)
           I == {i \in 1..n : ~Ahead(routes[i], route)}
           j == FirstOf(I)
<1>0. n \in Nat
  BY LenProperties
<1>1. CASE route.exact
  <2>1. AddRoute(routes, route) = <<route>> \o routes
    BY <1>1, Zenon DEF AddRoute
  <2>2. <<route>> \in Seq(RouteConfig) /\ Len(<<route>>) = 1 /\ <<route>>[1] = route
    OBVIOUS
  <2>3. /\ <<route>> \o routes \in Seq(RouteConfig) /\ Len(<<route>> \o routes) = 1 + n
        /\ \A k \in 1..(1 + n) : (<<route>> \o routes)[k] = IF k =< 1 THEN <<route>>[k] ELSE routes[k - 1]
    BY <2>2, ConcatProperties
  <2> HIDE DEF n
  <2>4. \A k \in 1..(n + 1) : (<<route>> \o routes)[k] =
           IF k < 1 THEN routes[k] ELSE IF k = 1 THEN route ELSE routes[k - 1]
    BY <1>0, <2>2, <2>3
  <2>5. 1 \in 1..(n + 1) /\ 1 + n = n + 1
    BY <1>0
  <2> QED BY <1>1, <2>1, <2>3, <2>4, <2>5 DEF n
<1>2. CASE ~route.exact
  <2>1. /\ j \in 0..n /\ j = 0 => I = {}
        /\ j # 0 => j \in I /\ \A k \in 1..(j - 1) : k \notin I
    BY <1>0, FirstOfProperties, ZenonT(40)
  <2>2. AddRoute(routes, route) = IF j = 0 THEN Append(routes, route) ELSE InsertAt(routes, j, route)
    BY <1>2, Zenon DEF AddRoute, SelectInSeq, FirstOf
  <2> HIDE DEF j
  <2>3. CASE j = 0
    <3>1. AddRoute(routes, route) = Append(routes, route)
      BY <2>2, <2>3
    <3>2. \A k \in 1..n : Ahead(routes[k], route)
      BY <2>1, <2>3
    <3>3. n + 1 \in 1..(n + 1) /\ ~(n + 1 =< n) /\ 1..((n + 1) - 1) = 1..n
      BY <1>0
    <3>4. /\ Append(routes, route) \in Seq(RouteConfig) /\ Len(Append(routes, route)) = n + 1
          /\ \A k \in 1..(n + 1) : Append(routes, route)[k] =
               IF k < n + 1 THEN routes[k] ELSE IF k = n + 1 THEN route ELSE routes[k - 1]
      BY <1>0
    <3> QED BY <1>2, <3>1, <3>2, <3>3, <3>4
  <2>4. CASE j # 0
    <3>1. AddRoute(routes, route) = InsertAt(routes, j, route) /\ j \in 1..n
      BY <2>1, <2>2, <2>4
    <3>2. ~Ahead(routes[j], route) /\ j \in 1..(n + 1)
      BY <1>0, <2>1, <2>4
    <3>3. ASSUME NEW k \in 1..(j - 1) PROVE Ahead(routes[k], route)
      BY <1>0, <2>1, <2>4, <3>1
    <3>4. /\ InsertAt(routes, j, route) \in Seq(RouteConfig)
          /\ Len(InsertAt(routes, j, route)) = n + 1
          /\ \A k \in 1..(n + 1) : InsertAt(routes, j, route)[k] =
               IF k < j THEN routes[k] ELSE IF k = j THEN route ELSE routes[k - 1]
      BY <3>1, InsertAtProperties
    <3> QED BY <1>2, <3>1, <3>2, <3>3, <3>4, Zenon
  <2> QED BY <2>3, <2>4
<1> QED BY <1>1, <1>2

LEMMA PathLength == ASSUME NEW r \in RouteConfig PROVE Len(r.path) \in Nat
BY RoutingAssumption, LenProperties DEF RouteConfig

(* AddRoute keeps exact paths first and longer prefixes before shorter ones. *)
THEOREM AddRouteSorted ==
  ASSUME NEW routes \in Seq(RouteConfig), NEW route \in RouteConfig, Sorted(routes)
  PROVE  Sorted(AddRoute(routes, route))
<1> DEFINE n == Len(routes)
           new == AddRoute(routes, route)
<1>0. n \in Nat /\ \A k \in 1..n : routes[k] \in RouteConfig
  BY LenProperties
<1>1. PICK i \in 1..(n + 1) :
        /\ Len(new) = n + 1
        /\ \A k \in 1..(n + 1) :
             new[k] = IF k < i THEN routes[k] ELSE IF k = i THEN route ELSE routes[k - 1]
        /\ route.exact => i = 1
        /\ ~route.exact => /\ \A k \in 1..(i - 1) : Ahead(routes[k], route)
                           /\ i =< n => ~Ahead(routes[i], route)
  BY AddRouteProperties, Zenon
<1>2. \A a, b \in 1..n : a < b => InOrder(routes[a], routes[b])
  BY DEF Sorted
<1> HIDE DEF n, new
<1>3. ASSUME NEW a \in 1..(n + 1), NEW b \in 1..(n + 1), a < b PROVE InOrder(new[a], new[b])
  <2>0. a \in Nat /\ b \in Nat /\ i \in Nat
    BY <1>0
  <2>1. CASE b < i
    BY <1>0, <1>1, <1>2, <1>3, <2>0, <2>1
  <2>2. CASE b = i
    <3>1. new[a] = routes[a] /\ new[b] = route /\ a \in 1..(i - 1) /\ i # 1 /\ a \in 1..n
      BY <1>0, <1>1, <1>3, <2>0, <2>2
    <3>2. Ahead(routes[a], route) /\ ~route.exact
      BY <1>1, <3>1
    <3>3. Len(routes[a].path) \in Nat /\ Len(route.path) \in Nat
      BY <1>0, <3>1, PathLength
    <3> QED BY <3>1, <3>2, <3>3 DEF Ahead, InOrder
  <2>3. CASE a = i
    <3>1. new[a] = route /\ new[b] = routes[b - 1] /\ b - 1 \in 1..n /\ i =< n /\ i =< b - 1
      BY <1>0, <1>1, <1>3, <2>0, <2>3
    <3>2. CASE route.exact
      BY <3>1, <3>2 DEF InOrder
    <3>3. CASE ~route.exact
      <4>1. ~Ahead(routes[i], route) /\ i \in 1..n
        BY <1>0, <1>1, <3>1, <3>3
      <4>2. i = b - 1 \/ InOrder(routes[i], routes[b - 1])
        BY <1>2, <2>0, <3>1, <4>1
      <4>3. Len(routes[i].path) \in Nat /\ Len(route.path) \in Nat /\ Len(routes[b - 1].path) \in Nat
        BY <1>0, <3>1, <4>1, PathLength
      <4>4. ~routes[i].exact /\ ~(Len(routes[i].path) > Len(route.path))
        BY <4>1 DEF Ahead
      <4>5. ~routes[b - 1].exact /\ Len(routes[b - 1].path) =< Len(routes[i].path)
        <5>1. CASE i = b - 1
          BY <4>3, <4>4, <5>1
        <5>2. CASE InOrder(routes[i], routes[b - 1])
          BY <4>4, <5>2 DEF InOrder
        <5> QED BY <4>2, <5>1, <5>2
      <4> DEFINE x == Len(routes[b - 1].path)
                 y == Len(routes[i].path)
                 z == Len(route.path)
      <4>6. x \in Nat /\ y \in Nat /\ z \in Nat /\ x =< y /\ ~(y > z)
        BY <4>3, <4>4, <4>5
      <4>7. x =< z
        <5> HIDE DEF x, y, z
        <5> QED BY <4>6
      <4> QED BY <3>1, <4>5, <4>7 DEF InOrder
    <3> QED BY <3>2, <3>3
  <2>4. CASE a < i /\ i < b
    <3>1. new[a] = routes[a] /\ new[b] = routes[b - 1] /\ a \in 1..n /\ b - 1 \in 1..n /\ a < b - 1
      BY <1>0, <1>1, <1>3, <2>0, <2>4
    <3> QED BY <1>2, <3>1
  <2>5. CASE i < a
    <3>1. /\ new[a] = routes[a - 1] /\ new[b] = routes[b - 1]
          /\ a - 1 \in 1..n /\ b - 1 \in 1..n /\ a - 1 < b - 1
      BY <1>0, <1>1, <1>3, <2>0, <2>5
    <3> QED BY <1>2, <3>1
  <2> QED BY <1>3, <2>0, <2>1, <2>2, <2>3, <2>4, <2>5
<1> QED BY <1>1, <1>3 DEF Sorted, new

(* In a sorted table the first match LookupRoute returns is the best one, and
   an empty path panics only where nothing else matches.                     *)
THEOREM LookupRouteBest ==
  ASSUME NEW routes \in Seq(RouteConfig), NEW path, Sorted(routes)
  PROVE  IsBest(LookupRoute(routes, path), routes, path)
<1> DEFINE n == Len(routes)
           I == {i \in 1..n : Panics(routes[i]) \/ MatchesPath(routes[i], path)}
           j == FirstOf(I)
           M == {q \in Range(routes) : ~Panics(q) /\ MatchesPath(q, path)}
           E == {q \in Range(routes) : Panics(q)}
           r == LookupRoute(routes, path)
<1>0. n \in Nat /\ (\A k \in 1..n : routes[k] \in RouteConfig) /\ Range(routes) = {routes[k] : k \in 1..n}
  BY LenProperties DEF Range
<1>1. /\ j \in 0..n /\ j = 0 => I = {}
      /\ j # 0 => j \in I /\ \A k \in 1..(j - 1) : k \notin I
  BY <1>0, FirstOfProperties, ZenonT(40)
<1>2. r = IF j = 0 THEN NONE ELSE IF Panics(routes[j]) THEN PANIC ELSE routes[j]
  BY Zenon DEF LookupRoute, SelectInSeq, FirstOf
<1>3. IsBest(r, routes, path) <=>
        IF M # {} THEN r \in M /\ \A q \in M : InOrder(r, q)
        ELSE r = IF E # {} THEN PANIC ELSE NONE
  BY DEF IsBest
<1>4. \A a, b \in 1..n : a < b => InOrder(routes[a], routes[b])
  BY DEF Sorted
<1> SUFFICES IsBest(r, routes, path)
  OBVIOUS
<1> HIDE DEF n, j, r
<1>5. CASE j = 0
  <2>1. M = {} /\ E = {}
    BY <1>0, <1>1, <1>5
  <2> QED
    <3> HIDE DEF M, E
    <3> QED BY <1>2, <1>3, <1>5, <2>1
<1>6. CASE j # 0
  <2>1. j \in 1..n /\ (Panics(routes[j]) \/ MatchesPath(routes[j], path))
    BY <1>1, <1>6
  <2>2. ASSUME NEW k \in 1..n, Panics(routes[k]) \/ MatchesPath(routes[k], path)
        PROVE  k = j \/ InOrder(routes[j], routes[k])
    <3>1. k \in I /\ k \notin 1..(j - 1)
      BY <1>1, <1>6, <2>2
    <3>2. k = j \/ j < k
      BY <1>0, <2>1, <3>1
    <3> QED BY <1>4, <2>1, <3>2
  <2>3. CASE Panics(routes[j])
    <3>1. ASSUME NEW q \in M PROVE FALSE
      <4>1. PICK k \in 1..n : q = routes[k]
        BY <1>0
      <4>2. k # j /\ InOrder(routes[j], q)
        BY <2>2, <2>3, <4>1
      <4>3. ~q.exact /\ Len(q.path) =< 0 /\ q.path \in Seq(STRING)
        <5>1. ~q.exact /\ Len(q.path) =< Len(routes[j].path) /\ routes[j].path = <<>>
          BY <2>3, <4>2 DEF InOrder, Panics
        <5>2. q.path \in Seq(STRING)
          BY <1>0, <4>1, RoutingAssumption DEF RouteConfig
        <5> QED BY <5>1, <5>2
      <4>4. q.path = <<>>
        BY <4>3, EmptySeq, LenProperties
      <4> QED BY <4>3, <4>4 DEF Panics
    <3>2. routes[j] \in E
      BY <1>0, <2>1, <2>3
    <3> QED
      <4> HIDE DEF M, E
      <4> QED BY <1>2, <1>3, <1>6, <2>3, <3>1, <3>2
  <2>4. CASE ~Panics(routes[j])
    <3>1. r = routes[j] /\ r \in M
      BY <1>0, <1>2, <1>6, <2>1, <2>4
    <3>2. ASSUME NEW q \in M PROVE InOrder(r, q)
      <4>1. PICK k \in 1..n : q = routes[k]
        BY <1>0
      <4>2. k = j \/ InOrder(routes[j], routes[k])
        BY <2>2, <4>1
      <4>3. Len(r.path) \in Nat
        BY <1>0, <2>1, <3>1, PathLength
      <4> QED BY <3>1, <4>1, <4>2, <4>3 DEF InOrder
    <3> QED
      <4> HIDE DEF M, E
      <4> QED BY <1>3, <3>1, <3>2
  <2> QED BY <2>3, <2>4
<1> QED BY <1>5, <1>6

----------------------------------------------------------------------------
LEMMA AddRouteType ==
  ASSUME NEW routes \in Seq(RouteConfig), NEW route \in RouteConfig
  PROVE  AddRoute(routes, route) \in Seq(RouteConfig)
BY AddRouteProperties

LEMMA ProcessTlsType ==
  ASSUME NEW items \in Seq(TlsHost), NEW h
  PROVE  processIngressTls(items, h) \in Certs \cup {NONE}
<1> DEFINE n == Len(items)
           I == {k \in 1..n : items[k].host = h}
           j == FirstOf(I)
<1>0. n \in Nat /\ \A k \in 1..n : items[k] \in TlsHost
  BY LenProperties
<1>1. j \in 0..n
  BY <1>0, FirstOfProperties
<1>2. processIngressTls(items, h) = IF j = 0 THEN NONE ELSE items[j].cert
  BY Zenon DEF processIngressTls, SelectInSeq, FirstOf
<1> HIDE DEF n, j
<1>3. j # 0 => j \in 1..n
  BY <1>0, <1>1
<1> QED BY <1>0, <1>2, <1>3 DEF TlsHost

SortedTable(table) == \A h \in HostNames : Sorted(table[h])

(* Every table AddRoute works on is sorted, not only the one that is served. *)
TablesSorted ==
  /\ \A i \in Names : SortedTable(entries[i])
  /\ SortedTable(bHosts) /\ SortedTable(hosts) /\ SortedTable(served)

MergeInv == TypeOK /\ (todo # <<>> => building \in Names) /\ TablesSorted

LEMMA NoRoutesOK == NoRoutes \in RouteTable /\ SortedTable(NoRoutes)
<1>1. <<>> \in Seq(RouteConfig) /\ Len(<<>>) = 0
  OBVIOUS
<1>2. Sorted(<<>>)
  BY <1>1 DEF Sorted
<1> QED BY <1>1, <1>2 DEF NoRoutes, RouteTable, SortedTable

LEMMA NoCertsOK == NoCerts \in CertTable
BY DEF NoCerts, CertTable

(* A table stays a sorted table when AddRoute adds to one of its hosts. *)
LEMMA TableAddRoute ==
  ASSUME NEW table \in RouteTable, SortedTable(table),
         NEW h \in HostNames, NEW route \in RouteConfig
  PROVE  LET new == [table EXCEPT ![h] = AddRoute(@, route)]
         IN  new \in RouteTable /\ SortedTable(new)
<1>1. table[h] \in Seq(RouteConfig) /\ Sorted(table[h])
  BY DEF RouteTable, SortedTable
<1>2. AddRoute(table[h], route) \in Seq(RouteConfig) /\ Sorted(AddRoute(table[h], route))
  BY <1>1, AddRouteType, AddRouteSorted
<1> QED BY <1>2 DEF RouteTable, SortedTable

LEMMA MergeInit == Init => MergeInv
<1> SUFFICES ASSUME Init PROVE MergeInv
  OBVIOUS
<1>1. merging \in BOOLEAN
  BY Zenon DEF Init
<1>2. entries \in [Names -> RouteTable] /\ entryTls \in [Names -> CertTable]
  BY NoRoutesOK, NoCertsOK DEF Init
<1>3. TypeOK
  BY <1>1, <1>2, NoRoutesOK, NoCertsOK DEF Init, TypeOK
<1>4. TablesSorted
  BY NoRoutesOK DEF Init, TablesSorted
<1> QED BY <1>3, <1>4 DEF Init, MergeInv

LEMMA MergeStep == MergeInv /\ [Next]_vars => MergeInv'
<1> SUFFICES ASSUME MergeInv, [Next]_vars PROVE MergeInv'
  OBVIOUS
<1> USE DEF MergeInv, entryVars, buildVars, mergeVars, servedVars
<1>1. ASSUME NEW i \in Names, removeIngress(i) PROVE MergeInv'
  BY <1>1, NoRoutesOK, NoCertsOK DEF removeIngress, TypeOK, TablesSorted
<1>2. ASSUME NEW i \in Names, nextEntry(i) PROVE MergeInv'
  BY <1>2 DEF nextEntry, TypeOK, TablesSorted
<1>3. ASSUME NEW i \in Names, NEW spec \in Specs, reconcileIngress(i, spec) PROVE MergeInv'
  <2>1. spec.rules \in Seq(Rule) /\ spec.tls \in Seq(TlsHost)
    BY SpecsAssumption DEF IngressSpec
  <2>2. [h \in HostNames |-> processIngressTls(spec.tls, h)] \in CertTable
    BY <2>1, ProcessTlsType DEF CertTable
  <2> QED BY <1>3, <2>1, <2>2, NoRoutesOK DEF reconcileIngress, TypeOK, TablesSorted
<1>4. ASSUME addPath PROVE MergeInv'
  <2> DEFINE rule == Head(todo)
             route == routeOf(rule)
  <2>1. todo # <<>> /\ todo \in Seq(Rule) /\ building \in Names
    BY <1>4 DEF addPath, TypeOK
  <2>2. rule \in Rule /\ Tail(todo) \in Seq(Rule)
    BY <2>1
  <2> HIDE DEF rule
  <2>3. mapPathType(rule.pathType) \in BOOLEAN
    <3>1. mapPathType(rule.pathType) = TRUE \/ mapPathType(rule.pathType) = FALSE
      BY DEF mapPathType
    <3> QED BY <3>1, Zenon
  <2>4. route \in RouteConfig /\ rule.host \in HostNames
    BY <2>1, <2>2, <2>3 DEF RouteConfig, Rule, routeOf
  <2>5. bHosts' \in RouteTable /\ SortedTable(bHosts')
    <3> HIDE DEF route
    <3>1. bHosts' = IF rule.service THEN [bHosts EXCEPT ![rule.host] = AddRoute(@, route)] ELSE bHosts
      BY <1>4 DEF addPath, rule, route
    <3>2. bHosts \in RouteTable /\ SortedTable(bHosts)
      BY DEF TypeOK, TablesSorted
    <3> QED BY <2>4, <3>1, <3>2, TableAddRoute
  <2> HIDE DEF route
  <2>6. /\ todo' = Tail(todo) /\ UNCHANGED <<entries, entryTls, building, bTls>>
        /\ UNCHANGED mergeVars /\ UNCHANGED servedVars
    BY <1>4 DEF addPath
  <2> QED BY <2>1, <2>2, <2>5, <2>6 DEF TypeOK, TablesSorted
<1>5. ASSUME updateIngress PROVE MergeInv'
  BY <1>5 DEF updateIngress, TypeOK, TablesSorted
<1>6. ASSUME getProxyConfig PROVE MergeInv'
  <2>1. merging' \in BOOLEAN
    BY <1>6, Zenon DEF getProxyConfig
  <2> QED BY <1>6, <2>1, NoRoutesOK, NoCertsOK DEF getProxyConfig, TypeOK, TablesSorted
<1>7. ASSUME NEW h \in HostNames, mergeRoute(h) PROVE MergeInv'
  <2> DEFINE route == Head(curLeft[h])
  <2>1. curLeft[h] \in Seq(RouteConfig) /\ curLeft[h] # <<>> /\ curLeft \in RouteTable
    BY <1>7 DEF mergeRoute, TypeOK, RouteTable
  <2>2. route \in RouteConfig /\ Tail(curLeft[h]) \in Seq(RouteConfig)
    BY <2>1
  <2>3. curLeft' \in RouteTable
    BY <1>7, <2>1, <2>2 DEF mergeRoute, RouteTable
  <2>4. hosts \in RouteTable /\ SortedTable(hosts)
    BY DEF TypeOK, TablesSorted
  <2> HIDE DEF route
  <2>5. hosts' = [hosts EXCEPT ![h] = AddRoute(@, route)]
    BY <1>7 DEF mergeRoute, addToHost, route
  <2>6. hosts' \in RouteTable /\ SortedTable(hosts')
    BY <2>2, <2>4, <2>5, TableAddRoute, Zenon
  <2>7. curHost' \in HostNames \cup {NONE} /\ UNCHANGED <<entryVars, buildVars, merging, left, cur, tls, servedVars>>
    BY <1>7 DEF mergeRoute
  <2> QED BY <2>3, <2>6, <2>7 DEF TypeOK, TablesSorted
<1>8. ASSUME mergeTls PROVE MergeInv'
  <2>1. tls' \in CertTable
    BY <1>8 DEF mergeTls, addCertificates, TypeOK, CertTable
  <2> QED BY <1>8, <2>1 DEF mergeTls, TypeOK, TablesSorted
<1>9. ASSUME publish PROVE MergeInv'
  <2>1. merging' \in BOOLEAN
    BY <1>9, Zenon DEF publish
  <2> QED BY <1>9, <2>1 DEF publish, TypeOK, TablesSorted
<1>10. ASSUME UNCHANGED vars PROVE MergeInv'
  BY <1>10 DEF vars, TypeOK, TablesSorted
<1> QED BY <1>1, <1>2, <1>3, <1>4, <1>5, <1>6, <1>7, <1>8, <1>9, <1>10, SMTT(30) DEF Next

(* Whatever Ingresses there are and whatever order getProxyConfig walks its
   maps in, every request is answered by the best route of its host.         *)
THEOREM LookupBestCorrect == Spec => []LookupBest
<1>1. Init => MergeInv
  BY MergeInit
<1>2. MergeInv /\ [Next]_vars => MergeInv'
  BY MergeStep
<1>3. MergeInv => LookupBest
  BY LookupRouteBest DEF MergeInv, TypeOK, TablesSorted, SortedTable, RouteTable, LookupBest
<1> QED BY <1>1, <1>2, <1>3, PTL DEF Spec

(* Every table keeps its type, for any Ingresses, hosts, paths and certificates. *)
THEOREM TypeCorrect == Spec => []TypeOK
<1>1. MergeInv => TypeOK
  BY DEF MergeInv
<1> QED BY <1>1, MergeInit, MergeStep, PTL DEF Spec

----------------------------------------------------------------------------
(* What the entries merged so far have to do with the certificate of a host. *)
CertOf(h) ==
  /\ \A i \in Names \ left : entryTls[i][h] # NONE => tls[h] # NONE
  /\ tls[h] # NONE => \E i \in Names \ left : tls[h] = entryTls[i][h]

(* The lock keeps the entries as they are while they are merged. *)
CertInv ==
  /\ merging => building = NONE
  /\ cur # NONE => merging /\ cur \in left
  /\ merging => \A h \in HostNames : CertOf(h)

(* Every step keeps it, in whatever order the entries come. *)
LEMMA CertStep == MergeInv /\ CertInv /\ [Next]_vars => CertInv'
<1> SUFFICES ASSUME MergeInv, CertInv, [Next]_vars PROVE CertInv'
  OBVIOUS
<1> USE DEF entryVars, buildVars, mergeVars, servedVars
<1>0. NONE \notin Names
  BY SpecsAssumption
<1>1. ASSUME NEW i \in Names, removeIngress(i) PROVE CertInv'
  BY <1>1 DEF removeIngress, Unlocked, CertInv
<1>2. ASSUME NEW i \in Names, nextEntry(i) PROVE CertInv'
  BY <1>2 DEF nextEntry, CertInv, CertOf
<1>3. ASSUME NEW i \in Names, NEW spec \in Specs, reconcileIngress(i, spec) PROVE CertInv'
  BY <1>3 DEF reconcileIngress, Unlocked, CertInv
<1>4. CASE addPath
  BY <1>4 DEF addPath, CertInv, CertOf
<1>5. CASE updateIngress
  BY <1>5 DEF updateIngress, CertInv
<1>6. CASE getProxyConfig
  BY <1>6 DEF getProxyConfig, Unlocked, NoCerts, CertInv, CertOf
<1>7. ASSUME NEW h \in HostNames, mergeRoute(h) PROVE CertInv'
  BY <1>7 DEF mergeRoute, CertInv, CertOf
<1>8. CASE mergeTls
  <2>1. /\ cur \in left /\ cur \in Names /\ left \subseteq Names /\ cur' = NONE /\ left' = left \ {cur}
        /\ merging /\ UNCHANGED <<merging, building, entryTls>>
        /\ tls' = [h \in HostNames |-> IF tls[h] = NONE THEN entryTls[cur][h] ELSE tls[h]]
    BY <1>8 DEF mergeTls, addCertificates, CertInv, MergeInv, TypeOK
  <2>2. Names \ left' = (Names \ left) \cup {cur}
    BY <2>1
  <2>3. ASSUME NEW h \in HostNames PROVE CertOf(h)'
    <3>1. CertOf(h) /\ tls'[h] = IF tls[h] = NONE THEN entryTls[cur][h] ELSE tls[h]
      BY <2>1 DEF CertInv
    <3> QED BY <2>1, <2>2, <3>1 DEF CertOf
  <2> QED BY <2>1, <2>3 DEF CertInv
<1>9. CASE publish
  BY <1>9 DEF publish, CertInv
<1>10. CASE UNCHANGED vars
  BY <1>10 DEF vars, CertInv, CertOf
<1> QED BY <1>1, <1>2, <1>3, <1>4, <1>5, <1>6, <1>7, <1>8, <1>9, <1>10, SMTT(30) DEF Next

(* GetCertificate finds the certificate of an Ingress that has exactly the server
   name, whatever the order of the merge, and the default one only when none has. *)
THEOREM CertificateCorrect == Spec => []CertificateOfSomeIngress
<1>1. Init => MergeInv /\ CertInv
  <2>1. Init => CertInv
    BY DEF Init, CertInv
  <2> QED BY <2>1, MergeInit
<1>2. MergeInv /\ CertInv /\ [Next]_vars => MergeInv' /\ CertInv'
  BY MergeStep, CertStep
<1>3. CertInv => CertificateOfSomeIngress
  <2> SUFFICES ASSUME CertInv, merging, left = {}, NEW h \in HostNames
               PROVE  LET given == {entryTls[i][h] : i \in Names} \ {NONE}
                          answer == GetCertificate(tls, h)
                      IN  IF given = {} THEN answer = DefaultTls ELSE answer \in given
    BY DEF CertificateOfSomeIngress
  <2>1. CertOf(h) /\ Names \ left = Names
    BY DEF CertInv
  <2> QED BY <2>1 DEF CertOf, GetCertificate
<1> QED BY <1>1, <1>2, <1>3, PTL DEF Spec

----------------------------------------------------------------------------
(* t is s with e put in at place i. *)
Inserted(s, t, i, e) ==
  /\ i \in 1..Len(s) + 1 /\ Len(t) = Len(s) + 1
  /\ \A k \in 1..Len(s) + 1 : t[k] = IF k < i THEN s[k] ELSE IF k = i THEN e ELSE s[k - 1]

(* One more copy of e, and as many of the rest. *)
LEMMA CopiesInserted ==
  ASSUME NEW s \in Seq(RouteConfig), NEW t \in Seq(RouteConfig), NEW e, NEW r, NEW i,
         Inserted(s, t, i, e)
  PROVE  /\ Copies(s, r) \in Nat
         /\ Copies(t, r) = IF e = r THEN Copies(s, r) + 1 ELSE Copies(s, r)
<1> DEFINE n == Len(s)
           P == {k \in 1..n : s[k] = r}
           Q == {k \in 1..(n + 1) : t[k] = r}
           f == [k \in P |-> IF k < i THEN k ELSE k + 1]
<1>0. n \in Nat /\ i \in 1..(n + 1) /\ DOMAIN s = 1..n /\ DOMAIN t = 1..(n + 1)
  BY LenProperties DEF Inserted
<1>a. \A k \in 1..(n + 1) : t[k] = IF k < i THEN s[k] ELSE IF k = i THEN e ELSE s[k - 1]
  BY DEF Inserted
<1>1. Copies(s, r) = Cardinality(P) /\ Copies(t, r) = Cardinality(Q)
  BY <1>0, Zenon DEF Copies
<1>2. IsFiniteSet(1..n) /\ IsFiniteSet(1..(n + 1))
  BY <1>0, FS_Interval
<1>3. IsFiniteSet(P) /\ IsFiniteSet(Q) /\ Cardinality(P) \in Nat
  <2>1. P \subseteq 1..n /\ Q \subseteq 1..(n + 1)
    OBVIOUS
  <2> HIDE DEF P, Q
  <2> QED BY <1>2, <2>1, FS_Subset, FS_CardinalityType, Zenon
<1> HIDE DEF n
<1>4. ASSUME NEW k \in P PROVE f[k] \in Q \ {i}
  BY <1>0, <1>a, <1>4
<1>5. ASSUME NEW a \in P, NEW b \in P, f[a] = f[b] PROVE a = b
  BY <1>0, <1>5
<1>6. ASSUME NEW k \in Q \ {i} PROVE \E a \in P : f[a] = k
  <2>1. CASE k < i
    <3>1. k \in P
      BY <1>0, <1>a, <2>1
    <3> QED BY <2>1, <3>1
  <2>2. CASE ~(k < i)
    <3>1. k - 1 \in P /\ ~(k - 1 < i) /\ (k - 1) + 1 = k
      BY <1>0, <1>a, <2>2
    <3> QED BY <3>1
  <2> QED BY <2>1, <2>2
<1>7. ExistsBijection(P, Q \ {i})
  <2> HIDE DEF P, Q, f
  <2>1. f \in [P -> Q \ {i}]
    BY <1>4 DEF f
  <2>2. f \in Bijection(P, Q \ {i})
    BY <1>5, <1>6, <2>1 DEF Bijection, Injection, IsInjective, Surjection
  <2> QED BY <2>2 DEF ExistsBijection
<1>8. Cardinality(Q \ {i}) = Cardinality(P)
  <2> HIDE DEF P, Q
  <2> QED BY <1>3, <1>7, FS_Bijection, Zenon
<1>9. i \in Q <=> e = r
  BY <1>0, <1>a
<1>10. /\ Cardinality(Q) \in Nat
       /\ Cardinality(Q \ {i}) = IF i \in Q THEN Cardinality(Q) - 1 ELSE Cardinality(Q)
  <2> HIDE DEF P, Q
  <2> QED BY <1>3, FS_CardinalityType, FS_RemoveElement, Zenon
<1> HIDE DEF P, Q
<1> QED BY <1>1, <1>3, <1>8, <1>9, <1>10

LEMMA CopiesEmpty == \A r : Copies(<<>>, r) = 0
<1>1. DOMAIN <<>> = {}
  OBVIOUS
<1>2. \A r : {k \in {} : <<>>[k] = r} = {}
  OBVIOUS
<1> QED BY <1>1, <1>2, FS_EmptySet, Zenon DEF Copies

LEMMA AddRouteInserts ==
  ASSUME NEW routes \in Seq(RouteConfig), NEW route \in RouteConfig
  PROVE  /\ AddRoute(routes, route) \in Seq(RouteConfig)
         /\ \E i : Inserted(routes, AddRoute(routes, route), i, route)
<1> DEFINE new == AddRoute(routes, route)
<1>1. \E i \in 1..Len(routes) + 1 :
        /\ new \in Seq(RouteConfig)
        /\ Len(new) = Len(routes) + 1
        /\ \A k \in 1..Len(routes) + 1 : new[k] =
             IF k < i THEN routes[k] ELSE IF k = i THEN route ELSE routes[k - 1]
        /\ route.exact => i = 1
        /\ ~route.exact => /\ \A k \in 1..(i - 1) : Ahead(routes[k], route)
                           /\ i =< Len(routes) => ~Ahead(routes[i], route)
  BY AddRouteProperties, Zenon
<1> QED BY <1>1, Zenon DEF Inserted

LEMMA CopiesAddRoute ==
  ASSUME NEW routes \in Seq(RouteConfig), NEW route \in RouteConfig, NEW r
  PROVE  /\ Copies(routes, r) \in Nat
         /\ Copies(AddRoute(routes, route), r) =
              IF route = r THEN Copies(routes, r) + 1 ELSE Copies(routes, r)
BY AddRouteInserts, CopiesInserted

(* What mergeRoute takes from an entry. *)
LEMMA CopiesTail ==
  ASSUME NEW s \in Seq(RouteConfig), s # <<>>, NEW r
  PROVE  /\ Copies(Tail(s), r) \in Nat
         /\ Copies(s, r) = IF Head(s) = r THEN Copies(Tail(s), r) + 1 ELSE Copies(Tail(s), r)
<1> DEFINE t == Tail(s)
<1>1. t \in Seq(RouteConfig) /\ Inserted(t, s, 1, Head(s))
  BY LenProperties DEF Inserted
<1> HIDE DEF t
<1>3. Copies(t, r) \in Nat /\ Copies(s, r) = IF Head(s) = r THEN Copies(t, r) + 1 ELSE Copies(t, r)
  BY <1>1, CopiesInserted
<1> QED BY <1>3 DEF t

(* Every route of the table is one of the Ingress i. *)
RoutesOf(table, i) == \A h \in HostNames : \A k \in DOMAIN table[h] : table[h][k].ingress = i

(* Where the copies of a route are while the entries are merged: still in its
   entry, partly in the list the walk has yet to take, or in the new table.  *)
Counted(h, r) ==
  IF r.ingress = cur THEN Copies(hosts[h], r) + Copies(curLeft[h], r) = Copies(entries[cur][h], r)
  ELSE Copies(hosts[h], r) = IF r.ingress \in left THEN 0 ELSE Copies(entries[r.ingress][h], r)

OwnRoutes ==
  /\ \A i \in Names : RoutesOf(entries[i], i)
  /\ building # NONE => RoutesOf(bHosts, building)
  /\ cur # NONE => RoutesOf(curLeft, cur)

CountInv == OwnRoutes /\ (merging => \A h \in HostNames, r \in RouteConfig : Counted(h, r))

(* A table whose routes are all of i keeps that when a route of i is added. *)
LEMMA RoutesOfAdd ==
  ASSUME NEW table \in RouteTable, NEW h \in HostNames, NEW route \in RouteConfig,
         RoutesOf(table, route.ingress)
  PROVE  RoutesOf([table EXCEPT ![h] = AddRoute(@, route)], route.ingress)
<1> DEFINE new == AddRoute(table[h], route)
<1>1. table[h] \in Seq(RouteConfig) /\ Len(table[h]) \in Nat
  BY LenProperties DEF RouteTable
<1>2. PICK i : new \in Seq(RouteConfig) /\ Inserted(table[h], new, i, route)
  BY <1>1, AddRouteInserts
<1> HIDE DEF new
<1>3. ASSUME NEW k \in DOMAIN new PROVE new[k].ingress = route.ingress
  <2>1. k \in 1..Len(table[h]) + 1 /\ i \in 1..Len(table[h]) + 1
    BY <1>2, <1>3 DEF Inserted
  <2>2. new[k] = IF k < i THEN table[h][k] ELSE IF k = i THEN route ELSE table[h][k - 1]
    BY <1>2, <2>1 DEF Inserted
  <2>3. k < i => k \in DOMAIN table[h]
    BY <1>1, <2>1
  <2>4. ~(k < i) /\ k # i => k - 1 \in DOMAIN table[h]
    BY <1>1, <2>1
  <2> QED BY <2>2, <2>3, <2>4, <1>1 DEF RoutesOf
<1>4. [table EXCEPT ![h] = new] = [g \in HostNames |-> IF g = h THEN new ELSE table[g]]
  BY DEF RouteTable
<1> QED BY <1>3, <1>4 DEF RoutesOf, new

LEMMA RoutesOfNone == \A i : RoutesOf(NoRoutes, i)
<1>1. DOMAIN <<>> = {}
  OBVIOUS
<1> QED BY <1>1 DEF RoutesOf, NoRoutes

(* Every step keeps the count, in whatever order the routes come. *)
LEMMA CountStep == MergeInv /\ CertInv /\ CountInv /\ [Next]_vars => CountInv'
<1> SUFFICES ASSUME MergeInv, CertInv, CountInv, [Next]_vars PROVE CountInv'
  OBVIOUS
<1> USE DEF entryVars, buildVars, mergeVars, servedVars
<1>0. NONE \notin Names /\ \A r \in RouteConfig : r.ingress \in Names
  BY SpecsAssumption DEF RouteConfig
<1>a. \A routes \in Seq(RouteConfig), r \in RouteConfig : Copies(routes, r) \in Nat
  BY CopiesAddRoute
<1>t. /\ entries \in [Names -> RouteTable] /\ bHosts \in RouteTable /\ hosts \in RouteTable
      /\ curLeft \in RouteTable /\ cur \in Names \cup {NONE} /\ building \in Names \cup {NONE}
  BY DEF MergeInv, TypeOK
<1>c. (merging => building = NONE) /\ (cur # NONE => merging /\ cur \in left)
  BY DEF CertInv
<1>1. ASSUME NEW i \in Names, removeIngress(i) PROVE CountInv'
  BY <1>1, <1>t, <1>c, RoutesOfNone DEF removeIngress, Unlocked, CountInv, OwnRoutes
<1>2. ASSUME NEW i \in Names, nextEntry(i) PROVE CountInv'
  <2>1. /\ merging /\ cur = NONE /\ i \in left /\ cur' = i /\ curLeft' = entries[i]
        /\ UNCHANGED <<entries, merging, left, hosts, building, bHosts>>
    BY <1>2 DEF nextEntry
  <2>2. OwnRoutes'
    BY <2>1 DEF CountInv, OwnRoutes
  <2>3. ASSUME NEW h \in HostNames, NEW r \in RouteConfig PROVE Counted(h, r)'
    <3>1. Counted(h, r) /\ r.ingress # cur
      BY <1>0, <2>1 DEF CountInv
    <3>2. Copies(entries[i][h], r) \in Nat
      BY <1>a, <1>t DEF RouteTable
    <3> QED BY <2>1, <3>1, <3>2 DEF Counted
  <2> QED BY <2>2, <2>3 DEF CountInv
<1>3. ASSUME NEW i \in Names, NEW spec \in Specs, reconcileIngress(i, spec) PROVE CountInv'
  BY <1>3, <1>c, RoutesOfNone DEF reconcileIngress, Unlocked, CountInv, OwnRoutes
<1>4. CASE addPath
  <2> DEFINE rule == Head(todo)
             route == routeOf(rule)
  <2>1. todo # <<>> /\ todo \in Seq(Rule) /\ building \in Names
    BY <1>4 DEF addPath, MergeInv, TypeOK
  <2>2. rule \in Rule
    BY <2>1
  <2> HIDE DEF rule
  <2>3. mapPathType(rule.pathType) \in BOOLEAN
    BY DEF mapPathType
  <2>4. route \in RouteConfig /\ rule.host \in HostNames /\ route.ingress = building
    BY <2>1, <2>2, <2>3 DEF RouteConfig, Rule, routeOf
  <2>5. bHosts' = IF rule.service THEN [bHosts EXCEPT ![rule.host] = AddRoute(@, route)] ELSE bHosts
    BY <1>4 DEF addPath, rule
  <2> HIDE DEF route
  <2>6. RoutesOf(bHosts, building)
    BY <1>0, <2>1 DEF CountInv, OwnRoutes
  <2>7. RoutesOf(bHosts', building)
    BY <1>t, <2>4, <2>5, <2>6, RoutesOfAdd
  <2>8. UNCHANGED <<entries, building, cur, curLeft, hosts, left, merging>> /\ ~merging
    BY <1>0, <1>4, <1>c, <2>1 DEF addPath
  <2> QED BY <2>7, <2>8 DEF CountInv, OwnRoutes
<1>5. CASE updateIngress
  BY <1>5, <1>t, <1>c DEF updateIngress, CountInv, OwnRoutes
<1>6. CASE getProxyConfig
  <2>1. /\ cur = NONE /\ left' = Names /\ hosts' = NoRoutes
        /\ UNCHANGED <<entries, cur, curLeft, building, bHosts>>
    BY <1>6, <1>c DEF getProxyConfig, Unlocked
  <2>2. ASSUME NEW h \in HostNames, NEW r \in RouteConfig PROVE Counted(h, r)'
    <3>1. hosts'[h] = <<>>
      BY <2>1 DEF NoRoutes
    <3>2. Copies(hosts'[h], r) = 0
      BY <3>1, CopiesEmpty, Zenon
    <3> QED BY <1>0, <2>1, <3>2 DEF Counted
  <2> QED BY <2>1, <2>2 DEF CountInv, OwnRoutes
<1>7. ASSUME NEW g \in HostNames, mergeRoute(g) PROVE CountInv'
  <2> DEFINE route == Head(curLeft[g])
             rest == Tail(curLeft[g])
  <2>1. curLeft[g] \in Seq(RouteConfig) /\ curLeft[g] # <<>> /\ hosts[g] \in Seq(RouteConfig)
    BY <1>7, <1>t DEF mergeRoute, RouteTable
  <2>2. route \in RouteConfig /\ rest \in Seq(RouteConfig)
    BY <2>1
  <2>3. RoutesOf(curLeft, cur) /\ cur # NONE /\ cur \in Names
    BY <1>7, <1>t DEF mergeRoute, CountInv, OwnRoutes
  <2>4. route.ingress = cur
    <3>1. 1 \in DOMAIN curLeft[g] /\ route = curLeft[g][1]
      BY <2>1
    <3> QED BY <2>3, <3>1 DEF RoutesOf
  <2>5. ASSUME NEW k \in DOMAIN rest PROVE rest[k].ingress = cur
    <3>1. k + 1 \in DOMAIN curLeft[g] /\ rest[k] = curLeft[g][k + 1]
      BY <2>1, <2>5
    <3> QED BY <2>3, <3>1 DEF RoutesOf
  <2>6. \A r \in RouteConfig :
          /\ Copies(hosts[g], r) \in Nat /\ Copies(rest, r) \in Nat
          /\ Copies(AddRoute(hosts[g], route), r) =
               IF route = r THEN Copies(hosts[g], r) + 1 ELSE Copies(hosts[g], r)
          /\ Copies(curLeft[g], r) = IF route = r THEN Copies(rest, r) + 1 ELSE Copies(rest, r)
    BY <2>1, <2>2, CopiesAddRoute, CopiesTail
  <2> HIDE DEF route, rest
  <2>7. /\ hosts' = [h \in HostNames |-> IF h = g THEN AddRoute(hosts[g], route) ELSE hosts[h]]
        /\ curLeft' = [h \in HostNames |-> IF h = g THEN rest ELSE curLeft[h]]
        /\ UNCHANGED <<entries, merging, left, cur, building, bHosts>>
    BY <1>7, <1>t DEF mergeRoute, addToHost, route, rest, RouteTable
  <2>8. RoutesOf(curLeft', cur)
    BY <2>3, <2>5, <2>7 DEF RoutesOf
  <2>9. ASSUME NEW h \in HostNames, NEW r \in RouteConfig PROVE Counted(h, r)'
    <3>1. Counted(h, r)
      BY <1>c, <2>3 DEF CountInv
    <3>2. CASE h # g
      BY <2>7, <3>1, <3>2 DEF Counted
    <3>3. CASE h = g /\ r.ingress = cur
      <4>1. Copies(hosts[g], r) + Copies(curLeft[g], r) = Copies(entries[cur][g], r)
        BY <3>1, <3>3 DEF Counted
      <4>2. hosts'[g] = AddRoute(hosts[g], route) /\ curLeft'[g] = rest
        BY <2>7
      <4>3. Copies(hosts'[g], r) + Copies(curLeft'[g], r) = Copies(entries[cur][g], r)
        BY <2>6, <4>1, <4>2
      <4> QED BY <2>7, <3>3, <4>3 DEF Counted
    <3>4. CASE h = g /\ r.ingress # cur
      <4>1. route # r
        BY <2>4, <3>4
      <4>2. Copies(hosts'[g], r) = Copies(hosts[g], r)
        BY <2>6, <2>7, <4>1
      <4> QED BY <2>7, <3>1, <3>4, <4>2 DEF Counted
    <3> QED BY <3>2, <3>3, <3>4
  <2> QED BY <2>7, <2>8, <2>9 DEF CountInv, OwnRoutes
<1>8. CASE mergeTls
  <2>1. /\ cur \in Names /\ curLeft = NoRoutes /\ merging /\ left' = left \ {cur} /\ cur' = NONE
        /\ UNCHANGED <<entries, merging, hosts, building, bHosts>>
    BY <1>8, <1>t, <1>c DEF mergeTls
  <2>2. ASSUME NEW h \in HostNames, NEW r \in RouteConfig PROVE Counted(h, r)'
    <3>1. Counted(h, r) /\ r.ingress # NONE
      BY <1>0, <2>1 DEF CountInv
    <3>2. curLeft[h] = <<>>
      BY <2>1 DEF NoRoutes
    <3>3. Copies(curLeft[h], r) = 0 /\ Copies(hosts[h], r) \in Nat
      BY <1>a, <1>t, <3>2, CopiesEmpty, Zenon DEF RouteTable
    <3> QED BY <2>1, <3>1, <3>3 DEF Counted
  <2> QED BY <2>1, <2>2 DEF CountInv, OwnRoutes
<1>9. CASE publish
  BY <1>9 DEF publish, CountInv, OwnRoutes
<1>10. CASE UNCHANGED vars
  BY <1>10 DEF vars, CountInv, OwnRoutes, Counted
<1> QED BY <1>1, <1>2, <1>3, <1>4, <1>5, <1>6, <1>7, <1>8, <1>9, <1>10, SMTT(30) DEF Next

(* Merged in any order from any Ingresses, a host has every route exactly as
   often as the Ingress that asks for it.                                    *)
THEOREM ConservedCorrect == Spec => []RoutesConserved
<1>1. Init => MergeInv /\ CertInv /\ CountInv
  <2>1. Init => CertInv
    BY DEF Init, CertInv
  <2>2. Init => CountInv
    BY RoutesOfNone DEF Init, CountInv, OwnRoutes
  <2> QED BY <2>1, <2>2, MergeInit
<1>2. MergeInv /\ CertInv /\ CountInv /\ [Next]_vars => MergeInv' /\ CertInv' /\ CountInv'
  BY MergeStep, CertStep, CountStep
<1>3. CertInv /\ CountInv => RoutesConserved
  <2>1. \A r \in RouteConfig : r.ingress # NONE
    BY SpecsAssumption DEF RouteConfig
  <2> QED BY <2>1 DEF CertInv, CountInv, Counted, RoutesConserved
<1> QED BY <1>1, <1>2, <1>3, PTL DEF Spec

(* CutHost puts a label in front of a sequence. *)
LEMMA PrependTail ==
  ASSUME NEW e, NEW S, NEW q \in Seq(S)
  PROVE  LET s == <<e>> \o q IN s[1] = e /\ Tail(s) = q /\ Len(s) = Len(q) + 1
<1> DEFINE T == S \cup {e}
           s == <<e>> \o q
<1>1. q \in Seq(T) /\ <<e>> \in Seq(T) /\ Len(q) \in Nat
  OBVIOUS
<1>2. /\ s \in Seq(T) /\ Len(s) = Len(q) + 1 /\ s[1] = e /\ s # <<>>
      /\ \A i \in 1..Len(q) : s[i + 1] = q[i]
  BY <1>1
<1>3. /\ Tail(s) \in Seq(T) /\ Len(Tail(s)) = Len(q)
      /\ \A i \in 1..Len(q) : Tail(s)[i] = s[i + 1]
  <2> HIDE DEF s
  <2> QED BY <1>1, <1>2
<1>4. Tail(s) = q
  <2> HIDE DEF s
  <2> QED BY <1>1, <1>2, <1>3, SeqEqual, SMTT(30)
<1> QED BY <1>2, <1>4

(* LookupHost answers with the key that fits a host best, in every table. *)
THEOREM LookupHostBest ==
  ASSUME NEW table \in RouteTable, NEW h \in HostNames
  PROVE  LET keys == {k \in HostNames : table[k] # <<>> /\ HostRank(k, h) > 0}
             found == LookupHost(table, h)
         IN  IF keys = {} THEN found = NONE
             ELSE found \in keys /\ \A k \in keys : HostRank(k, h) =< HostRank(found, h)
<1> DEFINE has(k) == k \in HostNames /\ table[k] # <<>>
           label == ""
           cut == CutHost(h)
           wild(k) == Len(k) > 1 /\ k[1] = label /\ Len(h) > 1 /\ Tail(k) = Tail(h)
<1>0. /\ \A k : HostRank(k, h) = IF k = h THEN 3 ELSE IF wild(k) THEN 2 ELSE IF k = DefaultHost THEN 1 ELSE 0
      /\ cut = <<label>> \o Tail(h)
  BY Zenon DEF HostRank, CutHost
<1> HIDE DEF wild, label, cut
<1>1. \A k : /\ HostRank(k, h) \in {0, 1, 2, 3} /\ (HostRank(k, h) = 3 <=> k = h)
            /\ (HostRank(k, h) = 2 => wild(k)) /\ (HostRank(k, h) = 1 => k = DefaultHost)
  BY <1>0
<1>2. h \in Seq(STRING) /\ h # <<>> /\ Len(h) \in Nat /\ Tail(h) \in Seq(STRING)
  BY RoutingAssumption
<1>3. Len(h) > 1 => wild(cut)
  <2>1. cut[1] = label /\ Tail(cut) = Tail(h) /\ Len(cut) = Len(Tail(h)) + 1
    BY <1>0, <1>2, PrependTail
  <2> QED BY <1>2, <2>1 DEF wild
<1>4. ASSUME NEW k \in HostNames, HostRank(k, h) = 2
      PROVE  k = cut /\ Len(h) > 1
  <2>1. Len(h) > 1 /\ Len(k) > 1 /\ k[1] = label /\ Tail(k) = Tail(h)
    BY <1>1, <1>4 DEF wild
  <2>2. k \in Seq(STRING) /\ k # <<>>
    BY RoutingAssumption
  <2>3. k = <<k[1]>> \o Tail(k)
    BY <2>2
  <2> QED BY <1>0, <2>1, <2>3, Zenon
<1>6. Len(h) > 1 /\ cut # h => HostRank(cut, h) = 2
  BY <1>0, <1>3, Zenon
<1>7. HostRank(DefaultHost, h) > 0
  BY <1>0
<1>8. LookupHost(table, h) = IF has(h) THEN h
                            ELSE IF Len(h) > 1 /\ has(cut) THEN cut
                            ELSE IF has(DefaultHost) THEN DefaultHost ELSE NONE
  BY Zenon DEF LookupHost, cut
<1>9. CASE has(h)
  BY <1>1, <1>8, <1>9
<1>10. CASE ~has(h) /\ Len(h) > 1 /\ has(cut)
  BY <1>1, <1>6, <1>8, <1>10
<1>11. CASE ~has(h) /\ ~(Len(h) > 1 /\ has(cut))
  BY <1>1, <1>4, <1>7, <1>8, <1>11
<1> QED BY <1>9, <1>10, <1>11

(* Every request is answered by the host that fits it best, in every table the
   proxy is ever given.                                                       *)
THEOREM HostCorrect == Spec => []HostMostSpecific
<1>1. MergeInv => HostMostSpecific
  BY LookupHostBest DEF MergeInv, TypeOK, HostMostSpecific
<1> QED BY <1>1, MergeInit, MergeStep, PTL DEF Spec

----------------------------------------------------------------------------
(* Where routes come from. *)

(* The rule asks for the route at the host: what addPath makes of it. *)
Asks(rule, h, r) ==
  /\ rule.service /\ rule.host = h /\ rule.path = r.path
  /\ r.exact = mapPathType(rule.pathType)

GivenRules == UNION {Range(spec.rules) : spec \in Specs}

(* Every route of the table is asked for by a rule of some Ingress. *)
Traced(table) ==
  \A h \in HostNames : \A k \in DOMAIN table[h] : \E rule \in GivenRules : Asks(rule, h, table[h][k])

TraceInv ==
  /\ \A k \in DOMAIN todo : todo[k] \in GivenRules
  /\ \A i \in Names : Traced(entries[i])
  /\ Traced(bHosts) /\ Traced(curLeft) /\ Traced(hosts) /\ Traced(served)

LEMMA TracedAdd ==
  ASSUME NEW table \in RouteTable, Traced(table), NEW h \in HostNames, NEW route \in RouteConfig,
         \E rule \in GivenRules : Asks(rule, h, route)
  PROVE  Traced([table EXCEPT ![h] = AddRoute(@, route)])
<1> DEFINE new == AddRoute(table[h], route)
           given(g, r) == \E rule \in GivenRules : Asks(rule, g, r)
<1>1. table[h] \in Seq(RouteConfig) /\ Len(table[h]) \in Nat
  BY LenProperties DEF RouteTable
<1>2. PICK i : new \in Seq(RouteConfig) /\ Inserted(table[h], new, i, route)
  BY <1>1, AddRouteInserts
<1>3. given(h, route) /\ \A g \in HostNames : \A k \in DOMAIN table[g] : given(g, table[g][k])
  BY DEF Traced
<1> HIDE DEF new, given
<1>4. ASSUME NEW k \in DOMAIN new PROVE given(h, new[k])
  <2>1. k \in 1..Len(table[h]) + 1 /\ i \in 1..Len(table[h]) + 1
    BY <1>2, <1>4 DEF Inserted
  <2>2. new[k] = IF k < i THEN table[h][k] ELSE IF k = i THEN route ELSE table[h][k - 1]
    BY <1>2, <2>1 DEF Inserted
  <2>3. k < i => k \in DOMAIN table[h]
    BY <1>1, <2>1
  <2>4. ~(k < i) /\ k # i => k - 1 \in DOMAIN table[h]
    BY <1>1, <2>1
  <2> QED BY <1>3, <2>2, <2>3, <2>4
<1>5. [table EXCEPT ![h] = new] = [g \in HostNames |-> IF g = h THEN new ELSE table[g]]
  BY DEF RouteTable
<1>6. \A g \in HostNames : \A k \in DOMAIN [table EXCEPT ![h] = new][g] :
        given(g, [table EXCEPT ![h] = new][g][k])
  BY <1>3, <1>4, <1>5
<1> QED BY <1>6 DEF Traced, new, given

LEMMA TracedNone == Traced(NoRoutes)
<1>1. DOMAIN <<>> = {}
  OBVIOUS
<1> QED BY <1>1 DEF Traced, NoRoutes

LEMMA TracedTail ==
  ASSUME NEW table \in RouteTable, Traced(table), NEW h \in HostNames, table[h] # <<>>
  PROVE  /\ Traced([table EXCEPT ![h] = Tail(@)])
         /\ \E rule \in GivenRules : Asks(rule, h, Head(table[h]))
<1> DEFINE given(g, r) == \E rule \in GivenRules : Asks(rule, g, r)
           s == table[h]
<1>1. s \in Seq(RouteConfig) /\ s # <<>>
  BY DEF RouteTable
<1>2. \A g \in HostNames : \A k \in DOMAIN table[g] : given(g, table[g][k])
  BY DEF Traced
<1>h. \A k \in DOMAIN s : given(h, s[k])
  BY <1>2
<1>4. [table EXCEPT ![h] = Tail(s)] = [g \in HostNames |-> IF g = h THEN Tail(s) ELSE table[g]]
  BY DEF RouteTable
<1> HIDE DEF given, s
<1>3. /\ 1 \in DOMAIN s /\ Head(s) = s[1]
      /\ \A k \in DOMAIN Tail(s) : k + 1 \in DOMAIN s /\ Tail(s)[k] = s[k + 1]
  BY <1>1, LenProperties
<1>5. \A k \in DOMAIN Tail(s) : given(h, Tail(s)[k])
  BY <1>h, <1>3
<1>6. \A g \in HostNames : \A k \in DOMAIN [table EXCEPT ![h] = Tail(s)][g] :
        given(g, [table EXCEPT ![h] = Tail(s)][g][k])
  BY <1>2, <1>4, <1>5
<1>7. given(h, Head(s))
  BY <1>h, <1>3
<1> QED BY <1>6, <1>7 DEF Traced, given, s

LEMMA TraceStep == MergeInv /\ TraceInv /\ [Next]_vars => TraceInv'
<1> SUFFICES ASSUME MergeInv, TraceInv, [Next]_vars PROVE TraceInv'
  OBVIOUS
<1> USE DEF entryVars, buildVars, mergeVars, servedVars
<1>t. /\ entries \in [Names -> RouteTable] /\ bHosts \in RouteTable /\ hosts \in RouteTable
      /\ curLeft \in RouteTable /\ todo \in Seq(Rule) /\ (todo # <<>> => building \in Names)
  BY DEF MergeInv, TypeOK
<1>1. ASSUME NEW i \in Names, removeIngress(i) PROVE TraceInv'
  BY <1>1, <1>t, TracedNone DEF removeIngress, TraceInv
<1>2. ASSUME NEW i \in Names, nextEntry(i) PROVE TraceInv'
  BY <1>2 DEF nextEntry, TraceInv
<1>3. ASSUME NEW i \in Names, NEW spec \in Specs, reconcileIngress(i, spec) PROVE TraceInv'
  <2>1. \A k \in DOMAIN spec.rules : spec.rules[k] \in GivenRules
    BY DEF GivenRules, Range
  <2> QED BY <1>3, <2>1, TracedNone DEF reconcileIngress, TraceInv
<1>4. ASSUME addPath PROVE TraceInv'
  <2> DEFINE rule == Head(todo)
             route == routeOf(rule)
  <2>1. todo # <<>> /\ todo \in Seq(Rule) /\ building \in Names
    BY <1>4, <1>t DEF addPath
  <2>2. /\ rule \in Rule /\ 1 \in DOMAIN todo /\ rule = todo[1]
        /\ \A k \in DOMAIN Tail(todo) : k + 1 \in DOMAIN todo /\ Tail(todo)[k] = todo[k + 1]
    BY <2>1, LenProperties
  <2>3. bHosts' = IF rule.service THEN [bHosts EXCEPT ![rule.host] = AddRoute(@, route)] ELSE bHosts
    BY <1>4 DEF addPath
  <2>4. todo' = Tail(todo) /\ UNCHANGED <<entries, curLeft, hosts, served>>
    BY <1>4 DEF addPath
  <2>5. rule \in GivenRules
    BY <2>2 DEF TraceInv
  <2> HIDE DEF rule
  <2>6. mapPathType(rule.pathType) \in BOOLEAN
    <3>1. mapPathType(rule.pathType) = TRUE \/ mapPathType(rule.pathType) = FALSE
      BY DEF mapPathType
    <3> QED BY <3>1, Zenon
  <2>7. route \in RouteConfig /\ rule.host \in HostNames
    BY <2>1, <2>2, <2>6 DEF RouteConfig, Rule, routeOf
  <2>8. rule.service => Asks(rule, rule.host, route)
    BY DEF Asks, routeOf
  <2> HIDE DEF route
  <2>9. Traced(bHosts')
    BY <1>t, <2>3, <2>5, <2>7, <2>8, TracedAdd DEF TraceInv
  <2>10. \A k \in DOMAIN todo' : todo'[k] \in GivenRules
    BY <2>2, <2>4 DEF TraceInv
  <2> QED BY <2>4, <2>9, <2>10 DEF TraceInv
<1>5. ASSUME updateIngress PROVE TraceInv'
  BY <1>5, <1>t DEF updateIngress, TraceInv
<1>6. ASSUME getProxyConfig PROVE TraceInv'
  BY <1>6, TracedNone DEF getProxyConfig, TraceInv
<1>7. ASSUME NEW h \in HostNames, mergeRoute(h) PROVE TraceInv'
  <2> DEFINE route == Head(curLeft[h])
  <2>1. curLeft[h] # <<>> /\ curLeft[h] \in Seq(RouteConfig)
    BY <1>7, <1>t DEF mergeRoute, RouteTable
  <2>2. route \in RouteConfig
    BY <2>1
  <2>3. /\ hosts' = [hosts EXCEPT ![h] = AddRoute(@, route)]
        /\ curLeft' = [curLeft EXCEPT ![h] = Tail(@)]
        /\ UNCHANGED <<entries, todo, bHosts, served>>
    BY <1>7 DEF mergeRoute, addToHost
  <2>4. Traced(curLeft') /\ \E rule \in GivenRules : Asks(rule, h, route)
    BY <1>t, <2>1, <2>3, TracedTail DEF TraceInv
  <2> HIDE DEF route
  <2>5. Traced(hosts')
    BY <1>t, <2>2, <2>3, <2>4, TracedAdd DEF TraceInv
  <2> QED BY <2>3, <2>4, <2>5 DEF TraceInv
<1>8. ASSUME mergeTls PROVE TraceInv'
  BY <1>8 DEF mergeTls, TraceInv
<1>9. ASSUME publish PROVE TraceInv'
  BY <1>9 DEF publish, TraceInv
<1>10. ASSUME UNCHANGED vars PROVE TraceInv'
  BY <1>10 DEF vars, TraceInv
<1> QED BY <1>1, <1>2, <1>3, <1>4, <1>5, <1>6, <1>7, <1>8, <1>9, <1>10, SMTT(30) DEF Next

(* The proxy never has a route that no rule of an Ingress asks for: host, path
   and kind of match are those of one rule with a Service, through addPath, the
   insertions of AddRoute and the merge of getProxyConfig.                    *)
THEOREM RoutesTraced == Spec => []Traced(served)
<1>1. Init => TraceInv
  <2>1. DOMAIN <<>> = {}
    OBVIOUS
  <2> QED BY <2>1, TracedNone DEF Init, TraceInv
<1>2. MergeInv /\ TraceInv /\ [Next]_vars => TraceInv'
  BY TraceStep
<1>3. TraceInv => Traced(served)
  BY DEF TraceInv
<1> QED BY <1>1, <1>2, <1>3, MergeInit, MergeStep, PTL DEF Spec

(* While no rule names a wildcard host, the keys of Hosts have the form that
   LookupHost looks for (config.go:24-25); converter.go passes the host of a rule
   on as it is, so a wildcard rule is what breaks it and nothing else does.   *)
THEOREM KeysNormalizedWithoutWildcards ==
  ASSUME \A rule \in GivenRules : rule.service /\ Len(rule.host) > 1 => rule.host[1] # "*"
  PROVE  Spec => []HostKeysNormalized
<1>1. MergeInv /\ Traced(served) => HostKeysNormalized
  <2> SUFFICES ASSUME MergeInv, Traced(served), NEW h \in HostNames, served[h] # <<>>, Len(h) > 1
               PROVE  h[1] # "*"
    BY DEF HostKeysNormalized
  <2>1. served[h] \in Seq(RouteConfig)
    BY DEF MergeInv, TypeOK, RouteTable
  <2>2. 1 \in DOMAIN served[h]
    BY <2>1, LenProperties
  <2>3. \E rule \in GivenRules : Asks(rule, h, served[h][1])
    BY <2>2 DEF Traced
  <2> QED BY <2>3 DEF Asks
<1>2. Spec => []MergeInv
  BY MergeInit, MergeStep, PTL DEF Spec
<1> QED BY <1>1, <1>2, RoutesTraced, PTL

(* The form of the keys is all that keeps LookupHost from a wildcard's routes: in a
   table whose keys have the form of config.go:24-25 a host that only a wildcard
   stands for is routed by it.                                                     *)
THEOREM NormalizedKeysServe == HostKeysNormalized => WildcardServed
<1> SUFFICES ASSUME HostKeysNormalized, NEW w \in HostNames, NEW h \in HostNames,
                    StandsFor(w, h), served[h] = <<>>,
                    \E k \in {w, CutHost(w)} \cap HostNames : served[k] # <<>>
             PROVE  LookupHost(served, h) = CutHost(w)
  BY DEF WildcardServed
<1>1. CutHost(w) \in HostNames /\ served[CutHost(w)] # <<>>
  BY DEF HostKeysNormalized, StandsFor
<1>2. w \in Seq(STRING) /\ h \in Seq(STRING) /\ w # <<>> /\ h # <<>>
  BY RoutingAssumption
<1>3. Tail(h) = Tail(w) /\ Len(w) > 1
  BY DEF StandsFor
<1>4. Len(h) > 1
  BY <1>2, <1>3
<1>5. CutHost(h) = CutHost(w)
  BY <1>3 DEF CutHost
<1> QED BY <1>1, <1>4, <1>5 DEF LookupHost
====
