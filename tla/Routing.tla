---- MODULE Routing ----
(***************************************************************************)
(* pkg/proxy/config.go: the route table of one host and the lookups a      *)
(* request makes.  A path is the sequence of its characters (MatchesPath   *)
(* cuts one off), a host name the sequence of its labels.                  *)
(***************************************************************************)
EXTENDS SequencesExt

CONSTANTS
  Names,       \* the Ingresses
  HostNames,   \* hosts of rules and requests, as sequences of labels
  Paths,       \* paths of rules and requests, as sequences of characters
  NONE,        \* a nil pointer
  PANIC        \* the outcome of a lookup that panics

RouteConfig == [path: Paths, exact: BOOLEAN, ingress: Names]

ASSUME RoutingAssumption ==
  /\ Paths \subseteq Seq(STRING) /\ HostNames \subseteq Seq(STRING) \ {<<>>}
  /\ NONE # PANIC /\ NONE \notin RouteConfig /\ PANIC \notin RouteConfig

(* Mutant: shorter paths take priority. *)
AheadShorter(r, route) == r.exact \/ Len(r.path) < Len(route.path)

(* The loop of AddRoute goes past r to find the place of route. *)
Ahead(r, route) == r.exact \/ Len(r.path) > Len(route.path)

AddRoute(routes, route) ==
  IF route.exact THEN <<route>> \o routes
  ELSE LET i == SelectInSeq(routes, LAMBDA r : ~Ahead(r, route))
       IN  IF i = 0 THEN Append(routes, route) ELSE InsertAt(routes, i, route)

(* rc.Path[:len(rc.Path)-1] is out of range. *)
Panics(r) == ~r.exact /\ r.path = <<>>

MatchesPath(r, rawPath) ==
  IF r.exact THEN r.path = rawPath
  ELSE SubSeq(r.path, 1, Len(r.path) - 1) = rawPath \/ IsPrefix(r.path, rawPath)

LookupRoute(routes, path) ==
  LET i == SelectInSeq(routes, LAMBDA r : Panics(r) \/ MatchesPath(r, path))
  IN  IF i = 0 THEN NONE ELSE IF Panics(routes[i]) THEN PANIC ELSE routes[i]

(* "test.domain.example" -> ".domain.example" *)
CutHost(h) == <<"">> \o Tail(h)

DefaultHost == <<"">>

(* Mutant: the default host is tried before the wildcard and the exact one. *)
LookupHostDefaultFirst(hosts, rawHost) ==
  IF DefaultHost \in HostNames /\ hosts[DefaultHost] # <<>> THEN DefaultHost
  ELSE IF hosts[rawHost] # <<>> THEN rawHost ELSE NONE

(* The key of Hosts that LookupHost answers with; in a table of lists the key
   is there when its list is not empty.                                      *)
LookupHost(hosts, rawHost) ==
  LET has(h) == h \in HostNames /\ hosts[h] # <<>>
  IN  IF has(rawHost) THEN rawHost
      ELSE IF Len(rawHost) > 1 /\ has(CutHost(rawHost)) THEN CutHost(rawHost)
      ELSE IF has(DefaultHost) THEN DefaultHost ELSE NONE

----------------------------------------------------------------------------
(* The order AddRoute keeps: exact paths, then prefixes from long to short. *)
InOrder(r, q) == r.exact \/ (~q.exact /\ Len(q.path) =< Len(r.path))

Sorted(routes) == \A i, j \in 1..Len(routes) : i < j => InOrder(routes[i], routes[j])

(* r is what a reader of an Ingress expects for path: an exact rule before a
   prefix, a longer prefix before a shorter one; a rule with an empty path
   breaks only the requests no other rule matches.                           *)
IsBest(r, routes, path) ==
  LET matching == {q \in Range(routes) : ~Panics(q) /\ MatchesPath(q, path)}
      empty == {q \in Range(routes) : Panics(q)}
  IN  IF matching # {} THEN r \in matching /\ \A q \in matching : InOrder(r, q)
      ELSE r = IF empty # {} THEN PANIC ELSE NONE
====
