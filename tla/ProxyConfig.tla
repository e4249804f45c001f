---- MODULE ProxyConfig ----
(***************************************************************************)
(* pkg/controller/converter.go: how the rules of the Ingresses become the  *)
(* RoutingConfig of the proxy.  reconcileIngress turns one Ingress into    *)
(* its Configuration, path by path; getProxyConfig merges the              *)
(* Configurations, in the order Go happens to walk two maps in.  Both hold *)
(* k8sState's lock throughout, so neither runs inside the other.  Failing  *)
(* reads are modelled in Controller; here a reconcile succeeds.            *)
(***************************************************************************)
EXTENDS Routing, FiniteSets

CONSTANTS
  Certs,      \* certificates of Secrets that a spec.tls names
  DefaultTls, \* RoutingConfig.DefaultTlsCertificate
  Specs       \* the contents an Ingress may have

PathTypes == {"nil", "Exact", "Prefix", "ImplementationSpecific"}

(* rules: the paths of all rules in order; service: the backend is a Service.
   tls: one pair for each host of each item of spec.tls, in order.            *)
Rule == [host: HostNames, path: Paths, pathType: PathTypes, service: BOOLEAN]
TlsHost == [host: HostNames, cert: Certs]
IngressSpec == [rules: Seq(Rule), tls: Seq(TlsHost)]

ASSUME SpecsAssumption ==
  /\ Specs \subseteq IngressSpec
  /\ NONE \notin Names /\ NONE \notin Certs /\ NONE \notin HostNames
  /\ DefaultTls # NONE /\ DefaultTls \notin Certs

VARIABLES
  entries, entryTls,              \* Configuration.Hosts and .TlsCertificates of each Ingress
  building, todo, bHosts, bTls,   \* reconcileIngress: the Ingress and its new Configuration
  merging, left, cur, curLeft, curHost, hosts, tls,   \* getProxyConfig
  served, servedTls               \* the RoutingConfig the proxy has

entryVars == <<entries, entryTls>>
buildVars == <<building, todo, bHosts, bTls>>
mergeVars == <<merging, left, cur, curLeft, curHost, hosts, tls>>
servedVars == <<served, servedTls>>
vars == <<entryVars, buildVars, mergeVars, servedVars>>

RouteTable == [HostNames -> Seq(RouteConfig)]   \* <<>>: the map has no such key
CertTable == [HostNames -> Certs \cup {NONE}]
NoRoutes == [h \in HostNames |-> <<>>]
NoCerts == [h \in HostNames |-> NONE]

(* Every variable stays in its type. *)
TypeOK ==
  /\ entries \in [Names -> RouteTable] /\ entryTls \in [Names -> CertTable]
  /\ building \in Names \cup {NONE} /\ todo \in Seq(Rule)
  /\ bHosts \in RouteTable /\ bTls \in CertTable
  /\ merging \in BOOLEAN /\ left \subseteq Names /\ cur \in Names \cup {NONE}
  /\ curLeft \in RouteTable /\ curHost \in HostNames \cup {NONE}
  /\ hosts \in RouteTable /\ tls \in CertTable
  /\ served \in RouteTable /\ servedTls \in CertTable

Init ==
  /\ entries = [i \in Names |-> NoRoutes] /\ entryTls = [i \in Names |-> NoCerts]
  /\ building = NONE /\ todo = <<>> /\ bHosts = NoRoutes /\ bTls = NoCerts
  /\ merging = FALSE /\ left = {} /\ cur = NONE /\ curLeft = NoRoutes /\ curHost = NONE
  /\ hosts = NoRoutes /\ tls = NoCerts
  /\ served = NoRoutes /\ servedTls = NoCerts

Unlocked == building = NONE /\ ~merging

(***************************************************************************)
(* reconcileIngress.                                                       *)
(***************************************************************************)

(* mapPathType: is the path an exact one? *)
mapPathType(pathType) == pathType \in {"nil", "Exact"}

(* The first item of spec.tls that names the host wins. *)
processIngressTls(items, h) ==
  LET k == SelectInSeq(items, LAMBDA t : t.host = h) IN IF k = 0 THEN NONE ELSE items[k].cert

reconcileIngress(i, spec) ==
  /\ Unlocked
  /\ building' = i /\ todo' = spec.rules
  /\ bHosts' = NoRoutes /\ bTls' = [h \in HostNames |-> processIngressTls(spec.tls, h)]
  /\ UNCHANGED <<entryVars, mergeVars, servedVars>>

(* Mutant: IngressName is left unset. *)
routeOfNobody(rule) ==
  [path |-> rule.path, exact |-> mapPathType(rule.pathType), ingress |-> NONE]

routeOf(rule) ==
  [path |-> rule.path, exact |-> mapPathType(rule.pathType), ingress |-> building]

(* One path; one without a Service is skipped. *)
addPath ==
  /\ todo # <<>>
  /\ LET rule == Head(todo)
     IN  bHosts' = IF rule.service THEN [bHosts EXCEPT ![rule.host] = AddRoute(@, routeOf(rule))]
                                   ELSE bHosts
  /\ todo' = Tail(todo)
  /\ UNCHANGED <<entryVars, building, bTls, mergeVars, servedVars>>

updateIngress ==
  /\ building # NONE /\ todo = <<>>
  /\ entries' = [entries EXCEPT ![building] = bHosts]
  /\ entryTls' = [entryTls EXCEPT ![building] = bTls]
  /\ building' = NONE
  /\ UNCHANGED <<todo, bHosts, bTls, mergeVars, servedVars>>

(* removeIngress, and markIngressIrrelevant's Configuration: nil. *)
removeIngress(i) ==
  /\ Unlocked
  /\ entries' = [entries EXCEPT ![i] = NoRoutes]
  /\ entryTls' = [entryTls EXCEPT ![i] = NoCerts]
  /\ UNCHANGED <<buildVars, mergeVars, servedVars>>

(***************************************************************************)
(* getProxyConfig.                                                         *)
(***************************************************************************)
getProxyConfig ==
  /\ Unlocked
  /\ merging' = TRUE /\ left' = Names
  /\ hosts' = NoRoutes /\ tls' = NoCerts
  /\ UNCHANGED <<entryVars, buildVars, cur, curLeft, curHost, servedVars>>

(* The next entry, in any order; one without a Configuration adds nothing. *)
nextEntry(i) ==
  /\ merging /\ cur = NONE /\ i \in left
  /\ cur' = i /\ curLeft' = entries[i]
  /\ UNCHANGED <<entryVars, buildVars, merging, left, curHost, hosts, tls, servedVars>>

(* Mutant: every route gets a new HostConfig. *)
addToHostFresh(h, route) == hosts' = [hosts EXCEPT ![h] = AddRoute(<<>>, route)]

addToHost(h, route) == hosts' = [hosts EXCEPT ![h] = AddRoute(@, route)]

(* The next route of the next host, in any order of the hosts. *)
mergeRoute(h) ==
  /\ cur # NONE /\ curHost \in {h, NONE} /\ curLeft[h] # <<>>
  /\ addToHost(h, Head(curLeft[h]))
  /\ curLeft' = [curLeft EXCEPT ![h] = Tail(@)]
  /\ curHost' = IF Tail(curLeft[h]) = <<>> THEN NONE ELSE h
  /\ UNCHANGED <<entryVars, buildVars, merging, left, cur, tls, servedVars>>

(* Mutant: the certificates of an entry replace those collected so far. *)
addCertificatesOver == tls' = entryTls[cur]

(* A host that has a certificate keeps it. *)
addCertificates ==
  tls' = [h \in HostNames |-> IF tls[h] = NONE THEN entryTls[cur][h] ELSE tls[h]]

(* The entry's certificates, after its routes. *)
mergeTls ==
  /\ cur # NONE /\ curLeft = NoRoutes
  /\ addCertificates
  /\ left' = left \ {cur} /\ cur' = NONE
  /\ UNCHANGED <<entryVars, buildVars, merging, curLeft, curHost, hosts, servedVars>>

(* The configuration is sent and the proxy stores it. *)
publish ==
  /\ merging /\ left = {} /\ cur = NONE
  /\ served' = hosts /\ servedTls' = tls
  /\ merging' = FALSE
  /\ UNCHANGED <<entryVars, buildVars, left, cur, curLeft, curHost, hosts, tls>>

(* The certificate a TLS handshake gets, of the table of a RoutingConfig. *)
GetCertificate(certs, serverName) ==
  IF certs[serverName] # NONE THEN certs[serverName] ELSE DefaultTls

Next ==
  \/ \E i \in Names : removeIngress(i) \/ nextEntry(i)
                      \/ \E spec \in Specs : reconcileIngress(i, spec)
  \/ addPath \/ updateIngress \/ getProxyConfig
  \/ (\E h \in HostNames : mergeRoute(h)) \/ mergeTls \/ publish

Spec == Init /\ [][Next]_vars

----------------------------------------------------------------------------
(* Whatever order two Go maps are walked in, LookupRoute finds the best route
   of the host: AddRoute keeps the order LookupRoute relies on, in the
   Configuration of an Ingress and again when they are merged.               *)
LookupBest ==
  \A h \in HostNames, p \in Paths : IsBest(LookupRoute(served[h], p), served[h], p)

(* How often a table holds the route. *)
Copies(routes, r) == Cardinality({k \in DOMAIN routes : routes[k] = r})

(* The merge loses no route of any Ingress and repeats none: a host has each
   one as often as the Configuration of the Ingress that it is a route of.   *)
RoutesConserved ==
  merging /\ left = {} => \A h \in HostNames, r \in RouteConfig :
    Copies(hosts[h], r) = Copies(entries[r.ingress][h], r)

(* GetCertificate answers a server name with the certificate of an Ingress whose
   spec.tls has exactly that name, and with the default one only when there is
   none.  A wildcard in spec.tls stands for no name but itself, although the
   comment on TlsCertificates promises more: see WildcardServed.             *)
CertificateOfSomeIngress ==
  merging /\ left = {} => \A h \in HostNames :
    LET given == {entryTls[i][h] : i \in Names} \ {NONE}
        answer == GetCertificate(tls, h)
    IN  IF given = {} THEN answer = DefaultTls ELSE answer \in given

(* How closely a key of Hosts fits a request: the host itself, ".rest", "". *)
HostRank(k, h) ==
  IF k = h THEN 3
  ELSE IF Len(k) > 1 /\ k[1] = "" /\ Len(h) > 1 /\ Tail(k) = Tail(h) THEN 2
  ELSE IF k = DefaultHost THEN 1 ELSE 0

(* LookupHost answers with the key that fits best, and with none only when
   none fits.                                                                *)
HostMostSpecific ==
  \A h \in HostNames :
    LET keys == {k \in HostNames : served[k] # <<>> /\ HostRank(k, h) > 0}
        found == LookupHost(served, h)
    IN  IF keys = {} THEN found = NONE
        ELSE found \in keys /\ \A k \in keys : HostRank(k, h) =< HostRank(found, h)

(* "Wildcard hosts are required to remove the wildcard part ("*") and preserve
   the prefixed dot" (config.go:24-25): the key form LookupHost looks for.   *)
HostKeysNormalized ==
  \A h \in HostNames : served[h] # <<>> /\ Len(h) > 1 => h[1] # "*"

(* The wildcard host w stands for the host h. *)
StandsFor(w, h) == Len(w) > 1 /\ w[1] = "*" /\ h # w /\ Tail(h) = Tail(w)

(* RoutingConfig's comments (config.go:23-34) give a wildcard host the key ".rest",
   which LookupHost finds, and a wildcard certificate the key "*.rest", with the
   default one "used if none of the TlsCertificates matches".  So a host that only
   a wildcard with routes and a certificate stands for gets both of them; this
   asks for one of the two.                                                  *)
WildcardServed ==
  \A w, h \in HostNames :
    /\ StandsFor(w, h)
    /\ served[h] = <<>> /\ servedTls[h] = NONE
    /\ \E k \in {w, CutHost(w)} \cap HostNames : served[k] # <<>>
    /\ servedTls[w] # NONE
    => \/ LookupHost(served, h) \in {w, CutHost(w)}
       \/ GetCertificate(servedTls, h) = servedTls[w]
====
