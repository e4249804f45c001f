---- MODULE Request ----
(***************************************************************************)
(* Serving HTTP requests: ServeHTTP and proxyRoute (pkg/proxy/serve.go),   *)
(* the chain of middlewares that getMiddlewares builds for an Ingress, and *)
(* the middlewares of modules/.  A request is served from the              *)
(* RoutingConfig that was current when it arrived.  A WebSocket upgrade    *)
(* becomes a stream of module Streams.  The OIDC middleware is seen here   *)
(* as a verdict; module Oidc opens it up.                                  *)
(***************************************************************************)
EXTENDS Streams, Integers

CONSTANTS
  Kinds,        \* requests, see RequestShape
  Ingresses,    \* versions of one Ingress, see IngressShape
  Commons,      \* common configurations, see CommonShape
  Addresses,
  Nil,          \* a nil pointer
  IntMax        \* the largest int64

CONSTANT MaxBody \* bound on the size of a request body

Checks == {"https", "ip", "basic", "forward", "oidc", "deny"}
Annotated == Checks \cup {"header", "upstreamHeader"}

(* "partial" is one of two annotations that only work together; "bad" is one that
   the module cannot use: a regular expression, Secret or name that is not there,
   or headers none of whose lines is "name: value".                               *)
Annotation == {"absent", "partial", "good", "bad"}

Sizes == [n : Nat, unit : STRING]

(* emptyPath: it also has a rule with an empty path, which pathType ImplementationSpecific
   allows and AddRoute puts behind all others.                                        *)
IngressShape == [ann : [Annotated -> Annotation], allow : SUBSET Addresses,
                 maxBody : Sizes \cup {Nil}, emptyPath : BOOLEAN]

CommonShape == [https : BOOLEAN, trusted : SUBSET Addresses, maxBody : Sizes \cup {Nil}]

RequestShape == [tls : BOOLEAN, peer : Addresses, forwarded : Addresses \cup {"none", "invalid"},
                 method : {"GET", "HEAD", "POST"}, host : {"site", "callback", "unknown", "invalid"},
                 path : {"/", "/admin", "/callback", "/nowhere"},
                 password : {"none", "wrong", "right"}, upgrade : BOOLEAN, body : 0..MaxBody]

ASSUME RequestAssumption ==
  /\ Kinds \subseteq RequestShape /\ Ingresses \subseteq IngressShape /\ Commons \subseteq CommonShape
  /\ "none" \notin Addresses /\ "invalid" \notin Addresses
  /\ Nil \notin IngressShape \cup Sizes /\ IntMax \in Nat /\ MaxBody \in Nat

(***************************************************************************)
(* The body limit.                                                         *)
(***************************************************************************)

(* "one" is a number without a unit. *)
Units == {"one", "k", "kb", "kib", "m", "mb", "mib", "g", "gb", "gib"}

(* 10_000_000_000 as a product: it is beyond TLC's integers. *)
sizeMap(unit) ==
  CASE unit = "one" -> 1
    [] unit \in {"k", "kb"} -> 1000
    [] unit = "kib" -> 1024
    [] unit \in {"m", "mb"} -> 10000000
    [] unit = "mib" -> 1048576
    [] unit \in {"g", "gb"} -> 10000000 * 1000
    [] unit = "gib" -> 1073741824

Wrapped(n) == ((n + IntMax + 1) % (2 * IntMax + 2)) - (IntMax + 1)

(* An int64, or Nil for an error. *)
ParseByteSize(s) ==
  IF s.n <= IntMax /\ s.unit \in Units THEN Wrapped(s.n * sizeMap(s.unit)) ELSE Nil

(* The limit in the ConfigMap. *)
parseProxyIngressConf(c) == IF c.maxBody = Nil THEN 4096 ELSE ParseByteSize(c.maxBody)

(* Mutant: the annotation is only checked. *)
getHttpProxyConfigDefault(c, i) ==
  IF i.maxBody # Nil /\ ParseByteSize(i.maxBody) = Nil THEN Nil ELSE parseProxyIngressConf(c)

getHttpProxyConfig(c, i) ==
  IF i.maxBody = Nil THEN parseProxyIngressConf(c) ELSE ParseByteSize(i.maxBody)

(* How much of a body can be read through http.MaxBytesReader. *)
MaxBytesReader(limit, size) == IF size <= limit THEN size ELSE IF limit < 0 THEN 0 ELSE limit

(***************************************************************************)
(* What each module makes of an Ingress: a middleware, nil or an error.    *)
(***************************************************************************)
ofAnnotation(a) ==
  CASE a \in {"absent", "partial"} -> "nil" [] a = "good" -> "middleware" [] a = "bad" -> "error"

enforceHttpsMiddleware(c, i) ==
  IF c.https \/ i.ann.https = "good" THEN "middleware" ELSE "nil"
ipAuthMiddleware(c, i) == ofAnnotation(i.ann.ip)
basicAuthMiddleware(c, i) == ofAnnotation(i.ann.basic)
subrequestAuthMiddleware(c, i) == ofAnnotation(i.ann.forward)
oidcMiddleware(c, i) == ofAnnotation(i.ann.oidc)
denyRouteMiddleware(c, i) == ofAnnotation(i.ann.deny)
customHeaderMiddleware(c, i) == IF i.ann.header = "absent" THEN "nil" ELSE "middleware"
upstreamHeaderMiddleware(c, i) == IF i.ann.upstreamHeader = "absent" THEN "nil" ELSE "middleware"

IngressMiddleware(m, c, i) ==
  CASE m = "https" -> enforceHttpsMiddleware(c, i)
    [] m = "ip" -> ipAuthMiddleware(c, i)
    [] m = "basic" -> basicAuthMiddleware(c, i)
    [] m = "forward" -> subrequestAuthMiddleware(c, i)
    [] m = "oidc" -> oidcMiddleware(c, i)
    [] m = "deny" -> denyRouteMiddleware(c, i)
    [] m = "websocket" -> "middleware"
    [] m = "header" -> customHeaderMiddleware(c, i)
    [] m = "upstreamHeader" -> upstreamHeaderMiddleware(c, i)

(***************************************************************************)
(* A chain is a set of modules; their middlewares are called in the order  *)
(* of Modules.                                                             *)
(***************************************************************************)

(* Mutant: WebSockets are handed over before the checks that follow. *)
ModulesSocketFirst ==
  <<"https", "ip", "basic", "websocket", "forward", "oidc", "deny", "header", "upstreamHeader">>

Modules ==
  <<"https", "ip", "basic", "forward", "oidc", "deny", "websocket", "header", "upstreamHeader">>

ModuleNames == {Modules[n] : n \in DOMAIN Modules}

Before(m, n) == \E j, k \in DOMAIN Modules : j < k /\ Modules[j] = m /\ Modules[k] = n

getMiddlewares(c, i) ==
  IF \E m \in ModuleNames : IngressMiddleware(m, c, i) = "error" THEN Nil
  ELSE {m \in ModuleNames : IngressMiddleware(m, c, i) = "middleware"}

(* enforceHttps and oidc also have middlewares for all requests. *)
getConnectionModules(c) == IF c.https THEN {"https", "oidc"} ELSE {"oidc"}

(* The route of an Ingress, Nil when it cannot be converted. *)
addPath(c, i) ==
  IF getMiddlewares(c, i) = Nil \/ getHttpProxyConfig(c, i) = Nil THEN Nil
  ELSE [ingress |-> i, middlewares |-> getMiddlewares(c, i), maxBody |-> getHttpProxyConfig(c, i)]

(* A common configuration that cannot be parsed is not used. *)
Parsed == {c \in Commons : parseProxyIngressConf(c) # Nil}

RoutingConfig ==
  [common : Parsed, route : {addPath(d, i) : d \in Parsed, i \in Ingresses} \cup {Nil}]

VARIABLES
  routingConfig,  \* the current RoutingConfig: its common part and the route "/", or Nil
  pc,             \* where a request is
  kind,           \* the request
  conf,           \* the RoutingConfig it is served from
  stage,          \* its chain is that of all "requests" or that of the "route"
  rest,           \* the modules of the chain still to be called
  granted,        \* who has let it through: the forward-auth server, the OIDC middleware
  headers,        \* ResponseHeader: what modules set for a proxied response
  final,          \* where the headers of the response came from
  status,         \* writtenStatusCode
  writes,         \* how often a header was written
  err             \* the chain returned an error

chainVars == <<kind, conf, stage, rest, granted, headers, final>>
writerVars == <<status, writes>>
requestVars == <<pc, chainVars, writerVars, err>>
vars == <<routingConfig, requestVars, streamVars>>

HeaderNames == {"hsts", "custom"}
NoHeaders == [h \in HeaderNames |-> "none"]

Init ==
  /\ StreamsInit
  /\ routingConfig = Nil
  /\ pc = [r \in Clients |-> "idle"] /\ kind = [r \in Clients |-> Nil]
  /\ conf = [r \in Clients |-> Nil]
  /\ stage = [r \in Clients |-> "requests"] /\ rest = [r \in Clients |-> {}]
  /\ granted = [r \in Clients |-> {}]
  /\ headers = [r \in Clients |-> {}] /\ final = [r \in Clients |-> NoHeaders]
  /\ status = [r \in Clients |-> 0] /\ writes = [r \in Clients |-> 0]
  /\ err = [r \in Clients |-> FALSE]

(* A new RoutingConfig.  Routes may have been built from earlier modules than those
   of the common part, and an Ingress that cannot be converted keeps its route.   *)
Republish ==
  /\ \E c, d \in Parsed : \E i \in Ingresses \cup {Nil} :
       LET last == IF routingConfig = Nil THEN Nil ELSE routingConfig.route
           route == IF i = Nil THEN Nil ELSE IF addPath(d, i) = Nil THEN last ELSE addPath(d, i)
       IN  routingConfig' = [common |-> c, route |-> route]
  /\ UNCHANGED <<requestVars, streamVars>>

(***************************************************************************)
(* Ends of a handler.                                                      *)
(***************************************************************************)

(* On a connection that is no longer the HTTP server's nobody gets the header. *)
WriteHeader(r, code) ==
  /\ status' = [status EXCEPT ![r] = code]
  /\ writes' = [writes EXCEPT ![r] = IF ends[r]["down"] = "none" THEN @ + 1 ELSE @]

(* The chain returns; what it knew of the request is gone. *)
Return(r, e) ==
  /\ pc' = [pc EXCEPT ![r] = "returned"] /\ err' = [err EXCEPT ![r] = e]
  /\ kind' = [kind EXCEPT ![r] = Nil] /\ conf' = [conf EXCEPT ![r] = Nil]
  /\ stage' = [stage EXCEPT ![r] = "requests"] /\ rest' = [rest EXCEPT ![r] = {}]
  /\ granted' = [granted EXCEPT ![r] = {}]
  /\ headers' = [headers EXCEPT ![r] = {}] /\ final' = [final EXCEPT ![r] = NoHeaders]
  /\ UNCHANGED <<routingConfig, streamVars>>

Reply(r, code) ==
  WriteHeader(r, code) /\ Return(r, FALSE)

(* The page follows the status, and may fail; HEAD has none. *)
handleErrorPage(r, code) ==
  /\ WriteHeader(r, code)
  /\ \E e \in BOOLEAN : (kind[r].method = "HEAD" => ~e) /\ Return(r, e)

Fail(r) == Return(r, TRUE) /\ UNCHANGED writerVars

(***************************************************************************)
(* ServeHTTP up to the chain, and the calls of the chain.                  *)
(***************************************************************************)
ServeHTTP(r) ==
  /\ pc[r] = "idle" /\ r \notin tcp
  /\ \/ /\ routingConfig = Nil /\ WriteHeader(r, 503)
        /\ pc' = [pc EXCEPT ![r] = "done"] /\ UNCHANGED chainVars
     \/ /\ routingConfig # Nil /\ pc' = [pc EXCEPT ![r] = "chain"]
        /\ \E k \in Kinds : kind' = [kind EXCEPT ![r] = k]
        /\ conf' = [conf EXCEPT ![r] = routingConfig]
        /\ rest' = [rest EXCEPT ![r] = getConnectionModules(routingConfig.common)]
        /\ UNCHANGED <<stage, granted, headers, final, writerVars>>
  /\ UNCHANGED <<routingConfig, err, streamVars>>

RealIp(r) ==
  IF kind[r].forwarded = "none" THEN kind[r].peer
  ELSE IF kind[r].peer \notin conf[r].common.trusted THEN kind[r].peer
  ELSE IF kind[r].forwarded = "invalid" THEN kind[r].peer
  ELSE kind[r].forwarded

Calls(r, s, m) ==
  /\ pc[r] = "chain" /\ stage[r] = s
  /\ m \in rest[r] /\ \A n \in rest[r] \ {m} : Before(m, n)

next(r, m) ==
  /\ rest' = [rest EXCEPT ![r] = @ \ {m}]
  /\ UNCHANGED <<routingConfig, pc, kind, conf, stage, final, writerVars, err, streamVars>>

Plain(r, m) == next(r, m) /\ UNCHANGED <<granted, headers>>
Granted(r, m) == next(r, m) /\ granted' = [granted EXCEPT ![r] = @ \cup {m}] /\ UNCHANGED headers
Headed(r, m, h) == next(r, m) /\ headers' = [headers EXCEPT ![r] = @ \cup {h}] /\ UNCHANGED granted

(***************************************************************************)
(* The middlewares.                                                        *)
(***************************************************************************)
hsts(r) ==
  /\ Calls(r, "requests", "https")
  /\ IF kind[r].tls THEN Headed(r, "https", "hsts") ELSE Reply(r, 301)

(* The answer of the callback, which module Oidc opens up. *)
callback(r) ==
  /\ Calls(r, "requests", "oidc")
  /\ IF kind[r].host = "callback" /\ kind[r].method = "GET" /\ kind[r].path = "/callback"
     THEN Reply(r, 302) \/ handleErrorPage(r, 400) \/ Fail(r)
     ELSE Plain(r, "oidc")

enforceHttps(r) ==
  /\ Calls(r, "route", "https")
  /\ IF kind[r].tls THEN Plain(r, "https") ELSE Reply(r, 301)

ipAuth(r) ==
  /\ Calls(r, "route", "ip")
  /\ IF RealIp(r) \in conf[r].route.ingress.allow THEN Plain(r, "ip") ELSE handleErrorPage(r, 403)

basicAuth(r) ==
  /\ Calls(r, "route", "basic")
  /\ \/ kind[r].password = "none" /\ handleErrorPage(r, 401)
     \/ kind[r].password = "wrong" /\ handleErrorPage(r, 403)
     \/ kind[r].password = "right" /\ Plain(r, "basic")

(* The verdict of the forward-auth server: it fails, forbids, lets through, or
   answers anything else.                                                      *)
subrequestAuth(r) ==
  /\ Calls(r, "route", "forward")
  /\ Fail(r) \/ handleErrorPage(r, 403) \/ Granted(r, "forward") \/ Reply(r, 302)

(* A login or 401, no access, or access; or a session that cannot be read. *)
oidc(r) ==
  /\ Calls(r, "route", "oidc")
  /\ \/ Fail(r) \/ handleErrorPage(r, 403) \/ Granted(r, "oidc")
     \/ IF kind[r].method \in {"GET", "HEAD"} /\ ~kind[r].upgrade
        THEN Reply(r, 302) ELSE handleErrorPage(r, 401)

denyRoute(r) ==
  /\ Calls(r, "route", "deny")
  /\ IF kind[r].path = "/admin" THEN handleErrorPage(r, 403) ELSE Plain(r, "deny")

(* Lines that are not "name: value" are skipped. *)
customHeader(r) ==
  /\ Calls(r, "route", "header")
  /\ IF conf[r].route.ingress.ann.header = "good"
     THEN Headed(r, "header", "custom") ELSE Plain(r, "header")

(* It changes the headers of the upstream request, which are not modelled. *)
upstreamHeader(r) == Calls(r, "route", "upstreamHeader") /\ Plain(r, "upstreamHeader")

websocket(r) ==
  /\ Calls(r, "route", "websocket")
  /\ \/ ~kind[r].upgrade /\ Plain(r, "websocket")
     \/ /\ kind[r].upgrade /\ handleWebSocket(r)
        /\ pc' = [pc EXCEPT ![r] = "websocket"]
        /\ UNCHANGED <<routingConfig, chainVars, writerVars, err>>

(* handleWebSocket returns.  When the upgrade fails the library has answered, unless
   it had taken the connection from the server already.                           *)
webSocketDone(r) ==
  /\ pc[r] = "websocket" /\ main[r] = "ended"
  /\ \/ (ends[r]["up"] = "none" \/ UpgradeLost(r)) /\ Fail(r)
     \/ /\ ends[r]["up"] # "none" /\ ends[r]["down"] = "none"
        /\ WriteHeader(r, 400) /\ Return(r, TRUE)
     \/ /\ ends[r]["down"] # "none" /\ ~UpgradeLost(r)
        /\ Return(r, FALSE) /\ UNCHANGED writerVars

(***************************************************************************)
(* The end of the chain.                                                   *)
(***************************************************************************)
ChainEnds(r, s) == pc[r] = "chain" /\ rest[r] = {} /\ stage[r] = s

Routed(r) == kind[r].host = "site" /\ kind[r].path # "/nowhere" /\ conf[r].route # Nil

(* LookupRoute comes to the rule with the empty path, of which MatchesPath cuts off the
   last byte: it panics.                                                               *)
AtEmptyPath(r) ==
  /\ kind[r].host = "site" /\ kind[r].path = "/nowhere"
  /\ conf[r].route # Nil /\ conf[r].route.ingress.emptyPath

proxyRoute(r) ==
  \/ handleErrorPage(r, 500)     \* the URL cannot be used for the upstream
  \/ /\ stage' = [stage EXCEPT ![r] = "route"]
     /\ rest' = [rest EXCEPT ![r] = conf[r].route.middlewares]
     /\ UNCHANGED <<routingConfig, pc, kind, conf, granted, headers, final, writerVars, err,
                    streamVars>>

(* No code of the proxy recovers; net/http does, and closes the connection. *)
Panic(r) ==
  /\ pc' = [pc EXCEPT ![r] = "panicked"]
  /\ UNCHANGED <<routingConfig, chainVars, writerVars, err, streamVars>>

handleHttp(r) ==
  /\ ChainEnds(r, "requests")
  /\ \/ kind[r].host = "invalid" /\ handleErrorPage(r, 400)
     \/ AtEmptyPath(r) /\ Panic(r)
     \/ kind[r].host # "invalid" /\ ~AtEmptyPath(r) /\ ~Routed(r) /\ handleErrorPage(r, 404)
     \/ Routed(r) /\ proxyRoute(r)

(* From here on the upstream is asked for a connection. *)
proxy(r) ==
  /\ ChainEnds(r, "route") /\ pc' = [pc EXCEPT ![r] = "connect"]
  /\ UNCHANGED <<routingConfig, chainVars, writerVars, err, streamVars>>

NewClientConn(r) ==
  /\ pc[r] = "connect"
  /\ \/ handleErrorPage(r, 502)
     \/ /\ pc' = [pc EXCEPT ![r] = "roundTrip"]
        /\ UNCHANGED <<routingConfig, chainVars, writerVars, err, streamVars>>

(* Mutant: the headers of the upstream win. *)
setResponseHeadersOver(r, h, up) ==
  IF h \in up THEN "upstream" ELSE IF h \in headers[r] THEN "module" ELSE "none"

(* Where a header of the response comes from, given those the upstream sent. *)
setResponseHeaders(r, h, up) ==
  IF h \in headers[r] THEN "module" ELSE IF h \in up THEN "upstream" ELSE "none"

(* How much of the body of a request the upstream can get. *)
Passed(r) == MaxBytesReader(conf[r].route.maxBody, kind[r].body)

(* The upstream may answer before it has read the whole body. *)
RoundTrip(r) ==
  /\ pc[r] = "roundTrip"
  /\ \/ Passed(r) < kind[r].body /\ Reply(r, 413)
     \/ handleErrorPage(r, 502)
     \/ /\ \E up \in SUBSET HeaderNames :
             final' = [final EXCEPT ![r] = [h \in HeaderNames |-> setResponseHeaders(r, h, up)]]
        /\ WriteHeader(r, 200) /\ pc' = [pc EXCEPT ![r] = "copy"]
        /\ UNCHANGED <<routingConfig, kind, conf, stage, rest, granted, headers, err, streamVars>>

(* A client that has gone is no error, any other failure of the copy is. *)
copyBody(r) ==
  pc[r] = "copy" /\ (\E e \in BOOLEAN : Return(r, e)) /\ UNCHANGED writerVars

(* Mutant: the error is reported though a response is under way. *)
chainReturnedAgain(r) ==
  /\ pc[r] = "returned" /\ pc' = [pc EXCEPT ![r] = "done"]
  /\ IF err[r] THEN WriteHeader(r, 500) ELSE UNCHANGED writerVars
  /\ UNCHANGED <<routingConfig, chainVars, err, streamVars>>

(* Mutant: the error is only logged. *)
chainReturnedSilent(r) ==
  /\ pc[r] = "returned" /\ pc' = [pc EXCEPT ![r] = "done"]
  /\ UNCHANGED <<routingConfig, chainVars, writerVars, err, streamVars>>

(* The rest of ServeHTTP: an error without a response becomes one. *)
chainReturned(r) ==
  /\ pc[r] = "returned" /\ pc' = [pc EXCEPT ![r] = "done"]
  /\ IF err[r] /\ status[r] = 0 THEN WriteHeader(r, 500) ELSE UNCHANGED writerVars
  /\ UNCHANGED <<routingConfig, chainVars, err, streamVars>>
----------------------------------------------------------------------------
callMiddleware(r) ==
  \/ hsts(r) \/ callback(r) \/ enforceHttps(r) \/ ipAuth(r) \/ basicAuth(r) \/ subrequestAuth(r)
  \/ oidc(r) \/ denyRoute(r) \/ websocket(r) \/ customHeader(r) \/ upstreamHeader(r)
  \/ handleHttp(r) \/ proxy(r)

RequestNext(r) ==
  \/ ServeHTTP(r) \/ callMiddleware(r) \/ webSocketDone(r)
  \/ NewClientConn(r) \/ RoundTrip(r) \/ copyBody(r) \/ chainReturned(r)

Next ==
  \/ Republish
  \/ \E r \in Clients : RequestNext(r)
  \/ \E s \in Clients : pc[s] = "idle" /\ AcceptTCP(s) /\ UNCHANGED <<routingConfig, requestVars>>
  \/ StreamsNext /\ UNCHANGED <<routingConfig, requestVars>>

(* The scheduler runs goroutines.  Dials, upgrades and writes of a header end, by
   their timeouts; nothing is assumed of peers, requests and shutdown.          *)
Fairness ==
  /\ WF_vars(CloseListener /\ UNCHANGED <<routingConfig, requestVars>>)
  /\ \A s \in Clients :
       /\ WF_vars((Setup(s) \/ Watching(s)) /\ UNCHANGED <<routingConfig, requestVars>>)
       /\ \A e \in End : WF_vars(Copying(s, e) /\ UNCHANGED <<routingConfig, requestVars>>)

Spec == Init /\ [][Next]_vars /\ Fairness

(***************************************************************************)
(* Properties.                                                             *)
(***************************************************************************)
TypeOK ==
  /\ StreamsTypeOK
  /\ routingConfig \in RoutingConfig \cup {Nil}
  /\ conf \in [Clients -> RoutingConfig \cup {Nil}] /\ kind \in [Clients -> Kinds \cup {Nil}]
  /\ pc \in [Clients -> {"idle", "chain", "websocket", "connect", "roundTrip", "copy",
                         "returned", "done", "panicked"}]
  /\ stage \in [Clients -> {"requests", "route"}] /\ rest \in [Clients -> SUBSET ModuleNames]
  /\ granted \in [Clients -> SUBSET {"forward", "oidc"}]
  /\ headers \in [Clients -> SUBSET HeaderNames]
  /\ final \in [Clients -> [HeaderNames -> {"none", "module", "upstream"}]]
  /\ status \in [Clients -> {0, 200, 301, 302, 400, 401, 403, 404, 413, 500, 502, 503}]
  /\ writes \in [Clients -> 0..1] /\ err \in [Clients -> BOOLEAN]
  /\ \A r \in Clients :
       pc[r] \notin {"idle", "returned", "done"} => kind[r] \in Kinds /\ conf[r] # Nil

(* Every request gets exactly one response, or its connection has become a
   WebSocket: "The response is always written" (proxyRoute).  proxyRoute itself
   returns without one when the forward-auth server or the WebSocket upstream
   fails; the error then makes ServeHTTP write it, and an error page that fails
   after its status does not get a second one.  Two requests only see their
   connection closed: one whose upgrade fails after the library has taken the
   connection, where the 500 of ServeHTTP reaches nobody, and one for which
   LookupRoute comes to a rule with an empty path and panics.                 *)
OneResponse ==
  \A r \in Clients :
    /\ pc[r] = "done" =>
         \/ writes[r] = 1 /\ status[r] # 0
         \/ writes[r] = 0 /\ status[r] = 0 /\ \A e \in End : copier[r][e] = "done"
         \/ writes[r] = 0 /\ status[r] = 500 /\ UpgradeLost(r)
    /\ pc[r] = "panicked" => writes[r] = 0 /\ AtEmptyPath(r)

Client(c, k) == IF k.peer \in c.trusted /\ k.forwarded \in Addresses THEN k.forwarded ELSE k.peer

(* No connection to an upstream, WebSockets included, is opened for a request that
   some check of the Ingress does not allow, where the checks are those of the very
   configuration the request started with; and an Ingress with a check that cannot
   be set up has no route at all.  (One of a pair of annotations alone is no check.) *)
CheckedBeforeUpstream ==
  \A r \in Clients : pc[r] \in {"connect", "roundTrip", "copy", "websocket"} =>
    LET c == conf[r].common
        i == conf[r].route.ingress
        k == kind[r]
    IN
    /\ \A a \in Checks \ {"https"} : i.ann[a] # "bad"
    /\ c.https \/ i.ann.https = "good" => k.tls
    /\ i.ann.ip = "good" => Client(c, k) \in i.allow
    /\ i.ann.basic = "good" => k.password = "right"
    /\ i.ann.forward = "good" => "forward" \in granted[r]
    /\ i.ann.oidc = "good" => "oidc" \in granted[r]
    /\ i.ann.deny = "good" => k.path # "/admin"

(* What a module sets on responses is in every proxied response, whatever the
   upstream sends: HSTS when HTTPS is enforced for all, and the Ingress's headers. *)
ModuleHeadersWin ==
  \A r \in Clients : pc[r] = "copy" =>
    /\ conf[r].common.https => final[r]["hsts"] = "module"
    /\ conf[r].route.ingress.ann.header = "good" => final[r]["custom"] = "module"

(* An upstream never gets more of a body than the annotation of the Ingress says,
   even where the product in ParseByteSize overflows.                         *)
BodyWithinLimit ==
  \A r \in Clients : pc[r] = "roundTrip" /\ conf[r].route.ingress.maxBody # Nil =>
    LET s == conf[r].route.ingress.maxBody IN Passed(r) \in 0..(s.n * sizeMap(s.unit))
====
