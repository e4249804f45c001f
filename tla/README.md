# A TLA+ model of s-ingress

s-ingress is a Kubernetes ingress controller and the reverse proxy it configures,
in one process. This directory holds a model of its concurrent core, TLC
configurations that check it on small instances, and TLAPS proofs.

## The system and its parts

The process (`cmd/main.go`) runs these goroutines:

| Goroutine | Code | What it does |
|---|---|---|
| watch handlers | `pkg/controller/reconcile.go` | on a change of an IngressClass, Secret, ConfigMap or Service, queue the Ingresses that use it or ask for a new common configuration |
| reconcile worker | `reconcile.go`, `ingress.go`, `converter.go` | reads an Ingress and what it refers to, stores its `Configuration` in `k8sState` |
| `Run` | `controller.go`, `config.go`, `converter.go` | rebuilds the common configuration (modules, default certificate, upstream address, TCP proxies); merges everything into a `RoutingConfig` and sends it on `configChan` |
| `Proxy.Start` | `pkg/proxy/proxy.go` | waits for the first configuration, opens the listeners, stores each new configuration, collects the ends of the listeners |
| servers, TCP listeners | `proxy_http.go`, `proxy_tcp.go` | serve until `startCtx` is cancelled |
| `main` | `cmd/main.go` | waits for a signal, cancels, waits for `Run` and `Start` |

They share `k8sState` (a mutex), two request channels of capacity one whose sends
are dropped when full, `configChan` (capacity 5), and the unbuffered `errChan`.
A request is served from one `RoutingConfig`, which is never changed once sent.

Around this core are the request path (`serve.go`, `context.go`, `error.go`,
`realip.go`), the modules under `modules/` (OIDC, authentication, security, headers,
WebSocket), the copying goroutines of TCP connections and WebSockets, and the parser
in `pkg/config`. `PROJECT.json` lists
every part with what is modelled of it.

## Modules

| Module | Models | Lines up with the code as follows |
|---|---|---|
| `Cluster` | API server and informers (not in the repository) | objects with revisions, undelivered notifications; a cache is updated before its notification is queued, and kinds are not ordered with respect to each other |
| `Controller` | handlers, worker, `Run`, the channels | `wpc` and `rpc` are the program counters of the worker and of `Run`; `conf`, `classes`, `entryObj`, `entryConf`, `defaultTls`, `lbStatus`, `tcpProxies` are `k8sState`. `ReconcileIngress` calls the API with the lock held, so it takes several steps and `Locked` keeps the others out; every other critical section is one action |
| `Routing` | `pkg/proxy/config.go` | `AddRoute`, `LookupRoute`, `MatchesPath`, `LookupHost` as operators |
| `ProxyConfig` | the conversion in `converter.go`, `GetCertificate` | `addPath` for each path; `getProxyConfig` walks Ingresses and hosts in any order, as Go walks maps; `GetCertificate` is an operator on the table of certificates |
| `ProxyService` | (abstract) | what the proxy promises about readiness and its listeners: it is ready only after all of them were opened, except the late ones (QUIC), whose sockets are opened by their own goroutines; a listener may fail by itself at any time, but the proxy closes one only when it is no longer ready |
| `ProxyLifecycle` | `main`, `Start`, `serve`, `serveQuic`, `startTcpProxy` | one program counter for each goroutine; an unbuffered channel is a joint step. `err` of `serve` is written by two goroutines without a lock, so its writes and its reads are separate steps |
| `Streams` | `connectTcp`, `handleWebSocket` | `main` is the setup and then the goroutine that waits for the end, `copier` the two copying goroutines named by the end they read, `ends` the proxy's two connections; a blocked read or write ends when its connection is closed |
| `Request` | `ServeHTTP`, `proxyRoute`, `proxy`, error responses, `getMiddlewares` and the middlewares of `modules/`, `ParseByteSize` | `stage` and `rest` are the two chains (`RequestMiddlewares`, then the route's) and what is left of them; `conf` is the `RoutingConfig` loaded at the start; `writes` and `status` are the response writer, `headers` and `final` the headers of modules and of the response. Each middleware is an action with all its returns |
| `Oidc` | `modules/oidc` | all state is in the browser: `jar` has the cookies, each request carries those of the moment it is sent and its answer brings cookies back; `tab` is where the request of a tab is in the middleware or in `handleCallback` |
| `MC…` | | constants for TLC |
| `ControllerProofs`, `ControllerTracking`, `ControllerSettled` | | theorems about `Controller`, each module building on the one before |
| `RoutingProofs`, `LifecycleProofs`, `OidcProofs` | | theorems about `ProxyConfig` and `Routing`, `ProxyLifecycle`, `Oidc` |
| `RequestChain`, `RequestProofs` | | theorems about `Request` and `Streams` |

`Controller` extends `Cluster`, `ProxyConfig` extends `Routing`, and `Request`
extends `Streams`: an upgrade in the chain becomes a stream, and TCP connections come
and go beside requests. `ProxyLifecycle` instantiates `ProxyService` under a
refinement mapping. Each module takes the others' results as data: `Controller`
treats the configuration of an Ingress as the revisions it was read from;
`ProxyConfig` opens it up as routes and certificates, and leaves failures to
`Controller`; `Request` has any `RoutingConfig` swapped in at any time, with one
route, and sees OIDC as a verdict, which `Oidc` opens up.

Data is reduced to what the properties tell apart: an object to its revision (0:
missing or unusable), a Secret or Service to its name, a route to path, type and
Ingress, an error to `nil`, `closed` or `fail`, an annotation to absent, good, bad or
one of a pair alone, a body to its length, the login state and nonce to one value.
Addresses of upstreams, logging and events are left out.

## Runs

| Run | Result | Question |
|---|---|---|
| `ctl_ingress` | holds | Can a dropped request, the read before the lock, or a Secret or class that changes in the middle leave something out of date for good? Once everything is handled, is every Ingress of our classes routed from what the cluster holds? |
| `ctl_common` | holds | Is `state.config` set before each use, and does the common configuration follow the cluster and reach the proxy, through failures of the OIDC provider, crashes and restarts? |
| `ctl_live` | holds | Does the proxy end up serving every Ingress it should, once the cluster stops changing? |
| `rt_merge` | holds | Does a lookup find the best route and the closest key, in every order of merging, does the merge keep every route, none twice, and does a server name get the certificate of an Ingress that has exactly this name? |
| `lc_shutdown` | holds | Does the proxy implement `ProxyService`, does a failed server stop the others, does a signal end the process? |
| `oidc_sessions` | holds | Two tabs log in, renew and use one session in parallel, and answers are lost: is anybody let through on a session that is too old, does a login return to its page, does a tab that keeps trying get in? |
| `req_serving` | holds | Does a request get exactly one response (or none, in the two ways named below), from one configuration, after all its checks and within its limits, and does every stream end with both its connections closed, and no connection of it ever have two writers? |
| `ctl_class_removed` | violated | Deleting an IngressClass can leave the routes of its Ingresses in the proxy. |
| `ctl_module_secret` | violated | `config.yaml` gets a client after start-up, and its Secret changes while the first module is built from it: the change is missed, with nothing left to handle. |
| `ctl_generation` | violated | Routes keep the middlewares of modules that have been replaced. |
| `rt_wildcard` | violated | A host that only a wildcard stands for gets neither the wildcard's routes, which are under a key `LookupHost` does not look up, nor its certificate, since `GetCertificate` looks for the exact name. |
| `lc_tcp_return` | violated | With a TCP proxy, `Start` returns while HTTP servers are still finishing requests. |

The violated runs each state what a comment or test of the repository says;
`findings` in `PROJECT.json` quotes it. Wildcard hosts are on the to-do list of the
repository's README, and that README also says that drastic changes of the
ConfigMap wait for a restart; `ctl_generation` changes only a Secret.

Exceptions written into properties that hold, each a fact about the code:

- `ConfTracked`, `CommonPublished`, `DefaultTlsTracked` and `CommonSettled` excuse the
  time after a failed common reconcile: `Run` logs the error and does not try again by
  itself.
- `ObjectTracked` and `RoutesSettled` leave out the Services that a `config.yaml` names
  as upstream: their handler returns before it looks for Ingresses that use them.
- `RoutesSettled` says that what should be routed is, and not that nothing else is:
  that is `NoStaleRoutes`, which `ctl_class_removed` refutes.
- `ModuleTracked`, which `ctl_module_secret` refutes, excuses a notification of the
  ConfigMap that is still to come, since it has the modules built again.
- `CertificateOfSomeIngress` takes the names in `spec.tls` as they are written, as
  `GetCertificate` does. The comments on `RoutingConfig` promise that wildcard hosts and
  wildcard certificates match; `WildcardServed` asks for one of the two, so the one
  counterexample of `rt_wildcard` contradicts both.
- `HostMostSpecific` has a rank for keys of the form `.rest`, which no Ingress produces:
  what it says of wildcards is vacuous, and `rt_wildcard` shows why.
- `ShutdownCompletes` says that the process ends, and nothing about which error `serve`
  reports, on which its two goroutines race.
- `ShutdownCompletes` excuses `RunBlocked`: `Run` may be about to send on a full
  `configChan` after `Start` has returned. It then never looks at its context, and
  `main` waits for it until it is killed.
- `ProxyService` lets the proxy stop with up to two handlers for each TCP proxy
  still at work, which is what `lc_tcp_return` is about.
- `ProxyService` counts the QUIC server as started before its socket is open:
  `startQuic` returns before `ListenAndServe` binds it. The proxy may be ready without
  it, and a bind that fails is seen as the end of a server, which stops the others.
- `FailureStops` ends with the return of `Start`: `main` goes on waiting for a signal.
- `LookupBest` compares rules by the code's own `MatchesPath`, by which the prefix
  `/test` also matches `/tes`. A prefix rule with an empty path panics in
  `MatchesPath`; the property says that only requests no other rule matches get there.
- `NothingLeftOpen` is about streams that had both connections. The early returns leave
  one open: the accepted one when `connectTcp` cannot dial, the upstream one when the
  client of a WebSocket cannot be upgraded.
- `OneResponse` is a promise of `ServeHTTP`. The comment on `proxyRoute` makes it of
  `proxyRoute`, which returns errors for `ServeHTTP` to answer. It names the two ways in
  which a request gets no response: an upgrade that fails after it took the connection,
  for which `ServeHTTP` still writes a 500 that reaches nobody, and the panic of
  `MatchesPath` at a rule with an empty path, which nothing in the proxy recovers.
- `StreamsEnd` starts from a dial that ends, and does not bound how long later
  connections wait for it.
- `CheckedBeforeUpstream` counts an annotation that needs another one and does not
  have it as no check, as the modules do. `ModuleHeadersWin` counts lines of custom
  headers that are not `name: value` as none.
- `BodyWithinLimit` is in the code's own units, in which `m` is ten million and `g` ten
  billion.
- `LoginCompletes` is about a tab that is left alone from some time on: two tabs may
  overwrite each other's cookies for ever.

### Bounds

- One Ingress, one class, one Secret, one Service, and `MaxRev` 3 or 4: two or three
  changes after the start. In `ctl_module_secret` the process starts without a client,
  and `config.yaml` may get one. The hazards are races of one change with one reader;
  Ingresses interact only through the merge, which `rt_merge` has two of.
- `ChanCap = 1` instead of 5: a full channel is reached sooner.
- `rt_merge`: two Ingresses, four contents with ties, overlaps, an empty path, a
  wildcard and the default host; they are replaced and removed without limit. No
  content has a key of the form `.rest`, as no Ingress can, so the wildcard branch of
  `LookupHost` finds nothing.
- `lc_shutdown`: two servers (one in `serve`, one in `serveQuic`) of four, and no or
  one TCP proxy. The servers left out run the same code.
- `oidc_sessions`: two tabs, the least that race. `MaxTime` 3 with a token life of 2 and
  a renewal offset of 1 has tokens that are fresh, due and expired, with and without an
  `authExpiration`. Four values of state and nonce are enough for two tabs:
  a login always finds one that nothing holds any more.
- `req_serving`: one client at a time, which is a TCP connection or a request; clients
  share nothing but the configuration and the shutdown, both of which change under it,
  and the proofs are for any number. Twelve requests, five versions of the Ingress and
  three common configurations have every check passing and failing, one that cannot be
  set up, two that are only half configured, and a rule with an empty path.
- `IntMax` is 8191 instead of 2^63 - 1, so that a size with a unit overflows within the
  numbers TLC has: 9 `kib` wraps to a negative number, 17 `kib` to a small one. The
  units `g`, `gb` and `gib` are in `sizeMap` and in the proof, and not in the run.

`lc_shutdown` and `lc_tcp_return` do not check for deadlock: the process exits. All
other runs do.

### Fairness

In `Controller` the worker's steps under the lock and the proxy's receive are weakly
fair: the Go scheduler runs what can run. Handlers, `Run` and the start of a reconcile
compete for a mutex that starves no waiter, and for a first-in first-out queue, so they
are strongly fair. In `ProxyLifecycle` every goroutine is weakly fair; the cases of a
`select` are strongly fair since Go picks among the ready ones at random. `Shutdown`
returns by its timeout. Nothing is assumed of users, signals, failures or crashes.

In `Request` the setup, the waiting goroutine and the copying goroutines of a stream
are weakly fair; a dial ends, by the timeout of the operating system at the latest. A
copying goroutine is only fair in its cleanup and where the proxy's own close has
interrupted it, never in a read or write that waits for a peer. In `Oidc` a handler is
weakly fair, as calls of the provider return or fail. The user and the provider are
free, except in the premise of `LoginCompletes`: a user who tries again, in one tab,
with a provider that answers.

## Proofs

All theorems hold for every value of the constants that satisfies the named
assumptions: contents have their shapes, names of different kinds differ, a nil
pointer is none of the values, capacities and bounds are natural numbers, every server
is started once and no configuration has a TCP proxy twice.

- **`ControllerProofs`**: `InvCorrect`. `TypeOK` is not inductive: an action reads
  `rconf.src` or `rout` only because of where the goroutine is. `ControlOK` says which
  locals are set at which program counter, and that `conf` is nil only during `Init`
  and while the worker is idle. `TypeCorrect` and `ConfigCorrect` follow from it.
  `NoLostReconfigureCorrect`: a store and its request are one critical section, and `Run`
  takes the token before it locks. `ObjectTrackedCorrect` adds `WorkerRead`: what the
  worker has read is current or its notification is waiting for the lock the worker
  holds. `IngressTrackedCorrect` adds `WorkerObject`: the object read before the lock
  is current or its Ingress is due again.
- **`ControllerTracking`**: `ConfTrackedCorrect` and `DefaultTlsTrackedCorrect` follow
  `Run` through the steps of a common reconcile: what it has read so far is current, or
  a notification or a request makes it read again (`ConfInv`, `TlsInv`).
  `CommonPublishedCorrect` needs no more than the program counters.
  `RelevanceTrackedCorrect` rests on revisions (`RevisionInv`: two copies of an Ingress
  with one revision are the same) and on the lock (`RelevanceInv`: the class of the
  Ingress the worker is converting stays ours until it is stored).
- **`ControllerSettled`**: `RoutesSettledCorrect` puts the tracking theorems together:
  when nothing is left to handle, each of them has lost its excuse. It also needs that
  the last notification of a class is the class of the cluster (`ClassInv`), and that
  everything an Ingress names has been read before its Configuration is stored
  (`ReadInv`). `CommonSettledCorrect` does the same for the common configuration and
  adds that a `config.yaml` without a certificate has none in use (`NoTlsInv`).
- **`RoutingProofs`**: `AddRouteSorted`, `LookupRouteBest` and, from both,
  `LookupBestCorrect`, with the invariant that every table the controller ever holds,
  half-merged ones included, is sorted. `ConservedCorrect` counts copies of a route
  (`CountInv`): none is merged before its entry is walked, during the walk the table and
  the list that is left make up the entry, and after it the table has them all.
  `RoutesTraced` goes back to the rules (`TraceInv`): every route served is one that a
  rule asks for. `CertificateCorrect`: a name has a certificate as soon as one of the
  entries merged so far has one, and the entries do not change under the lock (`CertInv`).
  `LookupHostBest` and `HostCorrect`: the closest key. `NormalizedKeysServe`: with keys of
  the form the comment asks for, `WildcardServed` would hold.
- **`LifecycleProofs`**: `TypeCorrect` and `ServiceKeptCorrect`, the refinement. Every
  action is a step of `ProxyService` or none, the opening of the QUIC socket being one of its
  own, given `LifecycleInv`: the handlers that are
  off are those left to start (`OrderInv`), readiness is over before anything is
  cancelled, and `received` is at most the number of ends that are past (`PhaseInv`).
  The bound of two handlers for each TCP proxy is a count: a server has one end to
  report and a TCP listener three, `Start` returns after as many receives as there are
  handlers, and each handler still at work has an end that has not been received.
  `EndsWithoutTcp` is the same count with no TCP proxy: nobody is at work.
- **`OidcProofs`**: `ReturnsCorrect` needs that no two tabs have the same login and that
  the redirect cookie beside a state names the tab of that login, in the browser and in
  every request on its way (`LoginInv`). `AccessCorrect` needs that every session, in
  the browser or in a request, is backed by what the provider last vouched for
  (`SessionInv`); a late answer can bring back an old session but not a younger one.
- **`RequestChain`, `RequestProofs`**: `OneResponseCorrect` from `ResponseOK` (where a
  request is tells what has been written, and whose its connection is), `CheckedCorrect`
  and `HeadersCorrect` from `ChainOK` (every module that is no longer to be called has
  let the request through, by the configuration it was loaded from),
  `NothingLeftOpenCorrect` from `StreamsInv` (where the waiting goroutine is tells what
  is open and which copying goroutines may still run), `OneWriterCorrect` from the same,
  and `BodyCorrect` for every width of an integer: a product that wraps is never above
  the one that does not.

Four results are about properties that a run refutes. Each names the condition
under which the property holds, and so says that it fails in one way only:

| Refuted by | Theorem | Holds as long as |
|---|---|---|
| `ctl_class_removed` | `StaleOnlyByClassRemoval` | no IngressClass of ours is deleted (`NoClassRemoved`) |
| `ctl_module_secret` | `MissedOnlyByFirstBuild` | no notification of a Secret is handled between `GetSecret` and `updateConfig` of a build that is the first to read it (`HandledWhenUsed`) |
| `rt_wildcard` | `KeysNormalizedWithoutWildcards`, with `NormalizedKeysServe` | no rule with a Service has a wildcard host |
| `lc_tcp_return` | `EndsWithoutTcp` | the configuration `Start` runs has no TCP proxy |

The hypotheses on steps are conjuncts `[][...]_vars` of the premise. TLC checked the
inductive invariants behind them, and those of `ControllerSettled`, on the instances of
`ctl_ingress`, `ctl_common` and `ctl_module_secret`, with the hypothesis as a conjunct of
`Next`, before they were proved. `OneModuleGeneration`, the fifth property that is
refuted, has no such theorem: any build of the modules that reads something new after
an Ingress has been reconciled breaks it.

Only model-checked: the liveness properties (`Convergence`, `ShutdownCompletes`,
`FailureStops`, `LoginCompletes`, `StreamsEnd`, `OneEndsBoth`), which are outside the
prover's reach. Every invariant and every action property of the runs that hold is also
proved.

## Not modelled

- Prometheus metrics, logging, events, request ids and the content of error pages.
- The text of headers: what is passed to an upstream (`X-Forwarded-…`, `upstream.go`,
  the headers of a WebSocket dial), the PROXY header, quoting in cookies. Header names
  of a response are modelled where modules and upstreams meet in one.
- YAML and environment parsing in `pkg/config`, except sizes: a configuration is one of
  a set.
- OIDC: more than one client (`ClientName` always matches), derivation of keys and the
  encryption of cookies (one that cannot be decrypted counts as absent), and the query
  of the page to return to.
- A failing `List` in the class handler, stale informer caches and relists.
- `StartDummy`, `SetInitialConfig`, `AddHost`, `normalizeHost` and `secrets.go`, which
  no production code calls.
- `errors.As(err, &quic.ErrServerClosed)` is taken to recognise exactly the error quic-go
  returns from a closed server; that library is not part of the repository.

## What could follow

1. One composition of `Controller` and `ProxyConfig`, with the content of routes instead
   of revisions; each alone is near the limit of what TLC does in minutes.
2. Several OIDC clients and a change of key, with sessions that outlive both.
3. `Request` with the table of `ProxyConfig` in place of its one route.
