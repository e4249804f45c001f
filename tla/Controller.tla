---- MODULE Controller ----
(***************************************************************************)
(* pkg/controller: the watch handlers, the reconcile worker, the Run       *)
(* goroutine and the channel to the proxy, over the cluster of Cluster.    *)
(* k8sState's lock is held over several steps only by ReconcileIngress     *)
(* (it calls the API while holding it); every other critical section is    *)
(* one action, guarded by ~Locked.                                         *)
(***************************************************************************)
EXTENDS Cluster

CONSTANT ChanCap   \* capacity of the proxy's configChan (5 in NewProxy)

ASSUME ChanCapAssumption == ChanCap \in Nat \ {0}

VARIABLES
  (* k8sState *)
  conf,         \* config: NONE or the ControllerConf built last
  classes,      \* controllerClasses
  entryObj,     \* ingresses[i].Ingress, NONE when there is no entry
  entryConf,    \* ingresses[i].Configuration
  defaultTls,   \* revision of the default certificate, 0: nil
  lbStatus,     \* ingressLoadBalancerStatus is not nil
  tcpProxies,   \* revisions of the Services behind tcpProxies
  (* the work queue and its only worker, inside Reconcile *)
  queue, wpc, wing, wobj, wtodo, wused,
  requeue,      \* class whose handler has yet to requeue the class's Ingresses
  (* the goroutine of main.go that calls Init and then Run *)
  rpc, boot, rconf, rtodo, rout,
  commonErr,    \* the last reconfigureControllerCommonConfig returned an error
  (* channels, and what the proxy routes by *)
  reconfReq, commonReq, configChan, served

k8sState == <<conf, classes, entryObj, entryConf, defaultTls, lbStatus, tcpProxies>>
worker == <<wpc, wing, wobj, wtodo, wused>>
runner == <<rpc, boot, rconf, rtodo, rout, commonErr>>
proxyside == <<configChan, served>>
vars == <<cluster, informers, k8sState, queue, worker, requeue, runner,
          reconfReq, commonReq, proxyside>>

Reading == [Objects -> Nat]               \* the revision read of each object, 0: not read
NotRead == [o \in Objects |-> 0]

(* ControllerConf with the modules built from it; the closures a module hands
   out keep the ControllerConf (and so the secrets) they were built from.      *)
ControllerConf == [src: Confs, used: Reading]
IngressConfiguration == [rev: Nat, used: Reading, modules: ControllerConf]
RoutingConfig == [ings: [Ingresses -> IngressConfiguration \cup {NONE}],
                  modules: ControllerConf, tls: Nat, tcp: Reading]

(* A nil pointer is none of the values a pointer may lead to. *)
ASSUME NoneAssumption ==
  /\ NONE \notin IngObject /\ NONE \notin ControllerConf
  /\ NONE \notin IngressConfiguration /\ NONE \notin RoutingConfig

WorkerPc == {"idle", "lock", "paths", "tls"}
RunPc == {"cm", "modules", "tls", "upstream", "tcp", "idle", "snapshot", "send"}

StateTypeOK ==
  /\ conf \in ControllerConf \cup {NONE}
  /\ classes \in [Classes -> Kind]
  /\ entryObj \in [Ingresses -> IngObject \cup {NONE}]
  /\ entryConf \in [Ingresses -> IngressConfiguration \cup {NONE}]
  /\ defaultTls \in Nat /\ lbStatus \in BOOLEAN /\ tcpProxies \in Reading

WorkerTypeOK ==
  /\ queue \subseteq Ingresses /\ requeue \in Classes \cup {NONE}
  /\ wpc \in WorkerPc /\ wing \in Ingresses \cup {NONE}
  /\ wobj \in IngObject \cup {NONE} /\ wtodo \subseteq Objects /\ wused \in Reading

RunTypeOK ==
  /\ rpc \in RunPc /\ boot \in BOOLEAN /\ commonErr \in BOOLEAN
  /\ rconf \in ControllerConf \cup {NONE} /\ rtodo \subseteq Secrets
  /\ rout \in RoutingConfig \cup {NONE}

ChanTypeOK ==
  /\ reconfReq \in BOOLEAN /\ commonReq \in BOOLEAN
  /\ configChan \in Seq(RoutingConfig) /\ Len(configChan) =< ChanCap
  /\ served \in RoutingConfig \cup {NONE}

(* Every variable stays in its type, and configChan within its capacity. *)
TypeOK == ClusterTypeOK /\ StateTypeOK /\ WorkerTypeOK /\ RunTypeOK /\ ChanTypeOK

(* The worker is inside reconcileIngress. *)
Converting == wpc \in {"paths", "tls"}

(* Mutant: ReconcileIngress takes the lock only after it has read the objects
   of the paths.                                                             *)
LockedLate == wpc = "tls"

(* k8sState's lock is held across steps by ReconcileIngress only. *)
Locked == Converting

(* isIngressRelevant; the caller has checked that there is an object. *)
isIngressRelevant(ingress) ==
  /\ ingress.spec.class # NONE
  /\ classes[ingress.spec.class] = "ours"

(* The process starts: main.go up to the call of Init. *)
Init ==
  /\ ClusterInit
  /\ conf = NONE
  /\ classes = [c \in Classes |-> "none"]
  /\ entryObj = [i \in Ingresses |-> NONE]
  /\ entryConf = [i \in Ingresses |-> NONE]
  /\ defaultTls = 0 /\ lbStatus = FALSE /\ tcpProxies = NotRead
  /\ queue = {} /\ requeue = NONE
  /\ wpc = "idle" /\ wing = NONE /\ wobj = NONE /\ wtodo = {} /\ wused = NotRead
  /\ rpc = "cm" /\ boot = TRUE /\ rconf = NONE /\ rtodo = {} /\ rout = NONE
  /\ commonErr = FALSE
  /\ reconfReq = FALSE /\ commonReq = FALSE
  /\ configChan = <<>> /\ served = NONE

(* Mutants: the channels are unbuffered, so a send that finds Run at work and
   not in its select is dropped.                                             *)
RequestReconfigureUnbuffered == reconfReq' = (reconfReq \/ rpc = "idle")
RequestReconcileCommonUnbuffered == commonReq' = (commonReq \/ rpc = "idle")

(* RequestReconfigure and RequestReconcileCommon: a send that is dropped when
   the channel, of capacity one, already holds a token.                        *)
RequestReconfigure == reconfReq' = TRUE
RequestReconcileCommon == commonReq' = TRUE
RequestReconfigureWhenRelevant(relevant) == reconfReq' = (reconfReq \/ relevant)

(***************************************************************************)
(* The watch handlers of reconcile.go.                                     *)
(***************************************************************************)

(* For(&netv1.Ingress{}): the name goes into the work queue, a set. *)
EnqueueIngress(i) ==
  /\ i \in events
  /\ events' = events \ {i}
  /\ queue' = queue \cup {i}
  /\ UNCHANGED <<cluster, classEvents, k8sState, worker, requeue, runner,
                 reconfReq, commonReq, proxyside>>

(* CreateFunc, up to the return of AddIngressClass. *)
AddIngressClass(c) ==
  /\ requeue = NONE /\ ~Locked
  /\ classEvents[c] # <<>> /\ Head(classEvents[c]) # "none"
  /\ classes' = [classes EXCEPT ![c] = Head(classEvents[c])]
  /\ RequestReconfigure
  /\ classEvents' = [classEvents EXCEPT ![c] = Tail(@)]
  /\ requeue' = c
  /\ UNCHANGED <<cluster, events, conf, entryObj, entryConf, defaultTls, lbStatus,
                 tcpProxies, queue, worker, runner, commonReq, proxyside>>

(* DeleteFunc, up to the return of RemoveIngressClass. *)
RemoveIngressClass(c) ==
  /\ requeue = NONE /\ ~Locked
  /\ classEvents[c] # <<>> /\ Head(classEvents[c]) = "none"
  /\ classes' = [classes EXCEPT ![c] = "none"]
  /\ RequestReconfigureWhenRelevant(classes[c] # "none")
  /\ classEvents' = [classEvents EXCEPT ![c] = Tail(@)]
  /\ requeue' = c
  /\ UNCHANGED <<cluster, events, conf, entryObj, entryConf, defaultTls, lbStatus,
                 tcpProxies, queue, worker, runner, commonReq, proxyside>>

(* Mutant: only the Ingresses that are routed already are listed. *)
RoutedOfClass(c) == {i \in Ingresses : entryConf[i] # NONE /\ entryObj[i].spec.class = c}

(* The Ingresses of the class, listed from the cache. *)
IngressesOfClass(c) == {i \in Ingresses : ingObj[i] # NONE /\ ingObj[i].spec.class = c}

(* The rest of both handlers: list the Ingresses of the class and queue them. *)
getIngressesToRequeueOnClassChange ==
  /\ requeue # NONE
  /\ queue' = queue \cup IngressesOfClass(requeue)
  /\ requeue' = NONE
  /\ UNCHANGED <<cluster, informers, k8sState, worker, runner,
                 reconfReq, commonReq, proxyside>>

(* Mutant: the used objects are not recorded. *)
UsersOfNone(o) == {}

(* The Ingresses whose Configuration lists o in UsedSecrets or UsedServices. *)
UsersOf(o) == {i \in Ingresses : entryConf[i] # NONE /\ entryConf[i].used[o] # 0}

(* Mutant: the test for the default certificate is left out. *)
UsedByModules(s) == conf # NONE /\ conf.used[s] # 0

(* The common configuration names s as default certificate or its modules
   have read it.                                                             *)
UsedByCommon(s) == conf # NONE /\ (conf.src.tls = s \/ conf.used[s] # 0)

getIngressReconcilesForSecrets(s) ==
  /\ s \in events /\ ~Locked
  /\ events' = events \ {s}
  /\ commonReq' = (commonReq \/ UsedByCommon(s))
  /\ queue' = queue \cup UsersOf(s)
  /\ UNCHANGED <<cluster, classEvents, k8sState, worker, requeue, runner,
                 reconfReq, proxyside>>

(* No Ingress ever lists a ConfigMap, so only the controller's own matters. *)
getIngressReconcilesForConfigMaps ==
  /\ ConfigMap \in events /\ ~Locked
  /\ events' = events \ {ConfigMap}
  /\ RequestReconcileCommon
  /\ UNCHANGED <<cluster, classEvents, k8sState, queue, worker, requeue, runner,
                 reconfReq, proxyside>>

(* The upstream Service returns early: its Ingresses are not queued. *)
getIngressReconcilesForServices(v) ==
  /\ v \in events /\ ~Locked
  /\ events' = events \ {v}
  /\ LET upstream == conf # NONE /\ conf.src.upstream = v
     IN  /\ commonReq' = (commonReq \/ upstream)
         /\ queue' = IF upstream THEN queue ELSE queue \cup UsersOf(v)
  /\ UNCHANGED <<cluster, classEvents, k8sState, worker, requeue, runner,
                 reconfReq, proxyside>>

(***************************************************************************)
(* Reconcile and ReconcileIngress, run by the one worker of the queue.     *)
(***************************************************************************)
WorkerDone == /\ wpc' = "idle" /\ wing' = NONE /\ wobj' = NONE
              /\ wtodo' = {} /\ wused' = NotRead

(* Mutant: Reconcile does not test config. *)
ConfigNotTested == TRUE

(* The unlocked test of config at the top of Reconcile. *)
ConfigLoaded == conf # NONE

(* Reconcile up to the lock: the unlocked test of config (while it is nil the
   request is put back, a stutter here), then the Get, before the lock.       *)
Reconcile(i) ==
  /\ wpc = "idle" /\ i \in queue
  /\ ConfigLoaded
  /\ queue' = queue \ {i}
  /\ wpc' = "lock" /\ wing' = i /\ wobj' = ingObj[i]
  /\ UNCHANGED <<cluster, informers, k8sState, wtodo, wused, requeue, runner,
                 reconfReq, commonReq, proxyside>>

(* wasRelevant is computed with the classes of now, not of when i was added. *)
wasRelevant(i) == entryObj[i] # NONE /\ isIngressRelevant(entryObj[i])

removeIngress ==
  /\ wpc = "lock" /\ wobj = NONE
  /\ entryObj' = [entryObj EXCEPT ![wing] = NONE]
  /\ entryConf' = [entryConf EXCEPT ![wing] = NONE]
  /\ RequestReconfigureWhenRelevant(wasRelevant(wing))
  /\ WorkerDone
  /\ UNCHANGED <<cluster, informers, conf, classes, defaultTls, lbStatus, tcpProxies,
                 queue, requeue, runner, commonReq, proxyside>>

markIngressIrrelevant ==
  /\ wpc = "lock" /\ wobj # NONE /\ ~isIngressRelevant(wobj)
  /\ entryObj' = [entryObj EXCEPT ![wing] = wobj]
  /\ entryConf' = [entryConf EXCEPT ![wing] = NONE]
  /\ RequestReconfigureWhenRelevant(wasRelevant(wing))
  /\ WorkerDone
  /\ UNCHANGED <<cluster, informers, conf, classes, defaultTls, lbStatus, tcpProxies,
                 queue, requeue, runner, commonReq, proxyside>>

(* reconcileIngress begins, with the lock held. *)
reconcileIngress ==
  /\ wpc = "lock" /\ wobj # NONE /\ isIngressRelevant(wobj)
  /\ wpc' = "paths" /\ wtodo' = wobj.spec.backends
  /\ UNCHANGED <<cluster, informers, k8sState, queue, wing, wobj, wused, requeue,
                 runner, reconfReq, commonReq, proxyside>>

(* addPath and processIngressTls read one object.  Of two reads of one Secret
   the configuration is as old as the first.                                  *)
readObject(o) ==
  /\ Converting /\ o \in wtodo /\ objRev[o] # 0
  /\ wused' = [wused EXCEPT ![o] = IF @ = 0 THEN objRev[o] ELSE @]
  /\ wtodo' = wtodo \ {o}
  /\ UNCHANGED <<cluster, informers, k8sState, queue, wpc, wing, wobj, requeue,
                 runner, reconfReq, commonReq, proxyside>>

(* Mutant: ReconcileIngress logs the error and returns nil. *)
Forget == UNCHANGED queue

(* The error returned by Reconcile makes the work queue retry the name. *)
Retry == queue' = queue \cup {wing}

(* An error leaves the entry as it was. *)
reconcileError(o) ==
  /\ Converting /\ o \in wtodo /\ objRev[o] = 0
  /\ Retry
  /\ WorkerDone
  /\ UNCHANGED <<cluster, informers, k8sState, requeue, runner,
                 reconfReq, commonReq, proxyside>>

(* ensureActiveIngressStatus.  A failed update (a conflict, or any other error
   of the API server) is only logged.                                         *)
ensureActiveIngressStatus ==
  /\ wpc = "paths" /\ wtodo = {}
  /\ wpc' = "tls" /\ wtodo' = wobj.spec.tls
  /\ LET patch == ~conf.src.disableStatus /\ ~wobj.lb /\ lbStatus
     IN  /\ wobj' = [wobj EXCEPT !.lb = @ \/ patch]
         /\ \/ /\ patch /\ ingObj[wing] # NONE /\ ingObj[wing].rev = wobj.rev
               /\ ingObj' = [ingObj EXCEPT ![wing].lb = TRUE]
               /\ events' = events \cup {wing}
            \/ UNCHANGED <<ingObj, events>>
  /\ UNCHANGED <<rev, classObj, objRev, cm, classEvents, k8sState, queue, wing, wused,
                 requeue, runner, reconfReq, commonReq, proxyside>>

updateIngress ==
  /\ wpc = "tls" /\ wtodo = {}
  /\ entryObj' = [entryObj EXCEPT ![wing] = wobj]
  /\ entryConf' = [entryConf EXCEPT ![wing] =
                     [rev |-> wobj.rev, used |-> wused, modules |-> conf]]
  /\ RequestReconfigure
  /\ WorkerDone
  /\ UNCHANGED <<cluster, informers, conf, classes, defaultTls, lbStatus, tcpProxies,
                 queue, requeue, runner, commonReq, proxyside>>

ReconcileIngress ==
  \/ removeIngress \/ markIngressIrrelevant \/ reconcileIngress
  \/ \E o \in Objects : readObject(o) \/ reconcileError(o)
  \/ ensureActiveIngressStatus \/ updateIngress

(***************************************************************************)
(* The goroutine that runs Init and then Run.                              *)
(***************************************************************************)

(* The process ends and the kubelet starts it again: only the cluster stays. *)
Restart ==
  /\ UNCHANGED <<ingObj, classObj, objRev, cm>>
  /\ events' = FreshEvents /\ classEvents' = FreshClassEvents
  /\ conf' = NONE
  /\ classes' = [c \in Classes |-> "none"]
  /\ entryObj' = [i \in Ingresses |-> NONE]
  /\ entryConf' = [i \in Ingresses |-> NONE]
  /\ defaultTls' = 0 /\ lbStatus' = FALSE /\ tcpProxies' = NotRead
  /\ queue' = {} /\ requeue' = NONE
  /\ wpc' = "idle" /\ wing' = NONE /\ wobj' = NONE /\ wtodo' = {} /\ wused' = NotRead
  /\ rpc' = "cm" /\ boot' = TRUE /\ rconf' = NONE /\ rtodo' = {} /\ rout' = NONE
  /\ commonErr' = FALSE
  /\ reconfReq' = FALSE /\ commonReq' = FALSE
  /\ configChan' = <<>> /\ served' = NONE

(* reconfigureControllerCommonConfig returns an error: Run logs it and waits
   for the next request, Init makes main.go exit.                            *)
CommonFails ==
  \/ /\ ~boot
     /\ rpc' = "idle" /\ commonErr' = TRUE /\ rconf' = NONE /\ rtodo' = {}
     /\ UNCHANGED <<cluster, informers, k8sState, queue, worker, requeue, boot, rout,
                    reconfReq, commonReq, proxyside>>
  \/ boot /\ UNCHANGED rev /\ Restart

(* getControllerConfig: read and parse the ConfigMap, without the lock. *)
getControllerConfig ==
  /\ rpc = "cm"
  /\ \/ cm = NONE /\ CommonFails
     \/ /\ cm # NONE
        /\ rpc' = "modules"
        /\ rconf' = [src |-> cm, used |-> NotRead] /\ rtodo' = cm.clients
        /\ UNCHANGED <<cluster, informers, k8sState, queue, worker, requeue, boot, rout,
                       commonErr, reconfReq, commonReq, proxyside>>

(* A module asks moduleReconciler for a Secret, without the lock.  A Secret
   that is not found is not remembered.                                      *)
GetSecret(s) ==
  /\ rpc = "modules" /\ s \in rtodo
  /\ \/ objRev[s] = 0 /\ CommonFails
     \/ /\ objRev[s] # 0
        /\ rconf' = [rconf EXCEPT !.used[s] = objRev[s]] /\ rtodo' = rtodo \ {s}
        /\ UNCHANGED <<cluster, informers, k8sState, queue, worker, requeue, rpc, boot,
                       rout, commonErr, reconfReq, commonReq, proxyside>>

(* getClientConfig cannot reach the OIDC provider: log.Fatal. *)
ProviderFatal ==
  /\ rpc = "modules" /\ rtodo # rconf.src.clients
  /\ Change("provider")
  /\ Restart

(* updateConfig takes the lock for the assignment only. *)
updateConfig ==
  /\ rpc = "modules" /\ rtodo = {} /\ ~Locked
  /\ conf' = rconf /\ rconf' = NONE
  /\ rpc' = "tls"
  /\ UNCHANGED <<cluster, informers, classes, entryObj, entryConf, defaultTls, lbStatus,
                 tcpProxies, queue, worker, requeue, boot, rtodo, rout, commonErr,
                 reconfReq, commonReq, proxyside>>

updateDefaultTls ==
  /\ rpc = "tls" /\ ~Locked
  /\ LET s == conf.src.tls
     IN  \/ s # NONE /\ objRev[s] = 0 /\ CommonFails
         \/ /\ s # NONE => objRev[s] # 0
            /\ defaultTls' = IF s = NONE THEN 0 ELSE objRev[s]
            /\ rpc' = "upstream"
            /\ UNCHANGED <<cluster, informers, conf, classes, entryObj, entryConf, lbStatus,
                           tcpProxies, queue, worker, requeue, boot, rconf, rtodo, rout,
                           commonErr, reconfReq, commonReq, proxyside>>

(* A Service that is not found is only warned about. *)
updateUpstreamIpAddress ==
  /\ rpc = "upstream" /\ ~Locked
  /\ lbStatus' = (conf.src.upstream # NONE /\ objRev[conf.src.upstream] # 0)
  /\ rpc' = "tcp"
  /\ UNCHANGED <<cluster, informers, conf, classes, entryObj, entryConf, defaultTls,
                 tcpProxies, queue, worker, requeue, boot, rconf, rtodo, rout, commonErr,
                 reconfReq, commonReq, proxyside>>

(* updateTcpProxy, then requestReconfigure: Init or the iteration of Run ends. *)
updateTcpProxy ==
  /\ rpc = "tcp" /\ ~Locked
  /\ \/ (\E v \in conf.src.tcp : objRev[v] = 0) /\ CommonFails
     \/ /\ \A v \in conf.src.tcp : objRev[v] # 0
        /\ tcpProxies' = [o \in Objects |-> IF o \in conf.src.tcp THEN objRev[o] ELSE 0]
        /\ RequestReconfigure
        /\ rpc' = "idle" /\ boot' = FALSE /\ commonErr' = FALSE
        /\ UNCHANGED <<cluster, informers, conf, classes, entryObj, entryConf, defaultTls,
                       lbStatus, queue, worker, requeue, rconf, rtodo, rout, commonReq,
                       proxyside>>

(* Run's select. *)
RunReconcileCommon ==
  /\ rpc = "idle" /\ commonReq
  /\ commonReq' = FALSE /\ rpc' = "cm"
  /\ UNCHANGED <<cluster, informers, k8sState, queue, worker, requeue, boot, rconf, rtodo,
                 rout, commonErr, reconfReq, proxyside>>

RunReconfigure ==
  /\ rpc = "idle" /\ reconfReq
  /\ reconfReq' = FALSE /\ rpc' = "snapshot"
  /\ UNCHANGED <<cluster, informers, k8sState, queue, worker, requeue, boot, rconf, rtodo,
                 rout, commonErr, commonReq, proxyside>>

RunTicker == rpc = "idle" /\ UNCHANGED vars

(* getProxyConfig under the read lock. *)
getProxyConfig ==
  /\ rpc = "snapshot" /\ ~Locked
  /\ rout' = [ings |-> entryConf, modules |-> conf, tls |-> defaultTls, tcp |-> tcpProxies]
  /\ rpc' = "send"
  /\ UNCHANGED <<cluster, informers, k8sState, queue, worker, requeue, boot, rconf, rtodo,
                 commonErr, reconfReq, commonReq, proxyside>>

(* Mutant: one more configuration than configChan holds. *)
RoomOffByOne == Len(configChan) =< ChanCap

Room == Len(configChan) < ChanCap

(* The send blocks while configChan is full. *)
SendConfig ==
  /\ rpc = "send" /\ Room
  /\ configChan' = Append(configChan, rout)
  /\ rout' = NONE /\ rpc' = "idle"
  /\ UNCHANGED <<cluster, informers, k8sState, queue, worker, requeue, boot, rconf, rtodo,
                 commonErr, reconfReq, commonReq, served>>

(* Proxy.Start, or waitForConfig, receives and stores the configuration. *)
StoreRoutingConfig ==
  /\ configChan # <<>>
  /\ served' = Head(configChan) /\ configChan' = Tail(configChan)
  /\ UNCHANGED <<cluster, informers, k8sState, queue, worker, requeue, runner,
                 reconfReq, commonReq>>

(* The process is killed. *)
Crash == Change("crash") /\ Restart

----------------------------------------------------------------------------
Environment ==
  ClusterNext /\ UNCHANGED <<k8sState, queue, worker, requeue, runner,
                             reconfReq, commonReq, proxyside>>

Handlers ==
  \/ \E i \in Ingresses : EnqueueIngress(i)
  \/ \E c \in Classes : AddIngressClass(c) \/ RemoveIngressClass(c)
  \/ getIngressesToRequeueOnClassChange
  \/ \E s \in Secrets : getIngressReconcilesForSecrets(s)
  \/ getIngressReconcilesForConfigMaps
  \/ \E v \in Services : getIngressReconcilesForServices(v)

CommonConfig ==
  \/ getControllerConfig \/ (\E s \in Secrets : GetSecret(s))
  \/ updateConfig \/ updateDefaultTls \/ updateUpstreamIpAddress \/ updateTcpProxy

Next ==
  \/ Environment \/ Handlers
  \/ (\E i \in Ingresses : Reconcile(i)) \/ ReconcileIngress
  \/ CommonConfig \/ ProviderFatal
  \/ RunReconcileCommon \/ RunReconfigure \/ RunTicker
  \/ getProxyConfig \/ SendConfig \/ StoreRoutingConfig
  \/ Crash

Spec == Init /\ [][Next]_vars

----------------------------------------------------------------------------
(* Fairness, per goroutine: the Go scheduler runs what can run (weak); a mutex
   starves no waiter and the work queue is first-in first-out, so what is
   possible again and again happens (strong).                                *)
RunStep ==
  \/ CommonConfig \/ RunReconcileCommon \/ RunReconfigure
  \/ getProxyConfig \/ SendConfig

Fairness ==
  /\ SF_vars(Handlers)
  /\ \A i \in Ingresses : SF_vars(Reconcile(i))
  /\ WF_vars(ReconcileIngress)
  /\ SF_vars(RunStep)
  /\ WF_vars(StoreRoutingConfig)

FairSpec == Spec /\ Fairness

(***************************************************************************)
(* Properties.                                                             *)
(***************************************************************************)

(* state.config is dereferenced by ReconcileIngress, by the update functions
   after updateConfig and by getProxyConfig, and none of them tests it: the
   unlocked test in Reconcile and the order of Init before Run must suffice. *)
ConfigSetBeforeUse ==
  wpc # "idle" \/ rpc \notin {"cm", "modules"} \/ ~boot => conf # NONE

(* The configuration sent to the proxy last, or about to be sent. *)
LatestConfig ==
  IF rpc = "send" THEN rout
  ELSE IF configChan # <<>> THEN configChan[Len(configChan)] ELSE served

(* RequestReconfigure drops its token when one is pending: no Ingress
   configuration is lost by that.  What k8sState holds is in the configuration
   sent last, or a token is pending, or Run has taken one and not yet locked. *)
NoLostReconfigure ==
  \A i \in Ingresses : entryConf[i] # NONE =>
    \/ reconfReq \/ rpc = "snapshot"
    \/ LatestConfig # NONE /\ LatestConfig.ings[i] = entryConf[i]

(* The same for the common part, unless the last reconcile of the common
   configuration failed half way (controller.go:116-139).                    *)
CommonPublished ==
  conf # NONE =>
    \/ reconfReq \/ rpc \in {"cm", "modules", "tls", "upstream", "tcp", "snapshot"}
    \/ commonErr
    \/ /\ LatestConfig # NONE
       /\ LatestConfig.modules = conf /\ LatestConfig.tls = defaultTls
       /\ LatestConfig.tcp = tcpProxies

Pending(i) == i \in events \cup queue \/ wing = i

(* The Services some config.yaml takes the status from; NONE when it takes none. *)
Upstreams == {m.upstream : m \in Confs}

(* "if some object is used during config, the Ingress will be reconciled on
   change of the object" (pkg/config/module.go, IngressReconciler): a
   configuration built from an old object has a notification or a reconcile
   still to come.  Not so for an upstream Service (reconcile.go:158-161).    *)
ObjectTracked ==
  \A i \in Ingresses, o \in Objects \ Upstreams :
    /\ entryConf[i] # NONE
    /\ entryConf[i].used[o] # 0
    /\ entryConf[i].used[o] # objRev[o]
    => o \in events \/ Pending(i)

SpecRev(o) == IF o = NONE THEN 0 ELSE o.rev

(* The Get happens before the lock, so an old object may be stored, but never
   without a newer reconcile to come, and a failed one is retried.           *)
IngressTracked ==
  \A i \in Ingresses : SpecRev(entryObj[i]) # SpecRev(ingObj[i]) => Pending(i)

(* An entry has a Configuration exactly when its class is ours, or its class
   has just changed and the Ingress is about to be reconciled.               *)
RelevanceTracked ==
  \A i \in Ingresses :
    entryObj[i] # NONE /\ ((entryConf[i] # NONE) # isIngressRelevant(entryObj[i]))
    => Pending(i) \/ requeue = entryObj[i].spec.class

(* A step of the common reconcile that will read what follows again. *)
CommonDue(pcs) == commonReq \/ rpc \in pcs \/ commonErr

(* The ControllerConf in use is the ConfigMap's, or it is about to be, or the
   last attempt failed (Run only logs that, controller.go:91-93).            *)
ConfTracked ==
  conf # NONE /\ conf.src # cm =>
    ConfigMap \in events \/ CommonDue({"cm"}) \/ (rpc = "modules" /\ rconf.src = cm)

(* The default certificate is the Secret's current one, or about to be. *)
DefaultTlsTracked ==
  conf # NONE /\ conf.src.tls # NONE /\ defaultTls # objRev[conf.src.tls] =>
    conf.src.tls \in events \/ CommonDue({"cm", "modules", "tls"})

(* What the modules were built from is current, or about to be:
   "if some object is used during config, the Module will be reconfigured"
   (pkg/config/module.go, ModuleReconciler).  A notification of the ConfigMap
   makes Run build them again, whatever the ConfigMap holds.                 *)
ModuleTracked ==
  conf # NONE => \A s \in conf.src.clients :
    conf.used[s] # objRev[s] =>
      s \in events \/ ConfigMap \in events \/ CommonDue({"cm", "modules"})

Quiescent ==
  /\ events = {} /\ (\A c \in Classes : classEvents[c] = <<>>) /\ requeue = NONE
  /\ queue = {} /\ wpc = "idle"
  /\ rpc = "idle" /\ ~reconfReq /\ ~commonReq /\ configChan = <<>>

OfOurClass(i) ==
  /\ ingObj[i] # NONE
  /\ ingObj[i].spec.class # NONE
  /\ classObj[ingObj[i].spec.class] = "ours"

(* Once everything is handled, no Ingress that is gone or of another class is
   routed (controller_test.go, TestIngressIgnoreOtherClass and
   TestIngressUpdateReconciliation).                                         *)
NoStaleRoutes ==
  Quiescent /\ served # NONE =>
    \A i \in Ingresses : served.ings[i] # NONE => OfOurClass(i)

(* Once everything is handled, the middlewares of every route were built by
   the modules whose RequestMiddlewares the proxy runs: a module whose Secret
   changed "will be reconfigured" and "can be replaced anytime"
   (pkg/config/module.go, ModuleReconciler and ModuleCreator).               *)
OneModuleGeneration ==
  Quiescent /\ ~commonErr => \A i \in Ingresses :
    entryConf[i] # NONE => entryConf[i].modules = conf

ObjectsOf(i) == ingObj[i].spec.backends \cup ingObj[i].spec.tls

(* The proxy routes the Ingress by its current contents and, the upstream
   Services apart, by the current objects it names.                          *)
ServedCurrent(i) ==
  /\ served # NONE
  /\ served.ings[i] # NONE
  /\ served.ings[i].rev = ingObj[i].rev
  /\ \A o \in ObjectsOf(i) \ Upstreams :
       objRev[o] # 0 /\ served.ings[i].used[o] = objRev[o]

(* Once everything is handled, every Ingress of our classes is routed from
   what the cluster holds: no handler, retry, lock, token or channel between
   an object and the proxy has lost or overtaken a change.                   *)
RoutesSettled ==
  Quiescent => \A i \in Ingresses : OfOurClass(i) => ServedCurrent(i)

(* The same for config.yaml and the default certificate, unless the last
   reconcile of the common configuration failed.                             *)
CommonSettled ==
  Quiescent /\ ~commonErr =>
    /\ served # NONE /\ served.modules.src = cm
    /\ served.tls = IF cm.tls = NONE THEN 0 ELSE objRev[cm.tls]

(* An Ingress of one of our classes, all of whose objects can be read. *)
ShouldServe(i) == OfOurClass(i) /\ \A o \in ObjectsOf(i) : objRev[o] # 0

(* When the cluster stops changing, the proxy ends up routing every Ingress
   it should, from the current objects, and keeps doing so.                  *)
Convergence == <>[](\A i \in Ingresses : ShouldServe(i) => ServedCurrent(i))
====
