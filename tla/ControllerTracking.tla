---- MODULE ControllerTracking ----
(***************************************************************************)
(* The common configuration and the classes, for every cluster: what has   *)
(* been read is in use and published, and nothing stale stays without a    *)
(* notification, a request or a reconcile to come.                         *)
(***************************************************************************)
EXTENDS ControllerProofs

(* What each goroutine leaves alone, for the proofs below. *)

LEMMA EnvironmentFrame ==
  ASSUME Inv, Environment
  PROVE  /\ rev' = rev + 1 /\ events \subseteq events'
         /\ cm' = cm \/ ConfigMap \in events'
         /\ \A o \in Objects : objRev'[o] = objRev[o] \/ o \in events'
<1>0. objRev \in [Objects -> Nat]
  BY DEF Inv, TypeOK, ClusterTypeOK
<1>1. ASSUME NEW i \in Ingresses, NEW s \in IngressSpecs, DeleteIngress(i) \/ ApplyIngress(i, s)
      PROVE  rev' = rev + 1 /\ events' = events \cup {i} /\ UNCHANGED <<cm, objRev>>
  BY <1>1, Zenon DEF DeleteIngress, ApplyIngress, Change
<1>2. ASSUME NEW i \in Ingresses, DeleteIngress(i)
      PROVE  rev' = rev + 1 /\ events' = events \cup {i} /\ UNCHANGED <<cm, objRev>>
  BY <1>2 DEF DeleteIngress, Change
<1>3. ASSUME NEW c \in Classes, NEW k \in {"ours", "other"}, DeleteClass(c) \/ CreateClass(c, k)
      PROVE  rev' = rev + 1 /\ UNCHANGED <<cm, objRev, events>>
  BY <1>3 DEF DeleteClass, CreateClass, Change
<1>4. ASSUME NEW o \in Objects, ApplyObject(o) \/ DeleteObject(o)
      PROVE  /\ rev' = rev + 1 /\ cm' = cm /\ events' = events \cup {o}
             /\ \A p \in Objects : p # o => objRev'[p] = objRev[p]
  BY <1>0, <1>4 DEF ApplyObject, DeleteObject, Change
<1>5. ASSUME NEW m \in Confs \cup {NONE}, ApplyConfigMap(m)
      PROVE  rev' = rev + 1 /\ events' = events \cup {ConfigMap} /\ UNCHANGED objRev
  BY <1>5 DEF ApplyConfigMap, Change
<1>6. ClusterNext
  BY DEF Environment
<1>7. CASE \E i \in Ingresses : DeleteIngress(i) \/ \E s \in IngressSpecs : ApplyIngress(i, s)
  BY <1>1, <1>2, <1>7
<1>8. CASE \E c \in Classes : DeleteClass(c) \/ \E k \in {"ours", "other"} : CreateClass(c, k)
  BY <1>3, <1>8
<1>9. CASE \E o \in Objects : ApplyObject(o) \/ DeleteObject(o)
  BY <1>4, <1>9
<1>10. CASE \E m \in Confs \cup {NONE} : ApplyConfigMap(m)
  BY <1>5, <1>10
<1> QED BY <1>6, <1>7, <1>8, <1>9, <1>10 DEF ClusterNext

LEMMA HandlersFrame ==
  ASSUME Handlers
  PROVE  /\ UNCHANGED <<cluster, entryObj, entryConf, worker, proxyside>>
         /\ queue \subseteq queue' /\ events \cap Ingresses \subseteq events' \cup queue'
         /\ ConfigMap \in events => ConfigMap \in events' \/ commonReq'
         /\ \A s \in Secrets : s \in events /\ UsedByCommon(s) => s \in events' \/ commonReq'
<1>0. /\ ConfigMap \notin Ingresses \cup Objects /\ Ingresses \cap Objects = {}
      /\ Secrets \cap Services = {} /\ Secrets \subseteq Objects /\ Services \subseteq Objects
  BY ConstantsAssumption DEF Objects
<1>1. ASSUME NEW i \in Ingresses, EnqueueIngress(i)
      PROVE  /\ UNCHANGED <<cluster, k8sState, worker, proxyside>>
             /\ queue' = queue \cup {i} /\ events' = events \ {i}
  BY <1>1 DEF EnqueueIngress
<1>2. ASSUME NEW c \in Classes, AddIngressClass(c) \/ RemoveIngressClass(c)
      PROVE  UNCHANGED <<cluster, entryObj, entryConf, worker, proxyside, queue, events>>
  BY <1>2 DEF AddIngressClass, RemoveIngressClass
<1>3. ASSUME getIngressesToRequeueOnClassChange
      PROVE  /\ UNCHANGED <<cluster, events, k8sState, worker, proxyside>>
             /\ queue' = queue \cup IngressesOfClass(requeue)
  BY <1>3 DEF getIngressesToRequeueOnClassChange, informers
<1>4. ASSUME NEW s \in Secrets, getIngressReconcilesForSecrets(s)
      PROVE  /\ UNCHANGED <<cluster, k8sState, worker, proxyside>>
             /\ queue' = queue \cup UsersOf(s) /\ events' = events \ {s}
  BY <1>4 DEF getIngressReconcilesForSecrets
<1>5. ASSUME getIngressReconcilesForConfigMaps
      PROVE  /\ UNCHANGED <<cluster, k8sState, worker, proxyside, queue>>
             /\ events' = events \ {ConfigMap} /\ commonReq'
  BY <1>5 DEF getIngressReconcilesForConfigMaps, RequestReconcileCommon
<1>6. ASSUME NEW v \in Services, getIngressReconcilesForServices(v)
      PROVE  /\ UNCHANGED <<cluster, k8sState, worker, proxyside>>
             /\ queue \subseteq queue' /\ events' = events \ {v}
  BY <1>6 DEF getIngressReconcilesForServices
<1>7. ASSUME NEW s \in Secrets, getIngressReconcilesForSecrets(s), UsedByCommon(s) PROVE commonReq'
  BY <1>7, Zenon DEF getIngressReconcilesForSecrets
<1> USE DEF k8sState
<1>11. CASE \E i \in Ingresses : EnqueueIngress(i)
  BY <1>0, <1>1, <1>11
<1>12. CASE \E c \in Classes : AddIngressClass(c) \/ RemoveIngressClass(c)
  BY <1>2, <1>12
<1>13. CASE getIngressesToRequeueOnClassChange
  BY <1>3, <1>13
<1>14. CASE \E s \in Secrets : getIngressReconcilesForSecrets(s)
  BY <1>0, <1>4, <1>7, <1>14
<1>15. CASE getIngressReconcilesForConfigMaps
  BY <1>0, <1>5, <1>15
<1>16. CASE \E v \in Services : getIngressReconcilesForServices(v)
  BY <1>0, <1>6, <1>16
<1> QED BY <1>11, <1>12, <1>13, <1>14, <1>15, <1>16 DEF Handlers

LEMMA WorkerFrame ==
  ASSUME (\E i \in Ingresses : Reconcile(i)) \/ ReconcileIngress
  PROVE  UNCHANGED <<rev, objRev, cm, classes, requeue, proxyside>> /\ events \subseteq events'
<1> USE DEF cluster, informers, k8sState
<1>1. CASE \E i \in Ingresses : Reconcile(i)
  BY <1>1 DEF Reconcile
<1>2. CASE removeIngress \/ markIngressIrrelevant \/ updateIngress
  BY <1>2 DEF removeIngress, markIngressIrrelevant, updateIngress
<1>3. CASE reconcileIngress \/ \E o \in Objects : readObject(o) \/ reconcileError(o)
  BY <1>3 DEF reconcileIngress, readObject, reconcileError
<1>4. CASE ensureActiveIngressStatus
  BY <1>4 DEF ensureActiveIngressStatus
<1> QED BY <1>1, <1>2, <1>3, <1>4 DEF ReconcileIngress

LEMMA RunFrame ==
  ASSUME RunReconcileCommon \/ RunReconfigure \/ RunTicker \/ getProxyConfig \/ SendConfig
           \/ StoreRoutingConfig \/ UNCHANGED vars
  PROVE  UNCHANGED <<cluster, informers, k8sState, queue, worker, requeue>>
<1>1. CASE RunReconcileCommon \/ RunReconfigure
  BY <1>1 DEF RunReconcileCommon, RunReconfigure
<1>2. CASE getProxyConfig \/ SendConfig \/ StoreRoutingConfig
  BY <1>2 DEF getProxyConfig, SendConfig, StoreRoutingConfig
<1>3. CASE RunTicker \/ UNCHANGED vars
  BY <1>3 DEF RunTicker, vars
<1> QED BY <1>1, <1>2, <1>3

LEMMA CommonFrame ==
  ASSUME CommonConfig
  PROVE  \/ boot /\ UNCHANGED rev /\ Restart
         \/ UNCHANGED <<cluster, informers, classes, entryObj, entryConf, queue, worker, requeue>>
<1> USE DEF k8sState
<1>1. CASE CommonFails
  BY <1>1 DEF CommonFails
<1>2. CASE ~CommonFails /\ (getControllerConfig \/ \E s \in Secrets : GetSecret(s))
  BY <1>2 DEF getControllerConfig, GetSecret
<1>3. CASE updateConfig \/ updateUpstreamIpAddress
  BY <1>3 DEF updateConfig, updateUpstreamIpAddress
<1>4. CASE ~CommonFails /\ (updateDefaultTls \/ updateTcpProxy)
  BY <1>4 DEF updateDefaultTls, updateTcpProxy
<1> QED BY <1>1, <1>2, <1>3, <1>4 DEF CommonConfig

(* What a step of Run may change of the common configuration; every other step
   that is no restart leaves it alone.                                        *)
CommonVars == <<conf, defaultTls, tcpProxies, rpc, rconf, rtodo, commonErr>>

(* The steps that neither restart the process nor belong to Run. *)
LEMMA OutsideRun ==
  ASSUME Inv, \/ Environment \/ Handlers \/ (\E i \in Ingresses : Reconcile(i)) \/ ReconcileIngress
              \/ StoreRoutingConfig \/ RunTicker \/ UNCHANGED vars
  PROVE  UNCHANGED <<CommonVars, rout>> /\ (commonReq => commonReq') /\ (reconfReq => reconfReq')
<1> USE DEF k8sState, runner, CommonVars
<1>1. CASE Environment \/ (\E i \in Ingresses : Reconcile(i)) \/ StoreRoutingConfig
  BY <1>1 DEF Environment, Reconcile, StoreRoutingConfig
<1>2. CASE Handlers
  <2>1. CASE \E i \in Ingresses : EnqueueIngress(i)
    BY <2>1 DEF EnqueueIngress
  <2>2. CASE \E c \in Classes : AddIngressClass(c) \/ RemoveIngressClass(c)
    <3>1. UNCHANGED <<CommonVars, rout, commonReq>>
      BY <2>2 DEF AddIngressClass, RemoveIngressClass
    <3>2. reconfReq => reconfReq'
      BY <2>2, Zenon DEF AddIngressClass, RemoveIngressClass, RequestReconfigure,
          RequestReconfigureWhenRelevant
    <3> QED BY <3>1, <3>2, Zenon
  <2>3. CASE getIngressesToRequeueOnClassChange
    BY <2>3 DEF getIngressesToRequeueOnClassChange
  <2>4. CASE \E s \in Secrets : getIngressReconcilesForSecrets(s)
    <3>1. UNCHANGED <<CommonVars, rout, reconfReq>>
      BY <2>4 DEF getIngressReconcilesForSecrets
    <3>2. commonReq => commonReq'
      BY <2>4, Zenon DEF getIngressReconcilesForSecrets
    <3> QED BY <3>1, <3>2
  <2>5. CASE getIngressReconcilesForConfigMaps
    BY <2>5 DEF getIngressReconcilesForConfigMaps, RequestReconcileCommon
  <2>6. CASE \E v \in Services : getIngressReconcilesForServices(v)
    <3>1. UNCHANGED <<CommonVars, rout, reconfReq>>
      BY <2>6 DEF getIngressReconcilesForServices
    <3>2. commonReq => commonReq'
      BY <2>6, Zenon DEF getIngressReconcilesForServices
    <3> QED BY <3>1, <3>2
  <2> QED BY <1>2, <2>1, <2>2, <2>3, <2>4, <2>5, <2>6 DEF Handlers
<1>3. CASE ReconcileIngress
  <2>1. CASE removeIngress \/ markIngressIrrelevant
    <3>1. UNCHANGED <<CommonVars, rout, commonReq>>
      BY <2>1 DEF removeIngress, markIngressIrrelevant
    <3>2. reconfReq => reconfReq'
      BY <2>1, Zenon DEF removeIngress, markIngressIrrelevant, RequestReconfigureWhenRelevant
    <3> QED BY <3>1, <3>2
  <2>2. CASE reconcileIngress \/ ensureActiveIngressStatus
    BY <2>2 DEF reconcileIngress, ensureActiveIngressStatus
  <2>3. CASE \E o \in Objects : readObject(o) \/ reconcileError(o)
    BY <2>3 DEF readObject, reconcileError
  <2>4. CASE updateIngress
    BY <2>4 DEF updateIngress, RequestReconfigure
  <2> QED BY <1>3, <2>1, <2>2, <2>3, <2>4 DEF ReconcileIngress
<1>4. CASE RunTicker \/ UNCHANGED vars
  <2>1. UNCHANGED <<CommonVars, rout>> /\ commonReq' = commonReq /\ reconfReq' = reconfReq
    BY <1>4 DEF RunTicker, vars
  <2> QED BY <2>1, Zenon
<1> QED BY <1>1, <1>2, <1>3, <1>4

----------------------------------------------------------------------------
(* What Run has read of the ConfigMap is current, or it will be read again. *)
ConfInv ==
  /\ rpc = "modules" /\ rconf.src # cm => ConfigMap \in events \/ commonReq
  /\ rpc \in {"tls", "upstream", "tcp"} /\ conf.src # cm => ConfigMap \in events \/ commonReq
  /\ ConfTracked

LEMMA ConfRestart == Restart => ConfInv'
BY DEF Restart, ConfInv, ConfTracked

LEMMA ConfFails ==
  ASSUME ConfInv, CommonFails
  PROVE  ConfInv'
<1>1. CASE boot /\ UNCHANGED rev /\ Restart
  BY <1>1, ConfRestart
<1>2. CASE rpc' = "idle" /\ commonErr' = TRUE
  BY <1>2 DEF ConfInv, ConfTracked, CommonDue
<1> QED BY <1>1, <1>2, Zenon DEF CommonFails

LEMMA ConfFrame ==
  ASSUME ConfInv, UNCHANGED CommonVars, commonReq => commonReq',
         cm' = cm \/ ConfigMap \in events',
         ConfigMap \in events => ConfigMap \in events' \/ commonReq'
  PROVE  ConfInv'
BY DEF ConfInv, ConfTracked, CommonDue, CommonVars

LEMMA ConfStep == Inv /\ ConfInv /\ [Next]_vars => ConfInv'
<1> SUFFICES ASSUME Inv, ConfInv, [Next]_vars PROVE ConfInv'
  OBVIOUS
<1> USE DEF cluster, informers, k8sState, worker
<1>0. /\ rpc \in RunPc
      /\ ConfigMap \notin Ingresses \cup Objects /\ Secrets \subseteq Objects /\ Services \subseteq Objects
  BY ConstantsAssumption DEF Inv, TypeOK, RunTypeOK, Objects
<1>1. CASE \/ Environment \/ Handlers \/ (\E i \in Ingresses : Reconcile(i)) \/ ReconcileIngress
           \/ StoreRoutingConfig \/ RunTicker \/ UNCHANGED vars
  <2>1. UNCHANGED CommonVars /\ (commonReq => commonReq')
    BY <1>1, OutsideRun
  <2>2. /\ cm' = cm \/ ConfigMap \in events'
        /\ ConfigMap \in events => ConfigMap \in events' \/ commonReq'
    <3>1. CASE Environment
      BY <3>1, EnvironmentFrame
    <3>2. CASE Handlers
      BY <3>2, HandlersFrame
    <3>3. CASE StoreRoutingConfig \/ RunTicker \/ UNCHANGED vars
      BY <3>3, RunFrame
    <3>4. CASE (\E i \in Ingresses : Reconcile(i)) \/ ReconcileIngress
      BY <3>4, WorkerFrame
    <3> QED BY <1>1, <3>1, <3>2, <3>3, <3>4
  <2> QED BY <2>1, <2>2, ConfFrame
<1>2. CASE CommonConfig
  <2>1. CASE CommonFails
    BY <2>1, ConfFails
  <2>2. CASE ~CommonFails /\ getControllerConfig
    <3>1. /\ rpc' = "modules" /\ rconf' = [src |-> cm, used |-> NotRead]
          /\ UNCHANGED <<cm, conf, events, commonReq, commonErr>>
      BY <2>2 DEF getControllerConfig
    <3>2. rconf'.src = cm'
      BY <3>1
    <3> QED BY <3>1, <3>2 DEF ConfInv, ConfTracked, CommonDue
  <2>3. CASE ~CommonFails /\ \E s \in Secrets : GetSecret(s)
    <3>1. PICK s \in Secrets : GetSecret(s)
      BY <2>3
    <3>2. /\ rpc = "modules" /\ rpc' = "modules" /\ rconf' = [rconf EXCEPT !.used[s] = objRev[s]]
          /\ UNCHANGED <<cm, conf, events, commonReq, commonErr>>
      BY <2>3, <3>1 DEF GetSecret
    <3>3. rconf \in ControllerConf
      BY <3>2 DEF Inv, TypeOK, RunTypeOK, ControlOK
    <3>4. rconf'.src = rconf.src
      BY <3>2, <3>3 DEF ControllerConf
    <3> QED BY <3>2, <3>4 DEF ConfInv, ConfTracked, CommonDue
  <2>4. CASE updateConfig
    BY <2>4 DEF updateConfig, ConfInv, ConfTracked, CommonDue
  <2>5. CASE ~CommonFails /\ updateDefaultTls
    BY <2>5 DEF updateDefaultTls, ConfInv, ConfTracked, CommonDue
  <2>6. CASE updateUpstreamIpAddress
    BY <2>6 DEF updateUpstreamIpAddress, ConfInv, ConfTracked, CommonDue
  <2>7. CASE ~CommonFails /\ updateTcpProxy
    BY <2>7 DEF updateTcpProxy, ConfInv, ConfTracked, CommonDue
  <2> QED BY <1>2, <2>1, <2>2, <2>3, <2>4, <2>5, <2>6, <2>7 DEF CommonConfig
<1>3. CASE ProviderFatal \/ Crash
  BY <1>3, ConfRestart DEF ProviderFatal, Crash
<1>4. CASE RunReconcileCommon
  BY <1>4 DEF RunReconcileCommon, ConfInv, ConfTracked, CommonDue
<1>5. CASE RunReconfigure \/ getProxyConfig \/ SendConfig
  BY <1>5 DEF RunReconfigure, getProxyConfig, SendConfig, ConfInv, ConfTracked, CommonDue
<1> QED BY <1>1, <1>2, <1>3, <1>4, <1>5 DEF Next

(* The ConfigMap that k8sState holds is the current one, or a notification, a
   request or the step of Run that stores the new one is still to come, or the
   last attempt has failed: no request that finds the channel full is lost.   *)
THEOREM ConfTrackedCorrect == Spec => []ConfTracked
<1>1. Init => ConfInv
  BY DEF Init, ConfInv, ConfTracked
<1>2. Inv /\ ConfInv /\ [Next]_vars => ConfInv'
  BY ConfStep
<1>3. ConfInv => ConfTracked
  BY DEF ConfInv
<1> QED BY <1>1, <1>2, <1>3, InvCorrect, PTL DEF Spec

----------------------------------------------------------------------------
LEMMA PublishedRestart == Restart => CommonPublished'
BY DEF Restart, CommonPublished

LEMMA PublishedStep == Inv /\ CommonPublished /\ [Next]_vars => CommonPublished'
<1> SUFFICES ASSUME Inv, CommonPublished, [Next]_vars PROVE CommonPublished'
  OBVIOUS
<1> USE DEF k8sState, runner, proxyside
<1>0. /\ configChan \in Seq(RoutingConfig)
      /\ rpc = "send" => rout \in RoutingConfig
  BY DEF Inv, TypeOK, RunTypeOK, ChanTypeOK, ControlOK
<1>1. CASE \/ Environment \/ Handlers \/ (\E i \in Ingresses : Reconcile(i)) \/ ReconcileIngress
           \/ StoreRoutingConfig \/ RunTicker \/ UNCHANGED vars
  <2>1. UNCHANGED <<CommonVars, rout>> /\ (reconfReq => reconfReq')
    BY <1>1, OutsideRun
  <2>2. LatestConfig' = LatestConfig
    <3>1. CASE StoreRoutingConfig
      BY <1>0, <3>1, LatestStored
    <3>2. CASE ~StoreRoutingConfig
      <4>1. UNCHANGED <<configChan, served>>
        <5>1. CASE Environment
          BY <5>1 DEF Environment
        <5>2. CASE Handlers
          BY <5>2, HandlersFrame
        <5>3. CASE (\E i \in Ingresses : Reconcile(i)) \/ ReconcileIngress
          BY <5>3, WorkerFrame
        <5>4. CASE RunTicker \/ UNCHANGED vars
          BY <5>4 DEF RunTicker, vars
        <5> QED BY <1>1, <3>2, <5>1, <5>2, <5>3, <5>4
      <4> QED BY <2>1, <4>1, LatestUnchanged DEF CommonVars
    <3> QED BY <3>1, <3>2
  <2> QED BY <2>1, <2>2 DEF CommonPublished, CommonVars
<1>2. CASE CommonConfig
  <2> USE DEF CommonPublished
  <2>1. CASE CommonFails
    <3>1. CASE boot /\ UNCHANGED rev /\ Restart
      BY <3>1, PublishedRestart
    <3>2. CASE commonErr' = TRUE
      BY <3>2
    <3> QED BY <2>1, <3>1, <3>2, Zenon DEF CommonFails
  <2>2. CASE ~CommonFails /\ (getControllerConfig \/ \E s \in Secrets : GetSecret(s))
    BY <2>2 DEF getControllerConfig, GetSecret
  <2>3. CASE updateConfig \/ updateUpstreamIpAddress
    BY <2>3 DEF updateConfig, updateUpstreamIpAddress
  <2>4. CASE ~CommonFails /\ (updateDefaultTls \/ updateTcpProxy)
    BY <2>4 DEF updateDefaultTls, updateTcpProxy, RequestReconfigure
  <2> QED BY <1>2, <2>1, <2>2, <2>3, <2>4 DEF CommonConfig
<1>3. CASE ProviderFatal \/ Crash
  BY <1>3, PublishedRestart DEF ProviderFatal, Crash
<1>4. CASE RunReconcileCommon \/ RunReconfigure
  BY <1>4 DEF RunReconcileCommon, RunReconfigure, CommonPublished
<1>5. CASE getProxyConfig
  <2>1. /\ LatestConfig' = [ings |-> entryConf, modules |-> conf, tls |-> defaultTls,
                            tcp |-> tcpProxies]
        /\ UNCHANGED <<conf, defaultTls, tcpProxies>>
    BY <1>5 DEF getProxyConfig, LatestConfig
  <2>2. LatestConfig' \in RoutingConfig
    BY <1>5, <2>1 DEF getProxyConfig, Inv, TypeOK, StateTypeOK, ControlOK, RoutingConfig
  <2> QED BY <2>1, <2>2, NoneAssumption DEF CommonPublished
<1>6. CASE SendConfig
  <2>1. LatestConfig' = LatestConfig
    <3>1. rout \in RoutingConfig
      BY <1>0, <1>6 DEF SendConfig
    <3> QED BY <1>0, <1>6, <3>1, LatestSent
  <2> QED BY <1>6, <2>1 DEF SendConfig, CommonPublished
<1> QED BY <1>1, <1>2, <1>3, <1>4, <1>5, <1>6 DEF Next

(* The modules, the default certificate and the TCP proxies of k8sState are in
   the configuration sent last, or a request or a common reconcile is under way, or
   the last one failed half way.                                              *)
THEOREM CommonPublishedCorrect == Spec => []CommonPublished
<1>1. Init => CommonPublished
  BY DEF Init, CommonPublished
<1>2. Inv /\ CommonPublished /\ [Next]_vars => CommonPublished'
  BY PublishedStep
<1> QED BY <1>1, <1>2, InvCorrect, PTL DEF Spec

----------------------------------------------------------------------------
(* The certificate is that of the Secret. *)
TlsCurrent == conf.src.tls # NONE => defaultTls = objRev[conf.src.tls]

(* Run has read the certificate: it is current, or it will be read again. *)
TlsInv ==
  /\ rpc \in {"upstream", "tcp"} /\ conf # NONE /\ ~TlsCurrent =>
       conf.src.tls \in events \/ commonReq
  /\ DefaultTlsTracked

LEMMA TlsRestart == Restart => TlsInv'
BY DEF Restart, TlsInv, DefaultTlsTracked

LEMMA TlsFails ==
  ASSUME TlsInv, CommonFails
  PROVE  TlsInv'
<1>1. CASE boot /\ UNCHANGED rev /\ Restart
  BY <1>1, TlsRestart
<1>2. CASE rpc' = "idle" /\ commonErr' = TRUE
  BY <1>2 DEF TlsInv, DefaultTlsTracked, CommonDue
<1> QED BY <1>1, <1>2, Zenon DEF CommonFails

LEMMA TlsFrame ==
  ASSUME TlsInv, UNCHANGED CommonVars, commonReq => commonReq',
         conf # NONE => \/ objRev'[conf.src.tls] = objRev[conf.src.tls]
                        \/ conf.src.tls = NONE \/ conf.src.tls \in events',
         conf # NONE /\ conf.src.tls \in events => conf.src.tls \in events' \/ commonReq'
  PROVE  TlsInv'
BY DEF TlsInv, TlsCurrent, DefaultTlsTracked, CommonDue, CommonVars

LEMMA TlsStep == Inv /\ TlsInv /\ [Next]_vars => TlsInv'
<1> SUFFICES ASSUME Inv, TlsInv, [Next]_vars PROVE TlsInv'
  OBVIOUS
<1> USE DEF cluster, informers, k8sState, worker
<1>0. /\ conf # NONE => conf.src.tls \in Secrets \cup {NONE}
      /\ objRev \in [Objects -> Nat] /\ Secrets \subseteq Objects /\ Services \subseteq Objects
      /\ Secrets \cap (Ingresses \cup Services \cup {ConfigMap, NONE}) = {}
      /\ NONE \notin events
  BY ConstantsAssumption
  DEF Inv, TypeOK, StateTypeOK, ClusterTypeOK, ControllerConf, ConfShape, Objects
<1>1. CASE \/ Environment \/ Handlers \/ (\E i \in Ingresses : Reconcile(i)) \/ ReconcileIngress
           \/ StoreRoutingConfig \/ RunTicker \/ UNCHANGED vars
  <2>1. UNCHANGED CommonVars /\ (commonReq => commonReq')
    BY <1>1, OutsideRun
  <2>2. /\ \A s \in Secrets : objRev'[s] = objRev[s] \/ s \in events'
        /\ conf # NONE /\ conf.src.tls \in events => conf.src.tls \in events' \/ commonReq'
    <3>1. CASE Environment
      BY <1>0, <3>1, EnvironmentFrame
    <3>2. CASE Handlers
      <4>1. /\ UNCHANGED objRev
            /\ \A s \in Secrets : s \in events /\ UsedByCommon(s) => s \in events' \/ commonReq'
        BY <3>2, HandlersFrame
      <4>2. conf # NONE /\ conf.src.tls \in events => conf.src.tls \in Secrets /\ UsedByCommon(conf.src.tls)
        BY <1>0 DEF UsedByCommon
      <4> QED BY <4>1, <4>2
    <3>3. CASE StoreRoutingConfig \/ RunTicker \/ UNCHANGED vars
      BY <3>3, RunFrame
    <3>4. CASE (\E i \in Ingresses : Reconcile(i)) \/ ReconcileIngress
      BY <3>4, WorkerFrame
    <3> QED BY <1>1, <3>1, <3>2, <3>3, <3>4
  <2> QED BY <1>0, <2>1, <2>2, TlsFrame
<1>2. CASE CommonConfig
  <2> USE DEF TlsInv, TlsCurrent, DefaultTlsTracked, CommonDue
  <2>1. CASE CommonFails
    BY <2>1, TlsFails
  <2>2. CASE ~CommonFails /\ (getControllerConfig \/ \E s \in Secrets : GetSecret(s))
    BY <2>2 DEF getControllerConfig, GetSecret
  <2>3. CASE updateConfig
    BY <2>3 DEF updateConfig
  <2>4. CASE ~CommonFails /\ updateDefaultTls
    BY <2>4 DEF updateDefaultTls
  <2>5. CASE updateUpstreamIpAddress
    BY <2>5 DEF updateUpstreamIpAddress
  <2>6. CASE ~CommonFails /\ updateTcpProxy
    BY <2>6 DEF updateTcpProxy
  <2> QED BY <1>2, <2>1, <2>2, <2>3, <2>4, <2>5, <2>6 DEF CommonConfig
<1>3. CASE ProviderFatal \/ Crash
  BY <1>3, TlsRestart DEF ProviderFatal, Crash
<1>4. CASE RunReconcileCommon \/ RunReconfigure \/ getProxyConfig \/ SendConfig
  BY <1>4 DEF RunReconcileCommon, RunReconfigure, getProxyConfig, SendConfig,
              TlsInv, TlsCurrent, DefaultTlsTracked, CommonDue
<1> QED BY <1>1, <1>2, <1>3, <1>4 DEF Next

(* The default certificate is that of the current Secret, or the Secret will be
   read again, or the last attempt has failed.                                *)
THEOREM DefaultTlsTrackedCorrect == Spec => []DefaultTlsTracked
<1>1. Init => TlsInv
  BY DEF Init, TlsInv, DefaultTlsTracked
<1>2. Inv /\ TlsInv /\ [Next]_vars => TlsInv'
  BY TlsStep
<1>3. TlsInv => DefaultTlsTracked
  BY DEF TlsInv
<1> QED BY <1>1, <1>2, <1>3, InvCorrect, PTL DEF Spec

----------------------------------------------------------------------------
(* Copies of an Ingress with one revision have one content. *)
CopyOf(o, i) ==
  o # NONE =>
    /\ o.rev \in 1..rev
    /\ ingObj[i] # NONE /\ o.rev = ingObj[i].rev => o.spec = ingObj[i].spec

RevisionInv ==
  \A i \in Ingresses :
    CopyOf(ingObj[i], i) /\ CopyOf(entryObj[i], i) /\ (wing = i => CopyOf(wobj, i))

LEMMA RevisionFrame ==
  ASSUME RevisionInv, UNCHANGED <<rev, ingObj, entryObj, wing, wobj>>
  PROVE  RevisionInv'
BY DEF RevisionInv, CopyOf

LEMMA RevisionRestart ==
  ASSUME Inv, RevisionInv, rev' = rev \/ rev' = rev + 1, Restart
  PROVE  RevisionInv'
<1>1. \A n \in 1..rev : n \in 1..rev'
  BY DEF Inv, TypeOK, ClusterTypeOK
<1> QED BY <1>1, ConstantsAssumption DEF Restart, RevisionInv, CopyOf

LEMMA RevisionStep == Inv /\ RevisionInv /\ [Next]_vars => RevisionInv'
<1> SUFFICES ASSUME Inv, RevisionInv, [Next]_vars PROVE RevisionInv'
  OBVIOUS
<1> USE DEF cluster, informers, k8sState, worker
<1>0. /\ entryObj \in [Ingresses -> IngObject \cup {NONE}]
      /\ ingObj \in [Ingresses -> IngObject \cup {NONE}]
      /\ wobj \in IngObject \cup {NONE} /\ rev \in Nat
      /\ NONE \notin Ingresses /\ NONE \notin IngObject
  BY ConstantsAssumption, NoneAssumption
  DEF Inv, TypeOK, StateTypeOK, WorkerTypeOK, ClusterTypeOK
<1>c. /\ wpc # "idle" => wing \in Ingresses
      /\ wpc = "idle" => wing = NONE
      /\ Locked => wobj # NONE
  BY DEF Inv, TypeOK, WorkerTypeOK, ControlOK
<1>1. CASE Environment
  <2>a. rev' = rev + 1
    BY <1>1, EnvironmentFrame, Zenon
  <2>b. UNCHANGED <<entryObj, wing, wobj>>
    BY <1>1 DEF Environment
  <2>c. \A n \in 1..rev : n \in 1..(rev + 1)
    BY <1>0
  <2>1. UNCHANGED <<entryObj, wing, wobj>> /\ \A n \in 1..rev : n \in 1..rev'
    BY <2>a, <2>b, <2>c
  <2>2. CASE UNCHANGED ingObj
    BY <2>1, <2>2 DEF RevisionInv, CopyOf
  <2>3. ASSUME NEW i \in Ingresses, DeleteIngress(i) PROVE RevisionInv'
    BY <1>0, <2>1, <2>3 DEF DeleteIngress, RevisionInv, CopyOf
  <2>4. ASSUME NEW i \in Ingresses, NEW s \in IngressSpecs, ApplyIngress(i, s) PROVE RevisionInv'
    <3>1. /\ ingObj'[i].rev = rev + 1
          /\ \A j \in Ingresses : j # i => ingObj'[j] = ingObj[j]
      BY <1>0, <2>4 DEF ApplyIngress
    <3>2. rev + 1 \in 1..rev' /\ \A n \in 1..rev : n # rev + 1
      BY <1>0, <2>a
    <3> QED BY <2>1, <3>1, <3>2 DEF RevisionInv, CopyOf
  <2> QED BY <1>1, <2>2, <2>3, <2>4
          DEF Environment, ClusterNext, CreateClass, DeleteClass, ApplyObject, DeleteObject, ApplyConfigMap
<1>2. CASE Handlers
  BY <1>2, HandlersFrame, RevisionFrame
<1>3. CASE \E i \in Ingresses : Reconcile(i)
  BY <1>3, Zenon DEF Reconcile, RevisionInv, CopyOf
<1>4. CASE ReconcileIngress
  <2>1. CASE removeIngress \/ markIngressIrrelevant \/ updateIngress
    <3>1. /\ wing \in Ingresses /\ wing' = NONE /\ UNCHANGED <<rev, ingObj>>
          /\ entryObj' = [entryObj EXCEPT ![wing] = wobj]
      BY <1>c, <2>1 DEF removeIngress, markIngressIrrelevant, updateIngress, WorkerDone
    <3> QED BY <1>0, <3>1 DEF RevisionInv, CopyOf
  <2>2. CASE reconcileIngress \/ \E o \in Objects : readObject(o)
    BY <2>2, RevisionFrame, Zenon DEF reconcileIngress, readObject
  <2>3. CASE \E o \in Objects : reconcileError(o)
    <3>1. wing' = NONE /\ UNCHANGED <<rev, ingObj, entryObj>>
      BY <2>3 DEF reconcileError, WorkerDone
    <3> QED BY <1>0, <3>1 DEF RevisionInv, CopyOf
  <2>4. CASE ensureActiveIngressStatus
    <3>1. UNCHANGED <<rev, entryObj, wing>> /\ wing \in Ingresses /\ wobj \in IngObject
      BY <1>0, <1>c, <2>4 DEF ensureActiveIngressStatus, Locked, Converting
    <3>2. wobj'.rev = wobj.rev /\ wobj'.spec = wobj.spec
      <4> DEFINE lb == wobj.lb \/ (~conf.src.disableStatus /\ ~wobj.lb /\ lbStatus)
      <4>1. wobj' = [wobj EXCEPT !.lb = lb]
        BY <2>4 DEF ensureActiveIngressStatus
      <4> HIDE DEF lb
      <4> QED BY <3>1, <4>1 DEF IngObject
    <3>3. \A i \in Ingresses : /\ ingObj'[i] # NONE => ingObj[i] # NONE
                               /\ ingObj'[i] # NONE => /\ ingObj'[i].rev = ingObj[i].rev
                                                      /\ ingObj'[i].spec = ingObj[i].spec
      <4>1. CASE UNCHANGED ingObj
        BY <4>1
      <4>2. CASE ingObj[wing] # NONE /\ ingObj' = [ingObj EXCEPT ![wing].lb = TRUE]
        <5>1. /\ ingObj'[wing] = [ingObj[wing] EXCEPT !.lb = TRUE]
              /\ \A i \in Ingresses : i # wing => ingObj'[i] = ingObj[i]
          BY <1>0, <3>1, <4>2
        <5>2. /\ ingObj'[wing].rev = ingObj[wing].rev /\ ingObj'[wing].spec = ingObj[wing].spec
          BY <1>0, <3>1, <4>2, <5>1 DEF IngObject
        <5> QED BY <4>2, <5>1, <5>2
      <4> QED BY <2>4, <4>1, <4>2 DEF ensureActiveIngressStatus
    <3> QED BY <1>0, <3>1, <3>2, <3>3 DEF RevisionInv, CopyOf
  <2> QED BY <1>4, <2>1, <2>2, <2>3, <2>4 DEF ReconcileIngress
<1>5. CASE CommonConfig
  <2>1. CASE boot /\ UNCHANGED rev /\ Restart
    BY <2>1, RevisionRestart
  <2>2. CASE UNCHANGED <<cluster, entryObj, worker>>
    BY <2>2, RevisionFrame
  <2> QED BY <1>5, <2>1, <2>2, CommonFrame
<1>6. CASE ProviderFatal \/ Crash
  BY <1>6, RevisionRestart DEF ProviderFatal, Crash, Change
<1>7. CASE RunReconcileCommon \/ RunReconfigure \/ RunTicker \/ getProxyConfig \/ SendConfig
           \/ StoreRoutingConfig \/ UNCHANGED vars
  BY <1>7, RunFrame, RevisionFrame
<1> QED BY <1>1, <1>2, <1>3, <1>4, <1>5, <1>6, <1>7 DEF Next

(* While the worker converts an Ingress its class is ours: the classes are
   guarded by the lock it holds.  So an Ingress without a class is never routed. *)
RelevanceInv ==
  /\ Locked => isIngressRelevant(wobj)
  /\ \A i \in Ingresses : entryObj[i] # NONE /\ entryConf[i] # NONE => entryObj[i].spec.class # NONE
  /\ RelevanceTracked

LEMMA RelevanceFrame ==
  ASSUME RelevanceInv, UNCHANGED <<classes, entryObj, entryConf, wpc, wing, wobj, requeue>>,
         events \cap Ingresses \subseteq events' \cup queue', queue \subseteq queue'
  PROVE  RelevanceInv'
BY Zenon DEF RelevanceInv, RelevanceTracked, Locked, Converting, isIngressRelevant, Pending

LEMMA RelevanceRestart == Restart => RelevanceInv'
BY DEF Restart, RelevanceInv, RelevanceTracked, Locked, Converting

LEMMA RelevanceStep ==
  Inv /\ IngressInv /\ RevisionInv /\ RelevanceInv /\ [Next]_vars => RelevanceInv'
<1> SUFFICES ASSUME Inv, IngressInv, RevisionInv, RelevanceInv, [Next]_vars PROVE RelevanceInv'
  OBVIOUS
<1> USE DEF cluster, informers, k8sState, worker
<1>0. /\ entryObj \in [Ingresses -> IngObject \cup {NONE}]
      /\ entryConf \in [Ingresses -> IngressConfiguration \cup {NONE}]
      /\ ingObj \in [Ingresses -> IngObject \cup {NONE}]
      /\ classes \in [Classes -> Kind] /\ wobj \in IngObject \cup {NONE}
      /\ \A o \in IngObject : o.spec.class \in Classes \cup {NONE}
      /\ \A i \in Ingresses : i \notin Objects /\ i # NONE /\ i # ConfigMap
      /\ Secrets \subseteq Objects /\ Services \subseteq Objects
  BY ConstantsAssumption
  DEF Inv, TypeOK, StateTypeOK, WorkerTypeOK, ClusterTypeOK, IngObject, SpecShape, Objects
<1>c. /\ wpc # "idle" => wing \in Ingresses
      /\ wpc = "idle" => wing = NONE
      /\ Locked => wobj # NONE
  BY DEF Inv, TypeOK, WorkerTypeOK, ControlOK
<1>1. CASE Environment
  <2>1. events \subseteq events'
    BY <1>1, EnvironmentFrame
  <2> QED BY <1>1, <2>1, RelevanceFrame DEF Environment
<1>2. CASE Handlers
  <2>1. CASE \E i \in Ingresses : EnqueueIngress(i)
    BY <2>1, RelevanceFrame DEF EnqueueIngress
  <2>2. ASSUME NEW c \in Classes, AddIngressClass(c) \/ RemoveIngressClass(c) PROVE RelevanceInv'
    <3>1. /\ ~Locked /\ requeue = NONE /\ requeue' = c
          /\ \A d \in Classes : d # c => classes'[d] = classes[d]
          /\ UNCHANGED <<entryObj, entryConf, wpc, wing, wobj, events, queue>>
      BY <1>0, <2>2 DEF AddIngressClass, RemoveIngressClass
    <3>2. ASSUME NEW i \in Ingresses, entryObj[i] # NONE, entryObj[i].spec.class # c
          PROVE  isIngressRelevant(entryObj[i])' = isIngressRelevant(entryObj[i])
      BY <1>0, <3>1, <3>2 DEF isIngressRelevant
    <3>3. ASSUME NEW i \in Ingresses, entryObj[i] # NONE, entryObj[i].spec.class # c,
                 (entryConf[i] # NONE) # isIngressRelevant(entryObj[i])'
          PROVE  Pending(i)
      <4>1. (entryConf[i] # NONE) # isIngressRelevant(entryObj[i])
        BY <3>2, <3>3
      <4>2. entryObj[i].spec.class # NONE
        BY <3>3, <4>1, Zenon DEF RelevanceInv, isIngressRelevant
      <4> QED BY <3>1, <3>3, <4>1, <4>2, Zenon DEF RelevanceInv, RelevanceTracked
    <3> QED BY <3>1, <3>3, Zenon DEF RelevanceInv, RelevanceTracked, Locked, Converting, Pending
  <2>3. CASE getIngressesToRequeueOnClassChange
    <3>1. /\ queue' = queue \cup IngressesOfClass(requeue) /\ requeue # NONE
          /\ UNCHANGED <<classes, entryObj, entryConf, wpc, wing, wobj, events>>
      BY <2>3 DEF getIngressesToRequeueOnClassChange
    <3>2. ASSUME NEW i \in Ingresses, entryObj[i] # NONE, ~Pending(i),
                 requeue = entryObj[i].spec.class
          PROVE  i \in IngressesOfClass(requeue)
      <4>1. entryObj[i].rev # 0
        BY <3>2 DEF RevisionInv, CopyOf
      <4>2. SpecRev(ingObj[i]) = entryObj[i].rev
        BY <3>2 DEF IngressInv, IngressTracked, SpecRev
      <4>3. ingObj[i] # NONE /\ ingObj[i].rev = entryObj[i].rev
        BY <4>1, <4>2 DEF SpecRev
      <4>4. entryObj[i].spec = ingObj[i].spec
        BY <3>2, <4>3 DEF RevisionInv, CopyOf
      <4> QED BY <3>2, <4>3, <4>4 DEF IngressesOfClass
    <3> QED BY <3>1, <3>2, Zenon
            DEF RelevanceInv, RelevanceTracked, Locked, Converting, isIngressRelevant, Pending
  <2>4. CASE (\E s \in Secrets : getIngressReconcilesForSecrets(s)) \/ getIngressReconcilesForConfigMaps
             \/ \E v \in Services : getIngressReconcilesForServices(v)
    <3>1. /\ UNCHANGED <<classes, entryObj, entryConf, wpc, wing, wobj, requeue>>
          /\ events \cap Ingresses \subseteq events' /\ queue \subseteq queue'
      BY <1>0, <2>4 DEF getIngressReconcilesForSecrets, getIngressReconcilesForConfigMaps,
                        getIngressReconcilesForServices
    <3> QED BY <3>1, RelevanceFrame
  <2> QED BY <1>2, <2>1, <2>2, <2>3, <2>4 DEF Handlers
<1>3. ASSUME NEW i \in Ingresses, Reconcile(i) PROVE RelevanceInv'
  <2>1. /\ wpc' = "lock" /\ wing' = i /\ queue' = queue \ {i} /\ wpc = "idle"
        /\ UNCHANGED <<classes, entryObj, entryConf, requeue, events>>
    BY <1>3 DEF Reconcile
  <2> QED BY <1>0, <1>c, <2>1, Zenon
          DEF RelevanceInv, RelevanceTracked, Locked, Converting, isIngressRelevant, Pending
<1>4. CASE ReconcileIngress
  <2> USE DEF RelevanceInv, RelevanceTracked, Locked, Converting, isIngressRelevant, Pending
  <2>1. CASE removeIngress \/ markIngressIrrelevant
    <3>1. /\ wing \in Ingresses /\ wpc' = "idle" /\ UNCHANGED <<events, queue, requeue, classes>>
          /\ entryObj' = [entryObj EXCEPT ![wing] = wobj]
          /\ entryConf' = [entryConf EXCEPT ![wing] = NONE]
          /\ wobj # NONE => ~isIngressRelevant(wobj)
      BY <1>c, <2>1, Zenon DEF removeIngress, markIngressIrrelevant, WorkerDone
    <3> QED BY <1>0, <3>1, Zenon
  <2>2. CASE updateIngress
    <3> DEFINE new == [rev |-> wobj.rev, used |-> wused, modules |-> conf]
    <3>1. /\ wing \in Ingresses /\ wpc' = "idle" /\ UNCHANGED <<events, queue, requeue, classes>>
          /\ entryObj' = [entryObj EXCEPT ![wing] = wobj]
          /\ entryConf' = [entryConf EXCEPT ![wing] = new]
          /\ isIngressRelevant(wobj)
      BY <1>c, <2>2 DEF updateIngress, WorkerDone
    <3>2. new # NONE
      <4>1. new \in IngressConfiguration
        BY <2>2, <1>c, NoneAssumption, Zenon
        DEF updateIngress, Inv, TypeOK, StateTypeOK, WorkerTypeOK, ControlOK, IngressConfiguration, IngObject
      <4> QED BY <4>1, NoneAssumption, Zenon
    <3> HIDE DEF new
    <3> QED BY <1>0, <3>1, <3>2, Zenon
  <2>3. CASE reconcileIngress
    BY <2>3, Zenon DEF reconcileIngress
  <2>4. CASE \E o \in Objects : readObject(o)
    BY <2>4, RelevanceFrame, Zenon DEF readObject
  <2>5. CASE \E o \in Objects : reconcileError(o)
    <3>1. /\ wpc' = "idle" /\ queue' = queue \cup {wing}
          /\ UNCHANGED <<events, requeue, classes, entryObj, entryConf>>
      BY <2>5, Zenon DEF reconcileError, Retry, WorkerDone
    <3> QED BY <1>0, <3>1, Zenon
  <2>6. CASE ensureActiveIngressStatus
    <3>1. /\ UNCHANGED <<classes, entryObj, entryConf, wing, queue, requeue>> /\ events \subseteq events'
          /\ Locked
      BY <2>6 DEF ensureActiveIngressStatus
    <3>2. wobj'.spec = wobj.spec
      <4> DEFINE lb == wobj.lb \/ (~conf.src.disableStatus /\ ~wobj.lb /\ lbStatus)
      <4>1. wobj' = [wobj EXCEPT !.lb = lb] /\ wobj \in IngObject
        BY <1>0, <1>c, <2>6 DEF ensureActiveIngressStatus
      <4> HIDE DEF lb
      <4> QED BY <4>1 DEF IngObject
    <3> QED BY <3>1, <3>2, Zenon
  <2> QED BY <1>4, <2>1, <2>2, <2>3, <2>4, <2>5, <2>6, Zenon DEF ReconcileIngress
<1>5. CASE CommonConfig
  <2>1. CASE boot /\ UNCHANGED rev /\ Restart
    BY <2>1, RelevanceRestart
  <2>2. CASE UNCHANGED <<informers, classes, entryObj, entryConf, queue, worker, requeue>>
    BY <2>2, RelevanceFrame
  <2> QED BY <1>5, <2>1, <2>2, CommonFrame
<1>6. CASE ProviderFatal \/ Crash
  BY <1>6, RelevanceRestart DEF ProviderFatal, Crash
<1>7. CASE RunReconcileCommon \/ RunReconfigure \/ RunTicker \/ getProxyConfig \/ SendConfig
           \/ StoreRoutingConfig \/ UNCHANGED vars
  <2>1. UNCHANGED <<classes, entryObj, entryConf, wpc, wing, wobj, requeue, events, queue>>
    BY <1>7, RunFrame
  <2> QED BY <2>1, RelevanceFrame
<1> QED BY <1>1, <1>2, <1>3, <1>4, <1>5, <1>6, <1>7 DEF Next

LEMMA RelevanceInvariant == Spec => [](IngressInv /\ RevisionInv /\ RelevanceInv)
<1>1. Init => IngressInv /\ RevisionInv /\ RelevanceInv
  BY ConstantsAssumption
  DEF Init, ClusterInit, IngressInv, WorkerObject, IngressTracked, SpecRev, RevisionInv, CopyOf,
      RelevanceInv, RelevanceTracked, Locked, Converting
<1>2. Inv /\ (IngressInv /\ RevisionInv /\ RelevanceInv) /\ [Next]_vars
      => (IngressInv /\ RevisionInv /\ RelevanceInv)'
  BY IngressStep, RevisionStep, RelevanceStep
<1> QED BY <1>1, <1>2, InvCorrect, PTL DEF Spec

(* Every Ingress with an entry is routed exactly when its class is ours, or it
   will be reconciled.  The list of the class's Ingresses is taken after the lock
   is given back, from newer objects than the entries; it misses none because an
   entry with an older revision is due anyway, and one revision has one content. *)
THEOREM RelevanceTrackedCorrect == Spec => []RelevanceTracked
<1>1. RelevanceInv => RelevanceTracked
  BY DEF RelevanceInv
<1> QED BY <1>1, RelevanceInvariant, PTL
====
