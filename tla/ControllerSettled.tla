---- MODULE ControllerSettled ----
(***************************************************************************)
(* What the controller has reached once everything is handled, for every   *)
(* cluster: the proxy routes the Ingresses of our classes, and only those  *)
(* while no class of ours is deleted, from what the cluster holds.  Two    *)
(* promises the code breaks are shown to fail in one way only.             *)
(***************************************************************************)
EXTENDS ControllerTracking

(* The classes: the notification that is still to come last, or the class in
   k8sState when there is none, is the IngressClass of the cluster.          *)
LatestClass(c) ==
  IF classEvents[c] = <<>> THEN classes[c] ELSE classEvents[c][Len(classEvents[c])]

ClassInv == \A c \in Classes : LatestClass(c) = classObj[c]

LEMMA LastAppended ==
  ASSUME NEW S, NEW s \in Seq(S), NEW e \in S
  PROVE  Append(s, e) # <<>> /\ Append(s, e)[Len(Append(s, e))] = e
OBVIOUS

LEMMA LastOfTail ==
  ASSUME NEW S, NEW s \in Seq(S), s # <<>>
  PROVE  s[Len(s)] = IF Tail(s) = <<>> THEN Head(s) ELSE Tail(s)[Len(Tail(s))]
<1>0. Len(<<>>) = 0
  OBVIOUS
<1>1. Len(s) \in Nat /\ Len(s) # 0 /\ Tail(s) \in Seq(S) /\ Len(Tail(s)) = Len(s) - 1
  OBVIOUS
<1>2. CASE Tail(s) = <<>>
  <2>0. Len(Tail(s)) = 0
    BY <1>0, <1>2, Zenon
  <2>1. Len(s) \in Nat /\ 0 = Len(s) - 1
    BY <1>1, <2>0, Zenon
  <2> QED BY <1>2, <2>1
<1>3. CASE Tail(s) # <<>>
  <2>1. Len(Tail(s)) # 0
    BY <1>1, <1>3
  <2>2. Tail(s)[Len(s) - 1] = s[Len(s)]
    BY <1>1, <2>1
  <2> QED BY <1>1, <1>3, <2>2
<1> QED BY <1>2, <1>3

(* The steps that leave the classes alone. *)
LEMMA ClassFrame ==
  ASSUME Inv, [Next]_vars, ~Handlers, ~Environment
  PROVE  Restart \/ UNCHANGED <<classObj, classEvents, classes>>
<1> USE DEF cluster, informers, k8sState
<1>1. CASE \E i \in Ingresses : Reconcile(i)
  BY <1>1 DEF Reconcile
<1>2. CASE ReconcileIngress
  <2>1. CASE removeIngress \/ markIngressIrrelevant \/ updateIngress
    BY <2>1 DEF removeIngress, markIngressIrrelevant, updateIngress
  <2>2. CASE reconcileIngress \/ \E o \in Objects : readObject(o) \/ reconcileError(o)
    BY <2>2 DEF reconcileIngress, readObject, reconcileError
  <2>3. CASE ensureActiveIngressStatus
    BY <2>3 DEF ensureActiveIngressStatus
  <2> QED BY <1>2, <2>1, <2>2, <2>3 DEF ReconcileIngress
<1>3. CASE CommonConfig
  BY <1>3, CommonFrame
<1>4. CASE ProviderFatal \/ Crash
  BY <1>4 DEF ProviderFatal, Crash
<1>5. CASE RunReconcileCommon \/ RunReconfigure \/ RunTicker \/ getProxyConfig \/ SendConfig
           \/ StoreRoutingConfig \/ UNCHANGED vars
  BY <1>5, RunFrame
<1> QED BY <1>1, <1>2, <1>3, <1>4, <1>5 DEF Next

(* What a change of the cluster and a handler do to the classes. *)
LEMMA EnvironmentClasses ==
  ASSUME Environment
  PROVE  /\ UNCHANGED classes
         /\ \/ UNCHANGED <<classObj, classEvents>>
            \/ \E c \in Classes, k \in Kind :
                 /\ classObj[c] = "none" \/ k = "none"
                 /\ classObj' = [classObj EXCEPT ![c] = k]
                 /\ classEvents' = [classEvents EXCEPT ![c] = Append(classEvents[c], k)]
<1>1. UNCHANGED classes /\ ClusterNext
  BY DEF Environment, k8sState
<1>2. ASSUME NEW c \in Classes, DeleteClass(c) \/ \E k \in {"ours", "other"} : CreateClass(c, k)
      PROVE  \E k \in Kind :
                 /\ classObj[c] = "none" \/ k = "none"
                 /\ classObj' = [classObj EXCEPT ![c] = k]
                 /\ classEvents' = [classEvents EXCEPT ![c] = Append(classEvents[c], k)]
  BY <1>2 DEF DeleteClass, CreateClass, Kind
<1>3. CASE ~\E c \in Classes : DeleteClass(c) \/ \E k \in {"ours", "other"} : CreateClass(c, k)
  BY <1>1, <1>3, Zenon
  DEF ClusterNext, ApplyIngress, DeleteIngress, ApplyObject, DeleteObject, ApplyConfigMap
<1> QED BY <1>1, <1>2, <1>3

LEMMA HandlersClasses ==
  ASSUME Handlers
  PROVE  /\ UNCHANGED classObj
         /\ \/ UNCHANGED <<classes, classEvents>>
            \/ \E c \in Classes :
                 /\ classEvents[c] # <<>>
                 /\ classes' = [classes EXCEPT ![c] = Head(classEvents[c])]
                 /\ classEvents' = [classEvents EXCEPT ![c] = Tail(classEvents[c])]
<1> USE DEF cluster, informers, k8sState
<1>1. ASSUME NEW c \in Classes, AddIngressClass(c) \/ RemoveIngressClass(c)
      PROVE  /\ UNCHANGED classObj
             /\ classEvents[c] # <<>>
             /\ classes' = [classes EXCEPT ![c] = Head(classEvents[c])]
             /\ classEvents' = [classEvents EXCEPT ![c] = Tail(classEvents[c])]
  BY <1>1 DEF AddIngressClass, RemoveIngressClass
<1>2. CASE ~\E c \in Classes : AddIngressClass(c) \/ RemoveIngressClass(c)
  BY <1>2 DEF Handlers, EnqueueIngress, getIngressesToRequeueOnClassChange,
              getIngressReconcilesForSecrets, getIngressReconcilesForConfigMaps,
              getIngressReconcilesForServices
<1> QED BY <1>1, <1>2

LEMMA ClassRestart == ASSUME Inv, Restart PROVE ClassInv'
<1>1. /\ \A c \in Classes : classObj[c] = "none" \/ classObj[c] # "none"
      /\ classObj' = classObj /\ classes' = [c \in Classes |-> "none"]
      /\ classEvents' = FreshClassEvents
  BY DEF Restart
<1>2. ASSUME NEW c \in Classes PROVE LatestClass(c)' = classObj[c]
  <2>1. CASE classObj[c] = "none"
    BY <1>1, <2>1 DEF LatestClass, FreshClassEvents
  <2>2. CASE classObj[c] # "none"
    <3>1. classEvents'[c] = <<classObj[c]>> /\ <<classObj[c]>> # <<>> /\ Len(<<classObj[c]>>) = 1
      BY <1>1, <2>2 DEF FreshClassEvents
    <3> QED BY <3>1 DEF LatestClass
  <2> QED BY <2>1, <2>2
<1> QED BY <1>1, <1>2 DEF ClassInv

LEMMA ClassStep == Inv /\ ClassInv /\ [Next]_vars => ClassInv'
<1> SUFFICES ASSUME Inv, ClassInv, [Next]_vars PROVE ClassInv'
  OBVIOUS
<1>0. /\ classEvents \in [Classes -> Seq(Kind)] /\ classObj \in [Classes -> Kind]
      /\ classes \in [Classes -> Kind]
  BY DEF Inv, TypeOK, ClusterTypeOK, StateTypeOK
<1>1. CASE UNCHANGED <<classObj, classEvents, classes>>
  BY <1>1 DEF ClassInv, LatestClass
<1>2. CASE Restart
  BY <1>2, ClassRestart
<1>3. ASSUME NEW c \in Classes, NEW k \in Kind,
             classObj' = [classObj EXCEPT ![c] = k], UNCHANGED classes,
             classEvents' = [classEvents EXCEPT ![c] = Append(classEvents[c], k)]
      PROVE  ClassInv'
  <2>1. LatestClass(c)' = classObj'[c]
    BY <1>0, <1>3, LastAppended DEF LatestClass
  <2>2. ASSUME NEW d \in Classes, d # c PROVE LatestClass(d)' = classObj'[d]
    BY <1>0, <1>3, <2>2 DEF LatestClass, ClassInv
  <2> QED BY <2>1, <2>2 DEF ClassInv
<1>4. ASSUME NEW c \in Classes, UNCHANGED classObj, classEvents[c] # <<>>,
             classes' = [classes EXCEPT ![c] = Head(classEvents[c])],
             classEvents' = [classEvents EXCEPT ![c] = Tail(classEvents[c])]
      PROVE  ClassInv'
  <2>1. LatestClass(c)' = classObj'[c]
    <3>1. classes'[c] = Head(classEvents[c]) /\ classEvents'[c] = Tail(classEvents[c])
      BY <1>0, <1>4
    <3>2. classEvents[c][Len(classEvents[c])] = classObj[c]
      BY <1>4 DEF ClassInv, LatestClass
    <3> QED BY <1>0, <1>4, <3>1, <3>2, LastOfTail DEF LatestClass
  <2>2. ASSUME NEW d \in Classes, d # c PROVE LatestClass(d)' = classObj'[d]
    BY <1>0, <1>4, <2>2 DEF LatestClass, ClassInv
  <2> QED BY <2>1, <2>2 DEF ClassInv
<1>5. CASE Environment
  BY <1>1, <1>3, <1>5, EnvironmentClasses
<1>6. CASE Handlers
  BY <1>1, <1>4, <1>6, HandlersClasses
<1> QED BY <1>1, <1>2, <1>5, <1>6, ClassFrame

----------------------------------------------------------------------------
NamedBy(ingress) == ingress.spec.backends \cup ingress.spec.tls

(* A Configuration is stored only once every object the Ingress names has been
   read, and with the revision of the object it is stored with.              *)
ReadInv ==
  /\ wpc = "paths" => \A o \in wobj.spec.backends \ wtodo : wused[o] # 0
  /\ wpc = "tls" => \A o \in NamedBy(wobj) \ wtodo : wused[o] # 0
  /\ \A i \in Ingresses : entryConf[i] # NONE =>
       /\ entryObj[i] # NONE /\ entryConf[i].rev = entryObj[i].rev
       /\ \A o \in NamedBy(entryObj[i]) : entryConf[i].used[o] # 0

LEMMA ReadFrame ==
  ASSUME ReadInv, UNCHANGED <<entryObj, entryConf, wpc, wobj, wtodo, wused>>
  PROVE  ReadInv'
BY DEF ReadInv, NamedBy

LEMMA ReadRestart == Restart => ReadInv'
BY DEF Restart, ReadInv

LEMMA ReadStep == Inv /\ ReadInv /\ [Next]_vars => ReadInv'
<1> SUFFICES ASSUME Inv, ReadInv, [Next]_vars PROVE ReadInv'
  OBVIOUS
<1> USE DEF cluster, informers, k8sState, worker
<1>0. /\ entryObj \in [Ingresses -> IngObject \cup {NONE}]
      /\ entryConf \in [Ingresses -> IngressConfiguration \cup {NONE}]
      /\ wobj \in IngObject \cup {NONE} /\ wused \in [Objects -> Nat]
      /\ \A o \in IngObject : NamedBy(o) \subseteq Objects
  BY ConstantsAssumption
  DEF Inv, TypeOK, StateTypeOK, WorkerTypeOK, IngObject, SpecShape, Objects, NamedBy, Reading
<1>c. /\ wpc # "idle" => wing \in Ingresses
      /\ Locked => wobj # NONE
  BY DEF Inv, TypeOK, WorkerTypeOK, ControlOK
<1>1. CASE Environment
  BY <1>1, ReadFrame DEF Environment
<1>2. CASE Handlers
  BY <1>2, HandlersFrame, ReadFrame
<1>3. CASE \E i \in Ingresses : Reconcile(i)
  BY <1>3 DEF Reconcile, ReadInv
<1>4. CASE ReconcileIngress
  <2>1. CASE removeIngress \/ markIngressIrrelevant
    <3>1. /\ wing \in Ingresses /\ wpc' = "idle"
          /\ \A i \in Ingresses : i # wing => entryObj'[i] = entryObj[i] /\ entryConf'[i] = entryConf[i]
          /\ entryConf'[wing] = NONE
      BY <1>0, <1>c, <2>1 DEF removeIngress, markIngressIrrelevant, WorkerDone
    <3> QED BY <3>1, ZenonT(40) DEF ReadInv
  <2>2. CASE reconcileIngress
    <3>1. wpc' = "paths" /\ wtodo' = wobj.spec.backends /\ UNCHANGED <<entryObj, entryConf, wobj, wused>>
      BY <2>2 DEF reconcileIngress
    <3> QED BY <3>1 DEF ReadInv
  <2>3. CASE \E o \in Objects : readObject(o)
    <3>1. PICK o \in Objects : readObject(o)
      BY <2>3
    <3>2. /\ wtodo' = wtodo \ {o} /\ UNCHANGED <<entryObj, entryConf, wpc, wobj>>
          /\ wused'[o] # 0 /\ \A p \in Objects : p # o => wused'[p] = wused[p]
      BY <1>0, <3>1 DEF readObject
    <3>3. wpc \in {"paths", "tls"} /\ wobj \in IngObject
      BY <1>0, <1>c, <3>1 DEF readObject, Locked, Converting
    <3>4. wobj.spec.backends \subseteq NamedBy(wobj) /\ NamedBy(wobj) \subseteq Objects
      BY <1>0, <3>3 DEF NamedBy
    <3>5. NamedBy(wobj)' = NamedBy(wobj) /\ \A i \in Ingresses : NamedBy(entryObj[i])' = NamedBy(entryObj[i])
      BY <3>2 DEF NamedBy
    <3> QED BY <3>2, <3>3, <3>4, <3>5 DEF ReadInv
  <2>4. CASE \E o \in Objects : reconcileError(o)
    <3>1. wpc' = "idle" /\ UNCHANGED <<entryObj, entryConf>>
      BY <2>4 DEF reconcileError, WorkerDone
    <3> QED BY <3>1 DEF ReadInv, NamedBy
  <2>5. CASE ensureActiveIngressStatus
    <3>1. /\ wpc = "paths" /\ wtodo = {} /\ wpc' = "tls" /\ wtodo' = wobj.spec.tls
          /\ UNCHANGED <<entryObj, entryConf, wused>>
      BY <2>5 DEF ensureActiveIngressStatus
    <3>2. wobj'.spec = wobj.spec
      <4> DEFINE lb == wobj.lb \/ (~conf.src.disableStatus /\ ~wobj.lb /\ lbStatus)
      <4>1. wobj' = [wobj EXCEPT !.lb = lb] /\ wobj \in IngObject
        BY <1>0, <1>c, <2>5 DEF ensureActiveIngressStatus, Locked, Converting
      <4> HIDE DEF lb
      <4> QED BY <4>1 DEF IngObject
    <3> QED BY <3>1, <3>2 DEF ReadInv, NamedBy
  <2>6. CASE updateIngress
    <3> DEFINE new == [rev |-> wobj.rev, used |-> wused, modules |-> conf]
    <3>1. /\ wing \in Ingresses /\ wpc' = "idle" /\ wobj # NONE
          /\ \A i \in Ingresses : i # wing => entryObj'[i] = entryObj[i] /\ entryConf'[i] = entryConf[i]
          /\ entryObj'[wing] = wobj /\ entryConf'[wing] = new
      BY <1>0, <1>c, <2>6 DEF updateIngress, WorkerDone, Locked, Converting
    <3>2. new.rev = wobj.rev /\ new.used = wused
      OBVIOUS
    <3>3. \A o \in NamedBy(wobj) : wused[o] # 0
      BY <2>6 DEF updateIngress, ReadInv
    <3> HIDE DEF new
    <3>4. ASSUME NEW i \in Ingresses, entryConf'[i] # NONE
          PROVE  /\ entryObj'[i] # NONE /\ entryConf'[i].rev = entryObj'[i].rev
                 /\ \A o \in NamedBy(entryObj'[i]) : entryConf'[i].used[o] # 0
      <4>1. CASE i = wing
        BY <3>1, <3>2, <3>3, <4>1
      <4>2. CASE i # wing
        BY <3>1, <3>4, <4>2 DEF ReadInv
      <4> QED BY <4>1, <4>2
    <3> QED BY <3>1, <3>4, Zenon DEF ReadInv
  <2> QED BY <1>4, <2>1, <2>2, <2>3, <2>4, <2>5, <2>6 DEF ReconcileIngress
<1>5. CASE CommonConfig
  BY <1>5, CommonFrame, ReadFrame, ReadRestart
<1>6. CASE ProviderFatal \/ Crash
  BY <1>6, ReadRestart DEF ProviderFatal, Crash
<1>7. CASE RunReconcileCommon \/ RunReconfigure \/ RunTicker \/ getProxyConfig \/ SendConfig
           \/ StoreRoutingConfig \/ UNCHANGED vars
  BY <1>7, RunFrame, ReadFrame
<1> QED BY <1>1, <1>2, <1>3, <1>4, <1>5, <1>6, <1>7 DEF Next

LEMMA SettledInvariant == Spec => [](ClassInv /\ ReadInv)
<1>1. Init => ClassInv /\ ReadInv
  <2> SUFFICES ASSUME Init PROVE ClassInv /\ ReadInv
    OBVIOUS
  <2>1. ASSUME NEW c \in Classes PROVE classEvents[c] = <<classObj[c]>>
    BY DEF Init, ClusterInit, FreshClassEvents
  <2>2. ASSUME NEW c \in Classes PROVE <<classObj[c]>> # <<>> /\ Len(<<classObj[c]>>) = 1
    OBVIOUS
  <2>3. ClassInv
    BY <2>1, <2>2 DEF ClassInv, LatestClass
  <2>4. ReadInv
    BY DEF Init, ReadInv
  <2> QED BY <2>3, <2>4
<1>2. Inv /\ (ClassInv /\ ReadInv) /\ [Next]_vars => (ClassInv /\ ReadInv)'
  BY ClassStep, ReadStep
<1> QED BY <1>1, <1>2, InvCorrect, PTL DEF Spec

(* With nothing pending, the entry of an Ingress is its object. *)
LEMMA EntryCurrent ==
  ASSUME Inv, RevisionInv, IngressTracked, Quiescent, NEW i \in Ingresses
  PROVE  /\ ~Pending(i)
         /\ entryObj[i] = NONE <=> ingObj[i] = NONE
         /\ ingObj[i] # NONE => entryObj[i].rev = ingObj[i].rev /\ entryObj[i].spec = ingObj[i].spec
<1>1. wing = NONE /\ events = {} /\ queue = {} /\ i # NONE
  BY ConstantsAssumption DEF Quiescent, Inv, ControlOK
<1>2. ~Pending(i)
  BY <1>1 DEF Pending
<1>3. SpecRev(entryObj[i]) = SpecRev(ingObj[i])
  BY <1>2 DEF IngressTracked
<1>4. /\ entryObj[i] # NONE => entryObj[i].rev # 0
      /\ ingObj[i] # NONE => ingObj[i].rev # 0
  BY DEF RevisionInv, CopyOf
<1>5. /\ entryObj[i] = NONE <=> ingObj[i] = NONE
      /\ ingObj[i] # NONE => entryObj[i].rev = ingObj[i].rev
  BY <1>3, <1>4 DEF SpecRev
<1>6. ingObj[i] # NONE => entryObj[i].spec = ingObj[i].spec
  BY <1>5 DEF RevisionInv, CopyOf
<1> QED BY <1>2, <1>5, <1>6

(* With nothing pending, k8sState knows every class as it is. *)
LEMMA ClassesCurrent ==
  ASSUME Inv, RevisionInv, ClassInv, IngressTracked, Quiescent, NEW i \in Ingresses
  PROVE  OfOurClass(i) <=> entryObj[i] # NONE /\ isIngressRelevant(entryObj[i])
<1>1. \A c \in Classes : classes[c] = classObj[c]
  BY DEF Quiescent, ClassInv, LatestClass
<1>2. ingObj[i] # NONE => ingObj[i].spec.class \in Classes \cup {NONE}
  BY ConstantsAssumption DEF Inv, TypeOK, ClusterTypeOK, IngObject, SpecShape
<1> QED BY <1>1, <1>2, EntryCurrent DEF OfOurClass, isIngressRelevant

(* With nothing pending, the proxy routes by the configuration sent last. *)
LEMMA ServedLatest == Quiescent => LatestConfig = served
BY DEF Quiescent, LatestConfig

LEMMA RoutesSettledFrom ==
  ASSUME Inv, RevisionInv, ClassInv, ReadInv, NoLostReconfigure, ObjectTracked,
         IngressTracked, RelevanceTracked
  PROVE  RoutesSettled
<1> SUFFICES ASSUME Quiescent, NEW i \in Ingresses, OfOurClass(i) PROVE ServedCurrent(i)
  BY DEF RoutesSettled
<1>1. ~Pending(i) /\ ingObj[i] # NONE /\ entryObj[i] # NONE /\ isIngressRelevant(entryObj[i])
      /\ entryObj[i].rev = ingObj[i].rev /\ entryObj[i].spec = ingObj[i].spec
  BY EntryCurrent, ClassesCurrent DEF OfOurClass
<1>2. entryConf[i] # NONE
  <2>1. requeue = NONE /\ entryObj[i].spec.class # NONE
    BY <1>1 DEF Quiescent, isIngressRelevant
  <2> QED BY <1>1, <2>1, Zenon DEF RelevanceTracked
<1>3. served # NONE /\ served.ings[i] = entryConf[i]
  BY <1>2, ServedLatest, SMTT(30) DEF NoLostReconfigure, Quiescent
<1>4. entryConf[i].rev = ingObj[i].rev /\ \A o \in ObjectsOf(i) : entryConf[i].used[o] # 0
  BY <1>1, <1>2 DEF ReadInv, NamedBy, ObjectsOf
<1>5. ObjectsOf(i) \subseteq Objects
  BY <1>1, ConstantsAssumption
  DEF Inv, TypeOK, ClusterTypeOK, IngObject, SpecShape, Objects, ObjectsOf
<1>6. ASSUME NEW o \in ObjectsOf(i) \ Upstreams
      PROVE  objRev[o] # 0 /\ entryConf[i].used[o] = objRev[o]
  <2>1. o \notin events
    BY DEF Quiescent
  <2> QED BY <1>1, <1>2, <1>4, <1>5, <2>1 DEF ObjectTracked
<1> QED BY <1>2, <1>3, <1>4, <1>6 DEF ServedCurrent

(* Once the watches are drained, the worker is idle and the proxy has taken what
   was sent, every Ingress of our classes is routed by its current contents and
   the current objects it names: what Reconcile, the handlers of reconcile.go,
   RequestReconfigure's channel and configChan promise together.             *)
THEOREM RoutesSettledCorrect == Spec => []RoutesSettled
<1>1. /\ Inv /\ (IngressInv /\ RevisionInv /\ RelevanceInv) /\ (ClassInv /\ ReadInv)
      /\ NoLostReconfigure /\ ObjectTracked
      => RoutesSettled
  BY RoutesSettledFrom DEF IngressInv, RelevanceInv
<1> QED BY <1>1, SettledInvariant, RelevanceInvariant, InvCorrect, NoLostReconfigureCorrect,
           ObjectTrackedCorrect, PTL

----------------------------------------------------------------------------
(* A config.yaml without a default certificate has none in use once Run has
   passed updateDefaultTls, unless a later reconcile has failed before it.   *)
NoTlsInv ==
  /\ conf # NONE /\ conf.src.tls = NONE
  /\ rpc \in {"upstream", "tcp"} \/ (rpc \in {"idle", "snapshot", "send"} /\ ~commonErr)
  => defaultTls = 0

LEMMA NoTlsStep == Inv /\ NoTlsInv /\ [Next]_vars => NoTlsInv'
<1> SUFFICES ASSUME Inv, NoTlsInv, [Next]_vars PROVE NoTlsInv'
  OBVIOUS
<1> USE DEF NoTlsInv
<1>r. Restart => NoTlsInv'
  BY DEF Restart
<1>1. CASE \/ Environment \/ Handlers \/ (\E i \in Ingresses : Reconcile(i)) \/ ReconcileIngress
           \/ StoreRoutingConfig \/ RunTicker \/ UNCHANGED vars
  <2>1. UNCHANGED CommonVars
    BY <1>1, OutsideRun
  <2> QED BY <2>1 DEF CommonVars
<1>2. CASE CommonConfig
  <2>1. CASE CommonFails
    <3>1. CASE rpc' = "idle" /\ commonErr' = TRUE
      BY <3>1
    <3> QED BY <1>r, <2>1, <3>1 DEF CommonFails
  <2>2. CASE ~CommonFails /\ (getControllerConfig \/ \E s \in Secrets : GetSecret(s))
    BY <2>2 DEF getControllerConfig, GetSecret
  <2>3. CASE updateConfig \/ updateUpstreamIpAddress
    BY <2>3 DEF updateConfig, updateUpstreamIpAddress
  <2>4. CASE ~CommonFails /\ (updateDefaultTls \/ updateTcpProxy)
    BY <2>4 DEF updateDefaultTls, updateTcpProxy
  <2> QED BY <1>2, <2>1, <2>2, <2>3, <2>4 DEF CommonConfig
<1>3. CASE ProviderFatal \/ Crash
  BY <1>3, <1>r, SMTT(30) DEF ProviderFatal, Crash
<1>4. CASE RunReconcileCommon \/ RunReconfigure \/ getProxyConfig \/ SendConfig
  BY <1>4, Zenon DEF RunReconcileCommon, RunReconfigure, getProxyConfig, SendConfig, k8sState
<1> QED BY <1>1, <1>2, <1>3, <1>4 DEF Next

LEMMA CommonSettledFrom ==
  ASSUME Inv, NoTlsInv, ConfTracked, CommonPublished, DefaultTlsTracked
  PROVE  CommonSettled
<1> SUFFICES ASSUME Quiescent, ~commonErr
             PROVE  /\ served # NONE /\ served.modules.src = cm
                    /\ served.tls = IF cm.tls = NONE THEN 0 ELSE objRev[cm.tls]
  BY DEF CommonSettled
<1>1. rpc = "idle" /\ ~reconfReq /\ ~commonReq /\ events = {}
  BY DEF Quiescent
<1>2. conf # NONE
  BY <1>1 DEF Inv, ControlOK
<1>3. served # NONE /\ served.modules = conf /\ served.tls = defaultTls
  BY <1>1, <1>2, ServedLatest DEF CommonPublished
<1>4. conf.src = cm
  BY <1>1, <1>2 DEF ConfTracked, CommonDue
<1>5. CASE cm.tls = NONE
  BY <1>1, <1>2, <1>3, <1>4, <1>5 DEF NoTlsInv
<1>6. CASE cm.tls # NONE
  BY <1>1, <1>2, <1>3, <1>4, <1>6 DEF DefaultTlsTracked, CommonDue
<1> QED BY <1>3, <1>4, <1>5, <1>6

(* Once everything is handled and the last common reconcile did not fail, the
   proxy runs the modules and the default certificate that the cluster's
   config.yaml and Secret describe, also when config.yaml has dropped its
   certificate.                                                              *)
THEOREM CommonSettledCorrect == Spec => []CommonSettled
<1>1. Init => NoTlsInv
  BY DEF Init, NoTlsInv
<1>2. Inv /\ NoTlsInv /\ [Next]_vars => NoTlsInv'
  BY NoTlsStep
<1>3. Inv /\ NoTlsInv /\ ConfTracked /\ CommonPublished /\ DefaultTlsTracked => CommonSettled
  BY CommonSettledFrom
<1> QED BY <1>1, <1>2, <1>3, InvCorrect, ConfTrackedCorrect, CommonPublishedCorrect,
           DefaultTlsTrackedCorrect, PTL DEF Spec

----------------------------------------------------------------------------
(* No IngressClass of ours is deleted, the one change after which the code
   leaves routes behind (removeIngress and markIngressIrrelevant judge what was
   relevant by the classes of now).                                          *)
NoClassRemoved == \A c \in Classes : classObj[c] = "ours" => classObj'[c] = "ours"

(* A class that is ours is the last thing heard of it; what is routed is
   relevant; and what has been taken away is taken away in the configuration
   sent last too.                                                            *)
KeptClass(c) ==
  /\ \A k \in 1..(Len(classEvents[c]) - 1) : classEvents[c][k] # "ours"
  /\ classes[c] = "ours" => classEvents[c] = <<>>

RoutedRelevant(i) ==
  entryConf[i] # NONE => entryObj[i] # NONE /\ isIngressRelevant(entryObj[i])

NoLostRemoval(i) ==
  reconfReq \/ rpc = "snapshot" \/ (LatestConfig # NONE => LatestConfig.ings[i] = entryConf[i])

KeptInv ==
  /\ \A c \in Classes : KeptClass(c)
  /\ \A i \in Ingresses : RoutedRelevant(i) /\ NoLostRemoval(i)

LEMMA KeptRestart == ASSUME Inv, Restart PROVE KeptInv'
<1>1. ASSUME NEW c \in Classes PROVE KeptClass(c)'
  <2>1. classes'[c] = "none" /\ classEvents'[c] = (IF classObj[c] = "none" THEN <<>> ELSE <<classObj[c]>>)
    BY DEF Restart, FreshClassEvents
  <2>2. Len(<<>>) = 0 /\ Len(<<classObj[c]>>) = 1
    OBVIOUS
  <2>3. Len(classEvents'[c]) \in {0, 1}
    BY <2>1, <2>2
  <2> QED BY <2>1, <2>3 DEF KeptClass
<1>2. ASSUME NEW i \in Ingresses PROVE RoutedRelevant(i)' /\ NoLostRemoval(i)'
  BY DEF Restart, RoutedRelevant, NoLostRemoval, LatestConfig
<1> QED BY <1>1, <1>2 DEF KeptInv

LEMMA NoElements ==
  ASSUME NEW S, NEW s \in Seq(S), Len(s) = 0
  PROVE  s = <<>>
OBVIOUS

LEMMA TailOfOne ==
  ASSUME NEW S, NEW s \in Seq(S), Len(s) = 1
  PROVE  Tail(s) = <<>>
<1>1. Tail(s) \in Seq(S) /\ Len(Tail(s)) = 0
  OBVIOUS
<1> QED BY <1>1, NoElements, Zenon

LEMMA KeptClassStep ==
  ASSUME Inv, ClassInv, KeptInv, [Next]_vars, [NoClassRemoved]_vars, ~Restart,
         NEW d \in Classes
  PROVE  KeptClass(d)'
<1>0. /\ classEvents \in [Classes -> Seq(Kind)] /\ classObj \in [Classes -> Kind]
      /\ classes \in [Classes -> Kind]
  BY DEF Inv, TypeOK, ClusterTypeOK, StateTypeOK
<1>k. KeptClass(d)
  BY DEF KeptInv
<1>1. CASE classEvents'[d] = classEvents[d] /\ classes'[d] = classes[d]
  BY <1>k, <1>1 DEF KeptClass
<1> DEFINE s == classEvents[d]
<1>s. s \in Seq(Kind) /\ Len(s) \in Nat
  BY <1>0
<1>2. ASSUME NEW k \in Kind, classObj[d] # "ours", UNCHANGED classes,
             classEvents'[d] = Append(s, k)
      PROVE  KeptClass(d)'
  <2>1. classes[d] # "ours"
    BY <1>2, <1>k DEF ClassInv, LatestClass, KeptClass
  <2>2. /\ Len(Append(s, k)) = Len(s) + 1
        /\ \A j \in 1..Len(s) : Append(s, k)[j] = s[j]
    BY <1>s
  <2>3. ASSUME NEW j \in 1..Len(s) PROVE s[j] # "ours"
    <3>1. CASE j = Len(s)
      <4>1. s # <<>>
        BY <3>1
      <4> QED BY <1>2, <3>1, <4>1 DEF ClassInv, LatestClass
    <3>2. CASE j # Len(s)
      <4>1. j \in 1..(Len(s) - 1)
        BY <1>s, <3>2
      <4> QED BY <1>k, <4>1 DEF KeptClass
    <3> QED BY <3>1, <3>2
  <2>4. Len(Append(s, k)) - 1 = Len(s)
    BY <1>s, <2>2
  <2>5. \A j \in 1..(Len(classEvents'[d]) - 1) : classEvents'[d][j] # "ours"
    BY <1>2, <2>2, <2>3, <2>4
  <2>6. classes'[d] # "ours"
    BY <1>2, <2>1
  <2> QED BY <2>5, <2>6 DEF KeptClass
<1>3. ASSUME s # <<>>, classes'[d] = Head(s), classEvents'[d] = Tail(s)
      PROVE  KeptClass(d)'
  <2>0. \A j \in 1..(Len(s) - 1) : s[j] # "ours"
    BY <1>k DEF KeptClass
  <2> HIDE DEF s
  <2>1. Len(s) # 0 /\ Head(s) = s[1] /\ Len(Tail(s)) = Len(s) - 1
        /\ \A j \in 1..(Len(s) - 1) : Tail(s)[j] = s[j + 1]
    BY <1>3, <1>s
  <2>2. ASSUME NEW j \in 1..(Len(classEvents'[d]) - 1) PROVE classEvents'[d][j] # "ours"
    <3>1. Len(classEvents'[d]) = Len(s) - 1
      BY <1>3, <2>1, Zenon
    <3>2. j \in 1..(Len(s) - 1) /\ j + 1 \in 1..(Len(s) - 1)
      BY <1>s, <3>1
    <3> QED BY <1>3, <2>0, <2>1, <3>2
  <2>3. ASSUME classes'[d] = "ours" PROVE classEvents'[d] = <<>>
    <3>1. s[1] = "ours"
      BY <1>3, <2>1, <2>3
    <3>2. 1 \notin 1..(Len(s) - 1)
      BY <2>0, <3>1
    <3>3. Len(s) = 1
      BY <1>s, <2>1, <3>2
    <3>4. Tail(s) = <<>>
      BY <1>s, <3>3, TailOfOne
    <3> QED BY <1>3, <3>4
  <2> QED BY <2>2, <2>3 DEF KeptClass
<1> HIDE DEF s
<1>4. CASE Environment
  <2>1. CASE UNCHANGED <<classObj, classEvents, classes>>
    BY <1>1, <2>1
  <2>2. ASSUME NEW c \in Classes, NEW k \in Kind, classObj[c] = "none" \/ k = "none",
               classObj' = [classObj EXCEPT ![c] = k], UNCHANGED classes,
               classEvents' = [classEvents EXCEPT ![c] = Append(classEvents[c], k)]
        PROVE  KeptClass(d)'
    <3>1. CASE c # d
      BY <1>0, <1>1, <2>2, <3>1
    <3>2. CASE c = d
      <4>1. classObj'[d] = k /\ classEvents'[d] = Append(s, k)
        BY <1>0, <2>2, <3>2 DEF s
      <4>2. classObj[d] # "ours"
        <5>1. CASE NoClassRemoved
          BY <2>2, <3>2, <4>1, <5>1 DEF NoClassRemoved
        <5>2. CASE UNCHANGED vars
          BY <2>2, <3>2, <4>1, <5>2 DEF vars, cluster
        <5> QED BY <5>1, <5>2
      <4> QED BY <1>2, <2>2, <4>1, <4>2
    <3> QED BY <3>1, <3>2
  <2> QED BY <1>4, <2>1, <2>2, EnvironmentClasses
<1>5. CASE Handlers
  <2>1. ASSUME NEW c \in Classes, classEvents[c] # <<>>,
               classes' = [classes EXCEPT ![c] = Head(classEvents[c])],
               classEvents' = [classEvents EXCEPT ![c] = Tail(classEvents[c])]
        PROVE  KeptClass(d)'
    <3>1. CASE c # d
      BY <1>0, <1>1, <2>1, <3>1
    <3>2. CASE c = d
      BY <1>0, <1>3, <2>1, <3>2 DEF s
    <3> QED BY <3>1, <3>2
  <2> QED BY <1>1, <1>5, <2>1, HandlersClasses
<1> QED BY <1>1, <1>4, <1>5, ClassFrame

(* Only the worker changes the entries, and a class that is ours stays so. *)
LEMMA KeptRoutesStep ==
  ASSUME Inv, RelevanceInv, KeptInv, [Next]_vars, ~Restart, NEW j \in Ingresses
  PROVE  RoutedRelevant(j)'
<1> USE DEF cluster, informers, k8sState, worker
<1>0. /\ entryObj \in [Ingresses -> IngObject \cup {NONE}]
      /\ entryConf \in [Ingresses -> IngressConfiguration \cup {NONE}]
      /\ classes \in [Classes -> Kind]
      /\ \A o \in IngObject : o.spec.class \in Classes \cup {NONE}
      /\ wpc # "idle" => wing \in Ingresses
      /\ Locked => wobj # NONE
  BY ConstantsAssumption
  DEF Inv, TypeOK, StateTypeOK, WorkerTypeOK, ControlOK, IngObject, SpecShape
<1>k. RoutedRelevant(j)
  BY DEF KeptInv
<1>f. CASE UNCHANGED <<classes, entryObj, entryConf>>
  BY <1>f, <1>k DEF RoutedRelevant, isIngressRelevant
<1>1. CASE Environment
  BY <1>1, <1>f DEF Environment
<1>2. CASE Handlers
  <2>1. UNCHANGED <<entryObj, entryConf>>
    BY <1>2, HandlersFrame
  <2>2. \A c \in Classes : classes[c] = "ours" => classes'[c] = "ours"
    BY <1>0, <1>2, HandlersClasses DEF KeptInv, KeptClass
  <2>3. entryObj[j] # NONE => entryObj[j].spec.class \in Classes \cup {NONE}
    BY <1>0
  <2> QED BY <1>k, <2>1, <2>2, <2>3 DEF RoutedRelevant, isIngressRelevant
<1>3. CASE (\E i \in Ingresses : Reconcile(i)) \/ ReconcileIngress
  <2>c. UNCHANGED classes
    BY <1>3, WorkerFrame
  <2>1. CASE \E i \in Ingresses : Reconcile(i)
    BY <2>1, <1>f DEF Reconcile
  <2>2. CASE removeIngress \/ markIngressIrrelevant
    <3>1. /\ wing \in Ingresses /\ entryConf'[wing] = NONE
          /\ j # wing => entryObj'[j] = entryObj[j] /\ entryConf'[j] = entryConf[j]
      BY <1>0, <2>2 DEF removeIngress, markIngressIrrelevant
    <3> QED BY <1>k, <2>c, <3>1, SMTT(30) DEF RoutedRelevant, isIngressRelevant
  <2>3. CASE updateIngress
    <3>1. /\ wing \in Ingresses /\ entryObj'[wing] = wobj /\ wobj # NONE /\ isIngressRelevant(wobj)
          /\ j # wing => entryObj'[j] = entryObj[j] /\ entryConf'[j] = entryConf[j]
      BY <1>0, <2>3 DEF updateIngress, RelevanceInv, Locked, Converting
    <3> QED BY <1>k, <2>c, <3>1, SMTT(30) DEF RoutedRelevant, isIngressRelevant
  <2>4. CASE reconcileIngress \/ ensureActiveIngressStatus
    BY <2>4, <1>f, SMTT(30) DEF reconcileIngress, ensureActiveIngressStatus
  <2>5. CASE \E o \in Objects : readObject(o) \/ reconcileError(o)
    BY <2>5, <1>f DEF readObject, reconcileError
  <2> QED BY <1>3, <2>1, <2>2, <2>3, <2>4, <2>5 DEF ReconcileIngress
<1>4. CASE CommonConfig
  BY <1>4, <1>f, CommonFrame
<1>5. CASE ProviderFatal \/ Crash
  BY <1>5 DEF ProviderFatal, Crash
<1>6. CASE RunReconcileCommon \/ RunReconfigure \/ RunTicker \/ getProxyConfig \/ SendConfig
           \/ StoreRoutingConfig \/ UNCHANGED vars
  BY <1>6, <1>f, RunFrame
<1> QED BY <1>1, <1>2, <1>3, <1>4, <1>5, <1>6 DEF Next

(* An entry that loses its Configuration was relevant, so the removal asks for a
   new configuration, as an update does.                                      *)
LEMMA KeptRemovalStep ==
  ASSUME Inv, KeptInv, [Next]_vars, ~Restart, NEW j \in Ingresses
  PROVE  NoLostRemoval(j)'
<1> USE DEF cluster, informers, k8sState, worker, runner, proxyside
<1>0. /\ configChan \in Seq(RoutingConfig) /\ rpc \in RunPc
      /\ rpc = "send" => rout \in RoutingConfig
      /\ entryConf \in [Ingresses -> IngressConfiguration \cup {NONE}]
      /\ wpc # "idle" => wing \in Ingresses
  BY DEF Inv, TypeOK, ChanTypeOK, RunTypeOK, StateTypeOK, WorkerTypeOK, ControlOK
<1>k. NoLostRemoval(j) /\ \A i \in Ingresses : RoutedRelevant(i)
  BY SMTT(30) DEF KeptInv
<1>f. ASSUME UNCHANGED entryConf, LatestConfig' = LatestConfig,
             reconfReq => reconfReq', rpc = "snapshot" => rpc' = "snapshot"
      PROVE  NoLostRemoval(j)'
  BY <1>f, <1>k DEF NoLostRemoval
<1>1. CASE \/ Environment \/ Handlers \/ (\E i \in Ingresses : Reconcile(i)) \/ ReconcileIngress
           \/ RunTicker \/ UNCHANGED vars
  <2>1. UNCHANGED <<rpc, rout>> /\ (reconfReq => reconfReq')
    BY <1>1, OutsideRun DEF CommonVars
  <2>2. UNCHANGED <<configChan, served>>
    <3>1. CASE Environment
      BY <3>1 DEF Environment
    <3>2. CASE Handlers
      BY <3>2, HandlersFrame
    <3>3. CASE (\E i \in Ingresses : Reconcile(i)) \/ ReconcileIngress
      BY <3>3, WorkerFrame
    <3>4. CASE RunTicker \/ UNCHANGED vars
      BY <3>4 DEF RunTicker, vars
    <3> QED BY <1>1, <3>1, <3>2, <3>3, <3>4
  <2>3. LatestConfig' = LatestConfig
    BY <2>1, <2>2, LatestUnchanged, SMTT(30)
  <2>4. reconfReq' \/ entryConf'[j] = entryConf[j]
    <3>1. CASE Environment
      BY <3>1 DEF Environment
    <3>2. CASE Handlers
      BY <3>2, HandlersFrame, SMTT(30)
    <3>3. CASE \E i \in Ingresses : Reconcile(i)
      BY <3>3 DEF Reconcile
    <3>4. CASE removeIngress \/ markIngressIrrelevant
      <4>1. /\ wing \in Ingresses /\ entryConf' = [entryConf EXCEPT ![wing] = NONE]
            /\ wasRelevant(wing) => reconfReq'
        BY <1>0, <3>4, Zenon DEF removeIngress, markIngressIrrelevant, RequestReconfigureWhenRelevant
      <4>2. entryConf[wing] # NONE => reconfReq'
        BY <1>k, <4>1 DEF RoutedRelevant, wasRelevant
      <4> QED BY <1>0, <4>1, <4>2
    <3>5. CASE updateIngress
      BY <3>5 DEF updateIngress, RequestReconfigure
    <3>6. CASE reconcileIngress \/ ensureActiveIngressStatus
      BY <3>6 DEF reconcileIngress, ensureActiveIngressStatus
    <3>7. CASE \E o \in Objects : readObject(o) \/ reconcileError(o)
      BY <3>7 DEF readObject, reconcileError
    <3>8. CASE RunTicker \/ UNCHANGED vars
      BY <3>8 DEF RunTicker, vars
    <3> QED BY <1>1, <3>1, <3>2, <3>3, <3>4, <3>5, <3>6, <3>7, <3>8, Zenon DEF ReconcileIngress
  <2> QED BY <1>k, <2>1, <2>3, <2>4 DEF NoLostRemoval
<1>2. CASE CommonConfig
  <2>1. CASE updateTcpProxy /\ reconfReq'
    BY <2>1 DEF NoLostRemoval
  <2>2. CASE ~(updateTcpProxy /\ reconfReq')
    <3>1. /\ UNCHANGED <<entryConf, configChan, served, reconfReq, rout>>
          /\ rpc \notin {"snapshot", "send"} /\ rpc' # "send"
      <4>1. CASE CommonFails
        <5>1. UNCHANGED <<entryConf, configChan, served, reconfReq, rout>> /\ rpc' = "idle"
          BY <4>1 DEF CommonFails
        <5>2. rpc \notin {"snapshot", "send"}
          BY <1>2 DEF CommonConfig, getControllerConfig, GetSecret, updateConfig,
                      updateDefaultTls, updateUpstreamIpAddress, updateTcpProxy
        <5> QED BY <5>1, <5>2
      <4>2. CASE ~CommonFails /\ (getControllerConfig \/ \E s \in Secrets : GetSecret(s))
        BY <4>2 DEF getControllerConfig, GetSecret
      <4>3. CASE updateConfig \/ updateUpstreamIpAddress
        BY <4>3, SMTT(30) DEF updateConfig, updateUpstreamIpAddress
      <4>4. CASE ~CommonFails /\ (updateDefaultTls \/ updateTcpProxy)
        BY <2>2, <4>4 DEF updateDefaultTls, updateTcpProxy, RequestReconfigure
      <4> QED BY <1>2, <4>1, <4>2, <4>3, <4>4 DEF CommonConfig
    <3>2. LatestConfig' = LatestConfig
      BY <3>1, LatestUnchanged
    <3> QED BY <1>f, <3>1, <3>2
  <2> QED BY <2>1, <2>2
<1>3. CASE ProviderFatal \/ Crash
  BY <1>3 DEF ProviderFatal, Crash
<1>4. CASE RunReconcileCommon
  <2>1. UNCHANGED <<entryConf, configChan, served, reconfReq>> /\ rpc = "idle" /\ rpc' = "cm"
    BY <1>4 DEF RunReconcileCommon
  <2>2. LatestConfig' = LatestConfig
    BY <2>1, LatestUnchanged, SMTT(30)
  <2> QED BY <1>f, <2>1, <2>2
<1>5. CASE RunReconfigure
  BY <1>5 DEF RunReconfigure, NoLostRemoval
<1>6. CASE getProxyConfig
  BY <1>6 DEF getProxyConfig, LatestConfig, NoLostRemoval
<1>7. CASE SendConfig
  <2>1. rout \in RoutingConfig /\ UNCHANGED <<entryConf, reconfReq>> /\ rpc = "send"
    BY <1>0, <1>7 DEF SendConfig
  <2> QED BY <1>0, <1>7, <1>f, <2>1, LatestSent
<1>8. CASE StoreRoutingConfig
  <2>1. UNCHANGED <<entryConf, reconfReq, rpc>>
    BY <1>8 DEF StoreRoutingConfig
  <2> QED BY <1>0, <1>8, <1>f, <2>1, LatestStored
<1> QED BY <1>1, <1>2, <1>3, <1>4, <1>5, <1>6, <1>7, <1>8 DEF Next

LEMMA KeptStep ==
  Inv /\ RelevanceInv /\ ClassInv /\ KeptInv /\ [Next]_vars /\ [NoClassRemoved]_vars => KeptInv'
<1> SUFFICES ASSUME Inv, RelevanceInv, ClassInv, KeptInv, [Next]_vars, [NoClassRemoved]_vars
             PROVE  KeptInv'
  OBVIOUS
<1>1. CASE Restart
  BY <1>1, KeptRestart
<1>2. CASE ~Restart
  <2>1. \A c \in Classes : KeptClass(c)'
    BY <1>2, KeptClassStep
  <2>2. \A i \in Ingresses : RoutedRelevant(i)'
    BY <1>2, KeptRoutesStep
  <2>3. \A i \in Ingresses : NoLostRemoval(i)'
    BY <1>2, KeptRemovalStep
  <2> QED BY <2>1, <2>2, <2>3 DEF KeptInv
<1> QED BY <1>1, <1>2

LEMMA NoStaleFrom ==
  ASSUME Inv, IngressTracked, RevisionInv, ClassInv, KeptInv
  PROVE  NoStaleRoutes
<1> SUFFICES ASSUME Quiescent, served # NONE, NEW i \in Ingresses, served.ings[i] # NONE
             PROVE  OfOurClass(i)
  BY DEF NoStaleRoutes
<1>1. entryConf[i] # NONE
  BY ServedLatest DEF KeptInv, NoLostRemoval, Quiescent
<1>2. entryObj[i] # NONE /\ isIngressRelevant(entryObj[i])
  BY <1>1 DEF KeptInv, RoutedRelevant
<1> QED BY <1>2, ClassesCurrent

(* As long as no IngressClass of ours is deleted, no route outlives its Ingress
   or the class it was given: deletions and changes of class by the Ingress, and
   restarts, are all handled.  Without the assumption NoStaleRoutes fails
   (state.go:66), so deleting a class is the only way to a stale route.      *)
THEOREM StaleOnlyByClassRemoval == Spec /\ [][NoClassRemoved]_vars => []NoStaleRoutes
<1>1. Init => KeptInv
  <2> SUFFICES ASSUME Init PROVE KeptInv
    OBVIOUS
  <2>1. ASSUME NEW c \in Classes PROVE KeptClass(c)
    <3>1. classEvents[c] = <<classObj[c]>> /\ Len(<<classObj[c]>>) = 1 /\ classes[c] = "none"
      BY DEF Init, ClusterInit, FreshClassEvents
    <3>2. Len(classEvents[c]) = 1
      BY <3>1, Zenon
    <3> QED BY <3>1, <3>2 DEF KeptClass
  <2>2. ASSUME NEW i \in Ingresses PROVE RoutedRelevant(i) /\ NoLostRemoval(i)
    BY DEF Init, RoutedRelevant, NoLostRemoval, LatestConfig
  <2> QED BY <2>1, <2>2 DEF KeptInv
<1>2. Inv /\ (IngressInv /\ RevisionInv /\ RelevanceInv) /\ (ClassInv /\ ReadInv) /\ KeptInv
      /\ [Next]_vars /\ [NoClassRemoved]_vars => KeptInv'
  BY KeptStep
<1>3. Inv /\ (IngressInv /\ RevisionInv /\ RelevanceInv) /\ (ClassInv /\ ReadInv) /\ KeptInv
      => NoStaleRoutes
  BY NoStaleFrom, SMTT(30) DEF IngressInv
<1> QED BY <1>1, <1>2, <1>3, InvCorrect, RelevanceInvariant, SettledInvariant, PTL DEF Spec

----------------------------------------------------------------------------
(* A notification of a Secret that the build of the modules has read is handled
   only when the modules in use have read that Secret too.  Otherwise the handler
   finds nobody who uses it, since UsedSecrets of the new ones is not visible yet
   (config.go:48).  A Secret that is rotated under a config.yaml which named it
   before is always of the first kind.                                       *)
HandledWhenUsed ==
  rpc = "modules" /\ rpc' = "modules" =>
    \A s \in rconf.src.clients \ rtodo : s \in events => s \in events' \/ UsedByCommon(s)

(* What the build has read is current, or the Secret will be read again, while it
   goes on and after updateConfig; and everything that was read is remembered. *)
BuiltInv ==
  rpc = "modules" => \A s \in rconf.src.clients \ rtodo :
    /\ rconf.used[s] # 0
    /\ rconf.used[s] # objRev[s] => s \in events \/ commonReq

(* ModuleTracked without the excuse of a notification of the ConfigMap. *)
ClientsTracked ==
  conf # NONE => \A s \in conf.src.clients :
    conf.used[s] # objRev[s] => s \in events \/ CommonDue({"cm", "modules"})

ClientsInv ==
  /\ conf # NONE => \A s \in conf.src.clients :
       /\ conf.used[s] # 0
       /\ rpc \in {"tls", "upstream", "tcp"} /\ conf.used[s] # objRev[s] => s \in events \/ commonReq
  /\ ClientsTracked

LEMMA ClientsRestart == Restart => (BuiltInv /\ ClientsInv)'
BY DEF Restart, BuiltInv, ClientsInv, ClientsTracked

LEMMA ClientsFails ==
  ASSUME BuiltInv, ClientsInv, CommonFails
  PROVE  BuiltInv' /\ ClientsInv'
<1>1. CASE boot /\ UNCHANGED rev /\ Restart
  BY <1>1, ClientsRestart, SMTT(30)
<1>2. CASE rpc' = "idle" /\ commonErr' = TRUE /\ UNCHANGED conf
  BY <1>2 DEF BuiltInv, ClientsInv, ClientsTracked, CommonDue
<1> QED BY <1>1, <1>2, Zenon DEF CommonFails, k8sState

(* The steps of others: a Secret that changes gets a notification, and one that
   is handled makes a request.                                                *)
LEMMA ClientsFrame ==
  ASSUME BuiltInv, ClientsInv, UNCHANGED CommonVars, commonReq => commonReq',
         rpc = "modules" => rconf.src.clients \subseteq Secrets,
         conf # NONE => conf.src.clients \subseteq Secrets,
         \A s \in Secrets : objRev'[s] = objRev[s] \/ s \in events',
         \A s \in Secrets : s \in events /\ UsedByCommon(s) => s \in events' \/ commonReq',
         rpc = "modules" => \A s \in rconf.src.clients \ rtodo :
                              s \in events => s \in events' \/ commonReq'
  PROVE  BuiltInv' /\ ClientsInv'
<1>0. UNCHANGED <<conf, rpc, rconf, rtodo, commonErr>>
  BY DEF CommonVars
<1>1. BuiltInv'
  <2>1. ASSUME NEW c, rpc = "modules", c \in rconf.src.clients \ rtodo
        PROVE  rconf.used[c] # 0 /\ (rconf.used[c] # objRev'[c] => c \in events' \/ commonReq')
    <3>1. rconf.used[c] # 0 /\ (rconf.used[c] # objRev[c] => c \in events \/ commonReq)
      BY <2>1, Zenon DEF BuiltInv
    <3>2. (c \in events => c \in events' \/ commonReq') /\ (objRev'[c] = objRev[c] \/ c \in events')
      BY <2>1, Zenon
    <3> QED BY ONLY <3>1, <3>2, commonReq => commonReq'
  <2> QED BY <1>0, <2>1 DEF BuiltInv
<1>2. ASSUME NEW c, conf # NONE, c \in conf.src.clients
      PROVE  /\ conf.used[c] # 0
             /\ c \in events => c \in events' \/ commonReq'
             /\ objRev'[c] = objRev[c] \/ c \in events'
  <2>1. c \in Secrets
    BY <1>2, Zenon
  <2>2. conf.used[c] # 0
    BY <1>2, Zenon DEF ClientsInv
  <2>3. UsedByCommon(c)
    BY <1>2, <2>2, Zenon DEF UsedByCommon
  <2> QED BY <2>1, <2>2, <2>3, Zenon
<1>3. ASSUME NEW c, conf # NONE, c \in conf.src.clients, conf.used[c] # objRev'[c]
      PROVE  /\ rpc \in {"tls", "upstream", "tcp"} => c \in events' \/ commonReq'
             /\ c \in events' \/ commonReq' \/ rpc \in {"cm", "modules"} \/ commonErr
  <2>1. CASE conf.used[c] # objRev[c]
    <3>1. /\ rpc \in {"tls", "upstream", "tcp"} => c \in events \/ commonReq
          /\ c \in events \/ commonReq \/ rpc \in {"cm", "modules"} \/ commonErr
      BY <1>3, <2>1, Zenon DEF ClientsInv, ClientsTracked, CommonDue
    <3>2. c \in events => c \in events' \/ commonReq'
      BY <1>2, <1>3
    <3> QED BY ONLY <3>1, <3>2, commonReq => commonReq'
  <2>2. CASE conf.used[c] = objRev[c]
    <3>1. c \in events'
      BY <1>2, <1>3, <2>2
    <3> QED BY ONLY <3>1
  <2> QED BY <2>1, <2>2
<1>4. ClientsInv'
  BY <1>0, <1>2, <1>3, Zenon DEF ClientsInv, ClientsTracked, CommonDue
<1> QED BY <1>1, <1>4

(* The steps of Run that leave the modules in use alone. *)
LEMMA ClientsMoved ==
  ASSUME ClientsInv, UNCHANGED <<conf, objRev, events>>,
         \/ rpc' \in {"cm", "modules"}
         \/ rpc' \in {"snapshot", "send", "idle"} /\ UNCHANGED <<commonErr, commonReq>>
            /\ rpc \in {"idle", "snapshot", "send"}
         \/ rpc' \in {"upstream", "tcp", "idle"} /\ UNCHANGED commonReq
            /\ rpc \in {"tls", "upstream", "tcp"}
  PROVE  ClientsInv'
<1> DEFINE late(c) == conf.used[c] # objRev[c]
           known(c) == c \in events \/ commonReq
<1>1. ASSUME NEW c, conf # NONE, c \in conf.src.clients
      PROVE  /\ conf.used[c] # 0
             /\ late(c) /\ rpc \in {"tls", "upstream", "tcp"} => known(c)
             /\ late(c) => known(c) \/ rpc \in {"cm", "modules"} \/ commonErr
  BY <1>1, Zenon DEF ClientsInv, ClientsTracked, CommonDue
<1>2. ASSUME NEW c, conf # NONE, c \in conf.src.clients, late(c)
      PROVE  /\ rpc' \in {"tls", "upstream", "tcp"} => known(c)'
             /\ known(c)' \/ rpc' \in {"cm", "modules"} \/ commonErr'
  <2>1. CASE rpc' \in {"cm", "modules"}
    BY <2>1, SMTT(30)
  <2>2. CASE /\ rpc' \in {"snapshot", "send", "idle"} /\ UNCHANGED <<commonErr, commonReq>>
             /\ rpc \in {"idle", "snapshot", "send"}
    <3> HIDE DEF late
    <3> QED BY <1>1, <1>2, <2>2
  <2>3. CASE /\ rpc' \in {"upstream", "tcp", "idle"} /\ UNCHANGED commonReq
             /\ rpc \in {"tls", "upstream", "tcp"}
    <3> HIDE DEF late
    <3> QED BY <1>1, <1>2, <2>3
  <2> QED BY <2>1, <2>2, <2>3
<1>3. \A c : conf' # NONE /\ late(c)' => late(c)
  OBVIOUS
<1>4. ASSUME NEW c, conf' # NONE, c \in conf'.src.clients
      PROVE  /\ conf'.used[c] # 0
             /\ late(c)' /\ rpc' \in {"tls", "upstream", "tcp"} => known(c)'
             /\ late(c)' => known(c)' \/ rpc' \in {"cm", "modules"} \/ commonErr'
  BY <1>1, <1>2, <1>3, <1>4
<1> QED BY <1>4, Zenon DEF ClientsInv, ClientsTracked, CommonDue

LEMMA ClientsOutsideRun ==
  ASSUME Inv, BuiltInv, ClientsInv, HandledWhenUsed \/ UNCHANGED vars,
         \/ Environment \/ Handlers \/ (\E i \in Ingresses : Reconcile(i)) \/ ReconcileIngress
         \/ StoreRoutingConfig \/ RunTicker \/ UNCHANGED vars
  PROVE  BuiltInv' /\ ClientsInv'
<1>0. /\ conf # NONE => conf.src.clients \subseteq Secrets
      /\ rpc = "modules" => rconf.src.clients \subseteq Secrets
      /\ Secrets \subseteq Objects
  <2>1. conf \in ControllerConf \cup {NONE} /\ (rpc = "modules" => rconf \in ControllerConf)
    BY DEF Inv, TypeOK, StateTypeOK, RunTypeOK, ControlOK
  <2>2. \A c \in ControllerConf : c.src.clients \subseteq Secrets
    BY ConstantsAssumption DEF ControllerConf, ConfShape
  <2> QED BY <2>1, <2>2 DEF Objects
<1>1. UNCHANGED CommonVars /\ (commonReq => commonReq')
  BY OutsideRun, SMTT(30)
<1>2. /\ \A s \in Secrets : objRev'[s] = objRev[s] \/ s \in events'
      /\ \A s \in Secrets : s \in events /\ UsedByCommon(s) => s \in events' \/ commonReq'
  <2>1. CASE Environment
    BY <1>0, <2>1, EnvironmentFrame
  <2>2. CASE Handlers
    BY <2>2, HandlersFrame DEF cluster
  <2>3. CASE StoreRoutingConfig \/ RunTicker \/ UNCHANGED vars
    BY <2>3, RunFrame DEF cluster, informers
  <2>4. CASE (\E i \in Ingresses : Reconcile(i)) \/ ReconcileIngress
    BY <2>4, WorkerFrame DEF cluster, informers
  <2> QED BY <2>1, <2>2, <2>3, <2>4
<1>3. HandledWhenUsed \/ events' = events
  BY DEF vars, informers
<1>4. rpc = "modules" => \A s \in rconf.src.clients \ rtodo :
                           s \in events => s \in events' \/ commonReq'
  BY <1>0, <1>1, <1>2, <1>3 DEF HandledWhenUsed, CommonVars
<1> QED BY <1>0, <1>1, <1>2, <1>4, ClientsFrame, Zenon

(* A Secret is read. *)
LEMMA ClientsRead ==
  ASSUME Inv, BuiltInv, ClientsInv, ~CommonFails, NEW s \in Secrets, GetSecret(s)
  PROVE  BuiltInv' /\ ClientsInv'
<1>1. /\ rpc = "modules" /\ s \in rtodo /\ objRev[s] # 0 /\ rpc' = "modules"
      /\ rconf' = [rconf EXCEPT !.used[s] = objRev[s]] /\ rtodo' = rtodo \ {s}
      /\ UNCHANGED <<conf, objRev, events, commonReq>>
  BY DEF GetSecret, cluster, informers, k8sState
<1>2. rconf \in ControllerConf /\ s \in Objects
  BY <1>1 DEF Inv, TypeOK, RunTypeOK, ControlOK, Objects
<1>3. rconf'.src = rconf.src /\ rconf'.used = [rconf.used EXCEPT ![s] = objRev[s]]
      /\ rconf.used \in [Objects -> Nat]
  BY <1>1, <1>2 DEF ControllerConf, Reading
<1>4. rconf.src.clients \subseteq Objects
  BY <1>2, ConstantsAssumption DEF ControllerConf, ConfShape, Objects
<1>5. ASSUME NEW c \in rconf'.src.clients \ rtodo'
      PROVE  rconf'.used[c] # 0 /\ (rconf'.used[c] # objRev'[c] => c \in events' \/ commonReq')
  <2>1. CASE c = s
    BY <1>1, <1>2, <1>3, <2>1
  <2>2. CASE c # s
    <3>1. c \in rconf.src.clients \ rtodo /\ rconf'.used[c] = rconf.used[c]
      BY <1>1, <1>3, <1>4, <1>5, <2>2
    <3> QED BY <1>1, <3>1 DEF BuiltInv
  <2> QED BY <2>1, <2>2
<1>6. BuiltInv'
  BY <1>5, Zenon DEF BuiltInv
<1>7. ClientsInv'
  BY <1>1, ClientsMoved
<1> QED BY <1>6, <1>7

(* The modules that were built are put to use. *)
LEMMA ClientsUpdated ==
  ASSUME BuiltInv, updateConfig
  PROVE  BuiltInv' /\ ClientsInv'
<1>1. /\ rpc = "modules" /\ rtodo = {} /\ conf' = rconf /\ rpc' = "tls"
      /\ UNCHANGED <<objRev, events, commonReq>>
  BY DEF updateConfig, cluster, informers
<1>2. \A c \in conf'.src.clients :
        conf'.used[c] # 0 /\ (conf'.used[c] # objRev'[c] => c \in events' \/ commonReq')
  BY <1>1 DEF BuiltInv
<1>3. BuiltInv'
  BY <1>1 DEF BuiltInv
<1>4. ClientsInv'
  BY <1>2, Zenon DEF ClientsInv, ClientsTracked, CommonDue
<1> QED BY <1>3, <1>4

(* Where the other steps of Run go. *)
LEMMA UpdatesMove ==
  ASSUME ~CommonFails, updateDefaultTls \/ updateUpstreamIpAddress \/ updateTcpProxy
  PROVE  /\ rpc \in {"tls", "upstream", "tcp"} /\ rpc' \in {"upstream", "tcp", "idle"}
         /\ UNCHANGED <<conf, objRev, events, commonReq>>
<1> USE DEF cluster, informers
<1>1. CASE updateDefaultTls
  BY <1>1 DEF updateDefaultTls
<1>2. CASE updateUpstreamIpAddress
  BY <1>2 DEF updateUpstreamIpAddress
<1>3. CASE updateTcpProxy
  BY <1>3 DEF updateTcpProxy
<1> QED BY <1>1, <1>2, <1>3

LEMMA RunMoves ==
  ASSUME RunReconcileCommon \/ RunReconfigure \/ getProxyConfig \/ SendConfig
  PROVE  /\ UNCHANGED <<conf, objRev, events>>
         /\ \/ rpc' = "cm"
            \/ /\ rpc' \in {"snapshot", "send", "idle"} /\ UNCHANGED <<commonErr, commonReq>>
               /\ rpc \in {"idle", "snapshot", "send"}
<1> USE DEF cluster, informers, k8sState
<1>1. CASE RunReconcileCommon
  BY <1>1 DEF RunReconcileCommon
<1>2. CASE RunReconfigure
  BY <1>2 DEF RunReconfigure
<1>3. CASE getProxyConfig
  BY <1>3 DEF getProxyConfig
<1>4. CASE SendConfig
  BY <1>4 DEF SendConfig
<1> QED BY <1>1, <1>2, <1>3, <1>4

LEMMA ClientsStep ==
  ASSUME Inv, BuiltInv, ClientsInv, [Next]_vars, [HandledWhenUsed]_vars
  PROVE  BuiltInv' /\ ClientsInv'
<1>1. CASE \/ Environment \/ Handlers \/ (\E i \in Ingresses : Reconcile(i)) \/ ReconcileIngress
           \/ StoreRoutingConfig \/ RunTicker \/ UNCHANGED vars
  BY <1>1, ClientsOutsideRun, Zenon
<1>2. CASE CommonConfig
  <2>1. CASE CommonFails
    BY <2>1, ClientsFails
  <2>2. CASE ~CommonFails /\ getControllerConfig
    <3>1. /\ rpc' = "modules" /\ rconf'.src.clients = rtodo'
          /\ UNCHANGED <<conf, objRev, events>>
      BY <2>2 DEF getControllerConfig, cluster, informers, k8sState
    <3>2. BuiltInv'
      BY <3>1, Zenon DEF BuiltInv
    <3> QED BY <3>1, <3>2, ClientsMoved
  <2>3. CASE ~CommonFails /\ \E s \in Secrets : GetSecret(s)
    BY <2>3, ClientsRead, Zenon
  <2>4. CASE updateConfig
    BY <2>4, ClientsUpdated
  <2>5. CASE ~CommonFails /\ (updateDefaultTls \/ updateUpstreamIpAddress \/ updateTcpProxy)
    <3>1. /\ rpc \in {"tls", "upstream", "tcp"} /\ rpc' \in {"upstream", "tcp", "idle"}
          /\ UNCHANGED <<conf, objRev, events, commonReq>>
      BY <2>5, UpdatesMove, Zenon
    <3>2. BuiltInv'
      BY <3>1 DEF BuiltInv
    <3> QED BY <3>1, <3>2, ClientsMoved, SMTT(30)
  <2> QED BY <1>2, <2>1, <2>2, <2>3, <2>4, <2>5 DEF CommonConfig
<1>3. CASE ProviderFatal \/ Crash
  BY <1>3, ClientsRestart DEF ProviderFatal, Crash
<1>4. CASE RunReconcileCommon \/ RunReconfigure \/ getProxyConfig \/ SendConfig
  <2>1. /\ UNCHANGED <<conf, objRev, events>>
        /\ \/ rpc' = "cm"
           \/ /\ rpc' \in {"snapshot", "send", "idle"} /\ UNCHANGED <<commonErr, commonReq>>
              /\ rpc \in {"idle", "snapshot", "send"}
    BY <1>4, RunMoves, Zenon
  <2>2. BuiltInv'
    BY <2>1 DEF BuiltInv
  <2> QED BY <2>1, <2>2, ClientsMoved, SMTT(30)
<1> QED BY <1>1, <1>2, <1>3, <1>4 DEF Next

(* "if some object is used during config, the Module will be reconfigured" holds
   of every Secret of a module, as long as no notification of it is handled by
   getIngressReconcilesForSecrets while the first build that reads it is between
   GetSecret and updateConfig: that is the only way in which a change is missed. *)
THEOREM MissedOnlyByFirstBuild == Spec /\ [][HandledWhenUsed]_vars => []ModuleTracked
<1> DEFINE CInv == BuiltInv /\ ClientsInv
<1>1. Init => CInv
  BY Zenon DEF Init, BuiltInv, ClientsInv, ClientsTracked
<1>2. Inv /\ CInv /\ [Next]_vars /\ [HandledWhenUsed]_vars => CInv'
  BY ClientsStep
<1>3. CInv => ModuleTracked
  BY Zenon DEF ClientsInv, ClientsTracked, ModuleTracked
<1> QED BY <1>1, <1>2, <1>3, InvCorrect, PTL DEF Spec
====
