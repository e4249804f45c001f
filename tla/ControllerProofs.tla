---- MODULE ControllerProofs ----
(***************************************************************************)
(* Theorems about Controller for every cluster, every contents of the      *)
(* Ingresses and of config.yaml and every capacity of configChan: which    *)
(* locals are set where, the path of a configuration to the proxy, and     *)
(* that no Ingress and no object it was built from is left behind.         *)
(***************************************************************************)
EXTENDS Controller, TLAPS

(* Where each goroutine is decides which of its local variables are set, and
   whether state.config is.                                                  *)
ControlOK ==
  /\ wpc = "idle" <=> wing = NONE
  /\ Locked => wobj # NONE
  /\ rpc = "modules" => rconf # NONE
  /\ rpc = "send" => rout # NONE
  /\ conf = NONE => wpc = "idle" /\ boot /\ rpc \in {"cm", "modules"}
  /\ boot => rpc \in {"cm", "modules", "tls", "upstream", "tcp"}

Inv == TypeOK /\ ControlOK

LEMMA NotReadType == NotRead \in Reading
BY DEF NotRead, Reading

LEMMA FreshType ==
  ASSUME classObj \in [Classes -> Kind]
  PROVE  /\ FreshEvents \subseteq Ingresses \cup Objects \cup {ConfigMap}
         /\ FreshClassEvents \in [Classes -> Seq(Kind)]
<1>1. FreshEvents \subseteq Ingresses \cup Objects \cup {ConfigMap}
  BY DEF FreshEvents
<1>2. ASSUME NEW k \in Kind PROVE <<k>> \in Seq(Kind)
  BY <1>2
<1>3. ASSUME NEW c \in Classes
      PROVE  (IF classObj[c] = "none" THEN <<>> ELSE <<classObj[c]>>) \in Seq(Kind)
  BY <1>2
<1> QED BY <1>1, <1>3 DEF FreshClassEvents

LEMMA InitInv == Init => Inv
<1> SUFFICES ASSUME Init PROVE Inv
  OBVIOUS
<1>0. classObj \in [Classes -> Kind]
  BY DEF Init, ClusterInit, Kind
<1>1. ClusterTypeOK
  BY <1>0, ConstantsAssumption, FreshType DEF Init, ClusterInit, ClusterTypeOK
<1>2. lbStatus \in BOOLEAN /\ boot \in BOOLEAN /\ commonErr \in BOOLEAN
      /\ reconfReq \in BOOLEAN /\ commonReq \in BOOLEAN
  BY Zenon DEF Init
<1>a. TypeOK
  BY <1>1, <1>2, NotReadType, ChanCapAssumption
  DEF Init, TypeOK, StateTypeOK, WorkerTypeOK, RunTypeOK, ChanTypeOK, Kind, WorkerPc, RunPc
<1>3. ControlOK
  BY DEF Init, ControlOK, Locked, Converting
<1> QED BY <1>a, <1>3 DEF Inv

LEMMA ClusterTypeStep ==
  ASSUME ClusterTypeOK, ClusterNext
  PROVE  ClusterTypeOK'
<1> USE DEF ClusterTypeOK, Change, Kind
<1>1. ASSUME NEW i \in Ingresses, NEW s \in IngressSpecs, ApplyIngress(i, s) PROVE ClusterTypeOK'
  <2> DEFINE lb == IF ingObj[i] = NONE THEN FALSE ELSE ingObj[i].lb
             new == [spec |-> s, rev |-> rev + 1, lb |-> lb]
  <2>1. lb \in BOOLEAN
    BY DEF IngObject
  <2> HIDE DEF lb
  <2>2. new \in IngObject
    BY <2>1 DEF IngObject
  <2>3. ingObj' = [ingObj EXCEPT ![i] = new]
    BY <1>1 DEF ApplyIngress, lb
  <2> HIDE DEF new
  <2>4. ingObj' \in [Ingresses -> IngObject \cup {NONE}]
    BY <2>2, <2>3 DEF ClusterTypeOK
  <2>5. rev' = rev + 1 /\ events' = events \cup {i} /\ UNCHANGED <<classObj, objRev, cm, classEvents>>
    BY <1>1 DEF ApplyIngress
  <2> QED BY <2>4, <2>5
<1>2. ASSUME NEW i \in Ingresses, DeleteIngress(i) PROVE ClusterTypeOK'
  BY <1>2 DEF DeleteIngress
<1>3. ASSUME NEW c \in Classes, NEW k \in {"ours", "other"}, CreateClass(c, k) PROVE ClusterTypeOK'
  BY <1>3 DEF CreateClass
<1>4. ASSUME NEW c \in Classes, DeleteClass(c) PROVE ClusterTypeOK'
  BY <1>4 DEF DeleteClass
<1>5. ASSUME NEW o \in Objects, ApplyObject(o) PROVE ClusterTypeOK'
  BY <1>5 DEF ApplyObject
<1>6. ASSUME NEW o \in Objects, DeleteObject(o) PROVE ClusterTypeOK'
  BY <1>6 DEF DeleteObject
<1>7. ASSUME NEW m \in Confs \cup {NONE}, ApplyConfigMap(m) PROVE ClusterTypeOK'
  BY <1>7 DEF ApplyConfigMap
<1> QED BY <1>1, <1>2, <1>3, <1>4, <1>5, <1>6, <1>7 DEF ClusterNext

LEMMA IngObjectParts ==
  ASSUME NEW o \in IngObject
  PROVE  /\ o.rev \in Nat /\ o.lb \in BOOLEAN
         /\ o.spec.class \in Classes \cup {NONE}
         /\ o.spec.backends \subseteq Objects /\ o.spec.tls \subseteq Objects
BY ConstantsAssumption DEF IngObject, SpecShape, Objects

LEMMA ConfParts ==
  ASSUME NEW m \in Confs
  PROVE  /\ m.clients \subseteq Secrets /\ m.tls \in Secrets \cup {NONE}
         /\ m.upstream \in Services \cup {NONE} /\ m.tcp \subseteq Services
BY ConstantsAssumption DEF ConfShape

(* What a step leaves alone keeps its type. *)
LEMMA Frame ==
  /\ ClusterTypeOK /\ UNCHANGED <<cluster, informers>> => ClusterTypeOK'
  /\ StateTypeOK /\ UNCHANGED k8sState => StateTypeOK'
  /\ WorkerTypeOK /\ UNCHANGED <<queue, worker, requeue>> => WorkerTypeOK'
  /\ RunTypeOK /\ UNCHANGED runner => RunTypeOK'
  /\ ChanTypeOK /\ UNCHANGED <<reconfReq, commonReq, proxyside>> => ChanTypeOK'
<1>1. ClusterTypeOK /\ UNCHANGED <<cluster, informers>> => ClusterTypeOK'
  BY DEF ClusterTypeOK, cluster, informers
<1>2. StateTypeOK /\ UNCHANGED k8sState => StateTypeOK'
  BY DEF StateTypeOK, k8sState
<1>3. WorkerTypeOK /\ UNCHANGED <<queue, worker, requeue>> => WorkerTypeOK'
  BY DEF WorkerTypeOK, worker
<1>4. RunTypeOK /\ UNCHANGED runner => RunTypeOK'
  BY DEF RunTypeOK, runner
<1>5. ChanTypeOK /\ UNCHANGED <<reconfReq, commonReq, proxyside>> => ChanTypeOK'
  BY DEF ChanTypeOK, proxyside
<1> QED BY <1>1, <1>2, <1>3, <1>4, <1>5

(* A process that starts over is in a state of Init, but for the cluster. *)
LEMMA RestartInv ==
  ASSUME Inv, Restart, rev' \in Nat
  PROVE  Inv'
<1>1. ClusterTypeOK /\ classObj \in [Classes -> Kind]
  BY DEF Inv, TypeOK, ClusterTypeOK
<1>2. ClusterTypeOK'
  BY <1>1, FreshType DEF Restart, ClusterTypeOK
<1>3. (lbStatus \in BOOLEAN /\ boot \in BOOLEAN /\ commonErr \in BOOLEAN
       /\ reconfReq \in BOOLEAN /\ commonReq \in BOOLEAN)'
  BY Zenon DEF Restart
<1>4. TypeOK'
  BY <1>2, <1>3, NotReadType, ChanCapAssumption
  DEF Restart, TypeOK, StateTypeOK, WorkerTypeOK, RunTypeOK, ChanTypeOK, Kind, WorkerPc, RunPc
<1>5. ControlOK'
  BY DEF Restart, ControlOK, Locked, Converting
<1> QED BY <1>4, <1>5 DEF Inv

(* reconfigureControllerCommonConfig fails: Run goes on, or main.go exits. *)
LEMMA FailInv ==
  ASSUME Inv, CommonFails, rpc \in {"cm", "modules", "tls", "tcp"}
  PROVE  Inv'
<1>0. TypeOK /\ ControlOK /\ ClusterTypeOK /\ StateTypeOK /\ WorkerTypeOK /\ RunTypeOK /\ ChanTypeOK
  BY DEF Inv, TypeOK
<1>1. CASE boot /\ UNCHANGED rev /\ Restart
  BY <1>0, <1>1, RestartInv DEF ClusterTypeOK
<1>2. CASE ~boot
  <2>1. /\ rpc' = "idle" /\ commonErr' = TRUE /\ rconf' = NONE /\ rtodo' = {}
        /\ UNCHANGED <<cluster, informers, k8sState, queue, worker, requeue, boot, rout,
                       reconfReq, commonReq, proxyside>>
    BY <1>2 DEF CommonFails
  <2>2. ClusterTypeOK' /\ StateTypeOK' /\ WorkerTypeOK' /\ ChanTypeOK'
    BY <1>0, <2>1, Frame
  <2>3. RunTypeOK'
    BY <1>0, <2>1 DEF RunTypeOK, RunPc
  <2>4. ControlOK'
    BY <1>0, <1>2, <2>1 DEF ControlOK, Locked, Converting, worker, k8sState
  <2> QED BY <2>2, <2>3, <2>4 DEF Inv, TypeOK
<1> QED BY <1>1, <1>2 DEF CommonFails

LEMMA InvStep == Inv /\ [Next]_vars => Inv'
<1> SUFFICES ASSUME Inv, [Next]_vars PROVE Inv'
  OBVIOUS
<1>0. TypeOK /\ ControlOK /\ ClusterTypeOK /\ StateTypeOK /\ WorkerTypeOK /\ RunTypeOK /\ ChanTypeOK
  BY DEF Inv, TypeOK
<1>1. ASSUME NEW i \in Ingresses, EnqueueIngress(i) PROVE Inv'
  <2> USE <1>0, <1>1 DEF EnqueueIngress
  <2>1. ClusterTypeOK'
    BY ConstantsAssumption DEF ClusterTypeOK, cluster, informers, Kind
  <2>2. StateTypeOK' /\ RunTypeOK' /\ ChanTypeOK'
    BY Frame
  <2>3. WorkerTypeOK'
    BY ConstantsAssumption DEF WorkerTypeOK, worker, WorkerPc
  <2>6. ControlOK'
    BY ConstantsAssumption DEF ControlOK, Locked, Converting, WorkerTypeOK, worker, runner, k8sState
  <2> QED BY <2>1, <2>2, <2>3, <2>6 DEF Inv, TypeOK
<1>2. ASSUME NEW c \in Classes, AddIngressClass(c) PROVE Inv'
  <2> USE <1>0, <1>2 DEF AddIngressClass, RequestReconfigure
  <2>1. ClusterTypeOK'
    BY ConstantsAssumption DEF ClusterTypeOK, cluster, informers, Kind
  <2>2. StateTypeOK'
    BY DEF StateTypeOK, ClusterTypeOK
  <2>3. WorkerTypeOK'
    BY ConstantsAssumption DEF WorkerTypeOK, worker, WorkerPc
  <2>4. RunTypeOK'
    BY Frame
  <2>5. ChanTypeOK'
    BY ConstantsAssumption DEF ChanTypeOK, proxyside
  <2>6. ControlOK'
    BY ConstantsAssumption DEF ControlOK, Locked, Converting, WorkerTypeOK, worker, runner, k8sState
  <2> QED BY <2>1, <2>2, <2>3, <2>4, <2>5, <2>6 DEF Inv, TypeOK
<1>3. ASSUME NEW c \in Classes, RemoveIngressClass(c) PROVE Inv'
  <2> USE <1>0, <1>3 DEF RemoveIngressClass, RequestReconfigureWhenRelevant
  <2>1. ClusterTypeOK'
    BY ConstantsAssumption DEF ClusterTypeOK, cluster, informers, Kind
  <2>2. StateTypeOK'
    BY DEF StateTypeOK, Kind
  <2>3. WorkerTypeOK'
    BY ConstantsAssumption DEF WorkerTypeOK, worker, WorkerPc
  <2>4. RunTypeOK'
    BY Frame
  <2>5. ChanTypeOK'
    BY ConstantsAssumption DEF ChanTypeOK, proxyside
  <2>6. ControlOK'
    BY ConstantsAssumption DEF ControlOK, Locked, Converting, WorkerTypeOK, worker, runner, k8sState
  <2> QED BY <2>1, <2>2, <2>3, <2>4, <2>5, <2>6 DEF Inv, TypeOK
<1>4. ASSUME getIngressesToRequeueOnClassChange PROVE Inv'
  <2> USE <1>0, <1>4 DEF getIngressesToRequeueOnClassChange, IngressesOfClass
  <2>1. ClusterTypeOK' /\ StateTypeOK' /\ RunTypeOK' /\ ChanTypeOK'
    BY Frame
  <2>3. WorkerTypeOK'
    BY ConstantsAssumption DEF WorkerTypeOK, worker, WorkerPc
  <2>6. ControlOK'
    BY ConstantsAssumption DEF ControlOK, Locked, Converting, WorkerTypeOK, worker, runner, k8sState
  <2> QED BY <2>1, <2>3, <2>6 DEF Inv, TypeOK
<1>5. ASSUME NEW s \in Secrets, getIngressReconcilesForSecrets(s) PROVE Inv'
  <2> USE <1>0, <1>5 DEF getIngressReconcilesForSecrets, UsersOf, UsedByCommon
  <2>1. ClusterTypeOK'
    BY ConstantsAssumption DEF ClusterTypeOK, cluster, informers, Kind
  <2>2. StateTypeOK' /\ RunTypeOK'
    BY Frame
  <2>3. WorkerTypeOK'
    BY ConstantsAssumption DEF WorkerTypeOK, worker, WorkerPc
  <2>5. ChanTypeOK'
    BY ConstantsAssumption DEF ChanTypeOK, proxyside
  <2>6. ControlOK'
    BY ConstantsAssumption DEF ControlOK, Locked, Converting, WorkerTypeOK, worker, runner, k8sState
  <2> QED BY <2>1, <2>2, <2>3, <2>5, <2>6 DEF Inv, TypeOK
<1>6. ASSUME getIngressReconcilesForConfigMaps PROVE Inv'
  <2> USE <1>0, <1>6 DEF getIngressReconcilesForConfigMaps, RequestReconcileCommon
  <2>1. ClusterTypeOK'
    BY ConstantsAssumption DEF ClusterTypeOK, cluster, informers, Kind
  <2>2. StateTypeOK' /\ WorkerTypeOK' /\ RunTypeOK'
    BY Frame
  <2>5. ChanTypeOK'
    BY ConstantsAssumption DEF ChanTypeOK, proxyside
  <2>6. ControlOK'
    BY ConstantsAssumption DEF ControlOK, Locked, Converting, WorkerTypeOK, worker, runner, k8sState
  <2> QED BY <2>1, <2>2, <2>5, <2>6 DEF Inv, TypeOK
<1>7. ASSUME NEW v \in Services, getIngressReconcilesForServices(v) PROVE Inv'
  <2> USE <1>0, <1>7 DEF getIngressReconcilesForServices, UsersOf
  <2>1. ClusterTypeOK'
    BY ConstantsAssumption DEF ClusterTypeOK, cluster, informers, Kind
  <2>2. StateTypeOK' /\ RunTypeOK'
    BY Frame
  <2>3. WorkerTypeOK'
    BY ConstantsAssumption DEF WorkerTypeOK, worker, WorkerPc
  <2>5. ChanTypeOK'
    BY ConstantsAssumption DEF ChanTypeOK, proxyside
  <2>6. ControlOK'
    BY ConstantsAssumption DEF ControlOK, Locked, Converting, WorkerTypeOK, worker, runner, k8sState
  <2> QED BY <2>1, <2>2, <2>3, <2>5, <2>6 DEF Inv, TypeOK
<1>8. ASSUME NEW i \in Ingresses, Reconcile(i) PROVE Inv'
  <2> USE <1>0, <1>8 DEF Reconcile, ConfigLoaded
  <2>1. ClusterTypeOK' /\ StateTypeOK' /\ RunTypeOK' /\ ChanTypeOK'
    BY Frame
  <2>3. WorkerTypeOK'
    BY DEF WorkerTypeOK, ClusterTypeOK, WorkerPc
  <2>6. ControlOK'
    BY ConstantsAssumption DEF ControlOK, Locked, Converting, WorkerTypeOK, worker, runner, k8sState
  <2> QED BY <2>1, <2>3, <2>6 DEF Inv, TypeOK
<1>9. ASSUME removeIngress PROVE Inv'
  <2> USE <1>0, <1>9 DEF removeIngress, WorkerDone, RequestReconfigureWhenRelevant
  <2>1. ClusterTypeOK' /\ RunTypeOK'
    BY Frame
  <2>2. StateTypeOK'
    BY ConstantsAssumption DEF StateTypeOK, k8sState
  <2>3. WorkerTypeOK'
    BY NotReadType DEF WorkerTypeOK, WorkerPc
  <2>5. ChanTypeOK'
    BY ConstantsAssumption DEF ChanTypeOK, proxyside
  <2>6. ControlOK'
    BY ConstantsAssumption DEF ControlOK, Locked, Converting, WorkerTypeOK, worker, runner, k8sState
  <2> QED BY <2>1, <2>2, <2>3, <2>5, <2>6 DEF Inv, TypeOK
<1>10. ASSUME markIngressIrrelevant PROVE Inv'
  <2> USE <1>0, <1>10 DEF markIngressIrrelevant, WorkerDone, RequestReconfigureWhenRelevant
  <2>1. ClusterTypeOK' /\ RunTypeOK'
    BY Frame
  <2>2. StateTypeOK'
    BY DEF StateTypeOK, WorkerTypeOK
  <2>3. WorkerTypeOK'
    BY NotReadType DEF WorkerTypeOK, WorkerPc
  <2>5. ChanTypeOK'
    BY ConstantsAssumption DEF ChanTypeOK, proxyside
  <2>6. ControlOK'
    BY ConstantsAssumption DEF ControlOK, Locked, Converting, WorkerTypeOK, worker, runner, k8sState
  <2> QED BY <2>1, <2>2, <2>3, <2>5, <2>6 DEF Inv, TypeOK
<1>11. ASSUME reconcileIngress PROVE Inv'
  <2> USE <1>0, <1>11 DEF reconcileIngress
  <2>1. ClusterTypeOK' /\ StateTypeOK' /\ RunTypeOK' /\ ChanTypeOK'
    BY Frame
  <2>3. WorkerTypeOK'
    BY IngObjectParts DEF WorkerTypeOK, WorkerPc
  <2>6. ControlOK'
    BY ConstantsAssumption DEF ControlOK, Locked, Converting, WorkerTypeOK, worker, runner, k8sState
  <2> QED BY <2>1, <2>3, <2>6 DEF Inv, TypeOK
<1>12. ASSUME NEW o \in Objects, readObject(o) PROVE Inv'
  <2> USE <1>0, <1>12 DEF readObject
  <2>1. ClusterTypeOK' /\ StateTypeOK' /\ RunTypeOK' /\ ChanTypeOK'
    BY Frame
  <2>3. WorkerTypeOK'
    BY DEF WorkerTypeOK, ClusterTypeOK, Reading
  <2>6. ControlOK'
    BY ConstantsAssumption DEF ControlOK, Locked, Converting, WorkerTypeOK, worker, runner, k8sState
  <2> QED BY <2>1, <2>3, <2>6 DEF Inv, TypeOK
<1>13. ASSUME NEW o \in Objects, reconcileError(o) PROVE Inv'
  <2> USE <1>0, <1>13 DEF reconcileError, WorkerDone, Retry
  <2>1. ClusterTypeOK' /\ StateTypeOK' /\ RunTypeOK' /\ ChanTypeOK'
    BY Frame
  <2>3. WorkerTypeOK'
    BY NotReadType DEF WorkerTypeOK, WorkerPc, ControlOK, Locked, Converting
  <2>6. ControlOK'
    BY ConstantsAssumption DEF ControlOK, Locked, Converting, WorkerTypeOK, worker, runner, k8sState
  <2> QED BY <2>1, <2>3, <2>6 DEF Inv, TypeOK
<1>14. ASSUME ensureActiveIngressStatus PROVE Inv'
  <2> USE <1>0, <1>14 DEF ensureActiveIngressStatus
  <2>a. wobj \in IngObject /\ wobj' \in IngObject
    <3> DEFINE patch == ~conf.src.disableStatus /\ ~wobj.lb /\ lbStatus
               new == [wobj EXCEPT !.lb = @ \/ patch]
    <3>1. wobj \in IngObject
      BY DEF ControlOK, Locked, Converting, WorkerTypeOK
    <3>2. (wobj.lb \/ patch) \in BOOLEAN
      BY Zenon
    <3>3. new \in IngObject
      <4> HIDE DEF patch
      <4> QED BY <3>1, <3>2 DEF IngObject
    <3> QED BY <3>1, <3>3
  <2>1. ClusterTypeOK'
    <3>1. CASE UNCHANGED <<ingObj, events>>
      BY <3>1 DEF ClusterTypeOK
    <3>2. CASE /\ ingObj[wing] # NONE /\ wing \in Ingresses
               /\ ingObj' = [ingObj EXCEPT ![wing].lb = TRUE]
               /\ events' = events \cup {wing}
      <4>1. [ingObj[wing] EXCEPT !.lb = TRUE] \in IngObject
        BY <3>2 DEF ClusterTypeOK, IngObject
      <4>2. ingObj' = [ingObj EXCEPT ![wing] = [ingObj[wing] EXCEPT !.lb = TRUE]]
        BY <3>2 DEF ClusterTypeOK
      <4>3. ingObj' \in [Ingresses -> IngObject \cup {NONE}]
        BY <4>1, <4>2 DEF ClusterTypeOK
      <4> QED BY <3>2, <4>3 DEF ClusterTypeOK
    <3> QED BY <3>1, <3>2 DEF ControlOK, WorkerTypeOK
  <2>2. StateTypeOK' /\ RunTypeOK' /\ ChanTypeOK'
    BY Frame
  <2>3. WorkerTypeOK'
    BY <2>a, IngObjectParts DEF WorkerTypeOK, WorkerPc
  <2>6. ControlOK'
    BY <2>a, NoneAssumption DEF ControlOK, Locked, Converting, runner, k8sState
  <2> QED BY <2>1, <2>2, <2>3, <2>6 DEF Inv, TypeOK
<1>15. ASSUME updateIngress PROVE Inv'
  <2> USE <1>0, <1>15 DEF updateIngress, WorkerDone, RequestReconfigure
  <2>1. ClusterTypeOK' /\ RunTypeOK'
    BY Frame
  <2>2. StateTypeOK'
    BY IngObjectParts DEF StateTypeOK, WorkerTypeOK, IngressConfiguration, ControlOK, Locked, Converting
  <2>3. WorkerTypeOK'
    BY NotReadType DEF WorkerTypeOK, WorkerPc
  <2>5. ChanTypeOK'
    BY ConstantsAssumption DEF ChanTypeOK, proxyside
  <2>6. ControlOK'
    BY ConstantsAssumption DEF ControlOK, Locked, Converting, WorkerTypeOK, worker, runner, k8sState
  <2> QED BY <2>1, <2>2, <2>3, <2>5, <2>6 DEF Inv, TypeOK
<1>16. ASSUME getControllerConfig PROVE Inv'
  <2> USE <1>0, <1>16 DEF getControllerConfig
  <2>1. CASE CommonFails
    BY <2>1, FailInv
  <2>2. CASE ~CommonFails
    <3>1. ClusterTypeOK' /\ StateTypeOK' /\ WorkerTypeOK' /\ ChanTypeOK'
      BY <2>2, Frame
    <3>a. rconf' \in ControllerConf
      BY <2>2, NotReadType DEF ClusterTypeOK, ControllerConf
    <3>4. RunTypeOK'
      BY <2>2, <3>a, ConfParts DEF RunTypeOK, RunPc, ClusterTypeOK
    <3>6. ControlOK'
      BY <2>2, <3>a, NoneAssumption DEF ControlOK, Locked, Converting, worker, runner, k8sState
    <3> QED BY <3>1, <3>4, <3>6 DEF Inv, TypeOK
  <2> QED BY <2>1, <2>2
<1>17. ASSUME NEW s \in Secrets, GetSecret(s) PROVE Inv'
  <2> USE <1>0, <1>17 DEF GetSecret
  <2>1. CASE CommonFails
    BY <2>1, FailInv
  <2>2. CASE ~CommonFails
    <3>1. ClusterTypeOK' /\ StateTypeOK' /\ WorkerTypeOK' /\ ChanTypeOK'
      BY <2>2, Frame
    <3>a. rconf' \in ControllerConf
      <4>1. rconf \in ControllerConf
        BY DEF ControlOK, RunTypeOK
      <4>2. [rconf.used EXCEPT ![s] = objRev[s]] \in Reading
        BY <4>1 DEF ControllerConf, Reading, ClusterTypeOK
      <4>3. rconf' = [rconf EXCEPT !.used = [rconf.used EXCEPT ![s] = objRev[s]]]
        BY <2>2, <4>1 DEF ControllerConf
      <4> QED BY <4>1, <4>2, <4>3 DEF ControllerConf
    <3>4. RunTypeOK'
      BY <2>2, <3>a DEF RunTypeOK
    <3>6. ControlOK'
      BY <2>2, <3>a, NoneAssumption DEF ControlOK, Locked, Converting, worker, runner, k8sState
    <3> QED BY <3>1, <3>4, <3>6 DEF Inv, TypeOK
  <2> QED BY <2>1, <2>2
<1>18. ASSUME updateConfig PROVE Inv'
  <2> USE <1>0, <1>18 DEF updateConfig
  <2>1. ClusterTypeOK' /\ WorkerTypeOK' /\ ChanTypeOK'
    BY Frame
  <2>2. StateTypeOK'
    BY DEF StateTypeOK, RunTypeOK
  <2>4. RunTypeOK'
    BY ConstantsAssumption DEF RunTypeOK, runner, RunPc
  <2>6. ControlOK'
    BY ConstantsAssumption DEF ControlOK, Locked, Converting, WorkerTypeOK, worker, runner, k8sState
  <2> QED BY <2>1, <2>2, <2>4, <2>6 DEF Inv, TypeOK
<1>19. ASSUME updateDefaultTls PROVE Inv'
  <2> USE <1>0, <1>19 DEF updateDefaultTls
  <2>1. CASE CommonFails
    BY <2>1, FailInv
  <2>2. CASE ~CommonFails
    <3>1. ClusterTypeOK' /\ WorkerTypeOK' /\ ChanTypeOK'
      BY <2>2, Frame
    <3>2. StateTypeOK'
      BY <2>2, ConfParts DEF StateTypeOK, ClusterTypeOK, ControllerConf, ControlOK, Objects
    <3>4. RunTypeOK'
      BY <2>2, ConstantsAssumption DEF RunTypeOK, runner, RunPc
    <3>6. ControlOK'
      BY <2>2, ConstantsAssumption DEF ControlOK, Locked, Converting, WorkerTypeOK, worker, runner, k8sState
    <3> QED BY <3>1, <3>2, <3>4, <3>6 DEF Inv, TypeOK
  <2> QED BY <2>1, <2>2
<1>20. ASSUME updateUpstreamIpAddress PROVE Inv'
  <2> USE <1>0, <1>20 DEF updateUpstreamIpAddress
  <2>1. ClusterTypeOK' /\ WorkerTypeOK' /\ ChanTypeOK'
    BY Frame
  <2>2. StateTypeOK'
    BY ConstantsAssumption DEF StateTypeOK, k8sState
  <2>4. RunTypeOK'
    BY ConstantsAssumption DEF RunTypeOK, runner, RunPc
  <2>6. ControlOK'
    BY ConstantsAssumption DEF ControlOK, Locked, Converting, WorkerTypeOK, worker, runner, k8sState
  <2> QED BY <2>1, <2>2, <2>4, <2>6 DEF Inv, TypeOK
<1>21. ASSUME updateTcpProxy PROVE Inv'
  <2> USE <1>0, <1>21 DEF updateTcpProxy, RequestReconfigure
  <2>1. CASE CommonFails
    BY <2>1, FailInv
  <2>2. CASE ~CommonFails
    <3>1. ClusterTypeOK' /\ WorkerTypeOK'
      BY <2>2, Frame
    <3>2. StateTypeOK'
      <4>0. objRev \in [Objects -> Nat]
        BY DEF ClusterTypeOK
      <4>a. tcpProxies' = [o \in Objects |-> IF o \in conf.src.tcp THEN objRev[o] ELSE 0]
        BY <2>2
      <4>b. ASSUME NEW o \in Objects PROVE (IF o \in conf.src.tcp THEN objRev[o] ELSE 0) \in Nat
        BY ONLY <4>0, <4>b
      <4>1. tcpProxies' \in Reading
        BY ONLY <4>a, <4>b DEF Reading
      <4>2. UNCHANGED <<conf, classes, entryObj, entryConf, defaultTls, lbStatus>>
        BY <2>2
      <4> QED BY <4>1, <4>2 DEF StateTypeOK
    <3>4. RunTypeOK'
      BY <2>2, ConstantsAssumption DEF RunTypeOK, runner, RunPc
    <3>5. ChanTypeOK'
      BY <2>2, ConstantsAssumption DEF ChanTypeOK, proxyside
    <3>6. ControlOK'
      BY <2>2, ConstantsAssumption DEF ControlOK, Locked, Converting, WorkerTypeOK, worker, runner, k8sState
    <3> QED BY <3>1, <3>2, <3>4, <3>5, <3>6 DEF Inv, TypeOK
  <2> QED BY <2>1, <2>2
<1>22. ASSUME RunReconcileCommon PROVE Inv'
  <2> USE <1>0, <1>22 DEF RunReconcileCommon
  <2>1. ClusterTypeOK' /\ StateTypeOK' /\ WorkerTypeOK'
    BY Frame
  <2>4. RunTypeOK'
    BY ConstantsAssumption DEF RunTypeOK, runner, RunPc
  <2>5. ChanTypeOK'
    BY ConstantsAssumption DEF ChanTypeOK, proxyside
  <2>6. ControlOK'
    BY ConstantsAssumption DEF ControlOK, Locked, Converting, WorkerTypeOK, worker, runner, k8sState
  <2> QED BY <2>1, <2>4, <2>5, <2>6 DEF Inv, TypeOK
<1>23. ASSUME RunReconfigure PROVE Inv'
  <2> USE <1>0, <1>23 DEF RunReconfigure
  <2>1. ClusterTypeOK' /\ StateTypeOK' /\ WorkerTypeOK'
    BY Frame
  <2>4. RunTypeOK'
    BY ConstantsAssumption DEF RunTypeOK, runner, RunPc
  <2>5. ChanTypeOK'
    BY ConstantsAssumption DEF ChanTypeOK, proxyside
  <2>6. ControlOK'
    BY ConstantsAssumption DEF ControlOK, Locked, Converting, WorkerTypeOK, worker, runner, k8sState
  <2> QED BY <2>1, <2>4, <2>5, <2>6 DEF Inv, TypeOK
<1>24. ASSUME getProxyConfig PROVE Inv'
  <2> USE <1>0, <1>24 DEF getProxyConfig
  <2>1. ClusterTypeOK' /\ StateTypeOK' /\ WorkerTypeOK' /\ ChanTypeOK'
    BY Frame
  <2>a. rout' \in RoutingConfig
    BY DEF StateTypeOK, RoutingConfig, ControlOK
  <2>4. RunTypeOK'
    BY <2>a DEF RunTypeOK, RunPc
  <2>6. ControlOK'
    BY <2>a, NoneAssumption DEF ControlOK, Locked, Converting, worker, runner, k8sState
  <2> QED BY <2>1, <2>4, <2>6 DEF Inv, TypeOK
<1>25. ASSUME SendConfig PROVE Inv'
  <2> USE <1>0, <1>25 DEF SendConfig, Room
  <2>1. ClusterTypeOK' /\ StateTypeOK' /\ WorkerTypeOK'
    BY Frame
  <2>4. RunTypeOK'
    BY ConstantsAssumption DEF RunTypeOK, runner, RunPc
  <2>5. ChanTypeOK'
    <3>1. rout \in RoutingConfig /\ configChan \in Seq(RoutingConfig) /\ Len(configChan) < ChanCap
      BY DEF ChanTypeOK, RunTypeOK, ControlOK
    <3>2. Append(configChan, rout) \in Seq(RoutingConfig) /\ Len(Append(configChan, rout)) =< ChanCap
      BY <3>1, ChanCapAssumption
    <3> QED BY <3>2 DEF ChanTypeOK
  <2>6. ControlOK'
    BY ConstantsAssumption DEF ControlOK, Locked, Converting, WorkerTypeOK, worker, runner, k8sState
  <2> QED BY <2>1, <2>4, <2>5, <2>6 DEF Inv, TypeOK
<1>26. ASSUME StoreRoutingConfig PROVE Inv'
  <2> USE <1>0, <1>26 DEF StoreRoutingConfig
  <2>1. ClusterTypeOK' /\ StateTypeOK' /\ WorkerTypeOK' /\ RunTypeOK'
    BY Frame
  <2>5. ChanTypeOK'
    <3>1. configChan \in Seq(RoutingConfig) /\ configChan # <<>> /\ Len(configChan) =< ChanCap
      BY DEF ChanTypeOK
    <3>2. /\ Head(configChan) \in RoutingConfig /\ Tail(configChan) \in Seq(RoutingConfig)
          /\ Len(Tail(configChan)) =< ChanCap
      BY <3>1, ChanCapAssumption
    <3> QED BY <3>2 DEF ChanTypeOK
  <2>6. ControlOK'
    BY ConstantsAssumption DEF ControlOK, Locked, Converting, WorkerTypeOK, worker, runner, k8sState
  <2> QED BY <2>1, <2>5, <2>6 DEF Inv, TypeOK
<1>27. ASSUME ProviderFatal \/ Crash PROVE Inv'
  BY <1>0, <1>27, RestartInv DEF ProviderFatal, Crash, Change, ClusterTypeOK
<1>28. ASSUME UNCHANGED vars PROVE Inv'
  <2>1. TypeOK'
    BY <1>0, <1>28, Frame DEF vars, TypeOK
  <2>2. ControlOK'
    BY <1>0, <1>28 DEF vars, ControlOK, Locked, Converting, worker, runner, k8sState
  <2> QED BY <2>1, <2>2 DEF Inv
<1>29. ASSUME Environment PROVE Inv'
  <2>1. ClusterTypeOK'
    BY <1>0, <1>29, ClusterTypeStep DEF Environment
  <2>2. TypeOK'
    BY <1>0, <1>29, <2>1, Frame DEF Environment, TypeOK
  <2>3. ControlOK'
    BY <1>0, <1>29 DEF Environment, ControlOK, Locked, Converting, worker, runner, k8sState
  <2> QED BY <2>2, <2>3 DEF Inv
<1> QED
  BY <1>1, <1>2, <1>3, <1>4, <1>5, <1>6, <1>7, <1>8, <1>9, <1>10, <1>11, <1>12, <1>13, <1>14, <1>15, <1>16, <1>17, <1>18, <1>19, <1>20, <1>21, <1>22, <1>23, <1>24, <1>25, <1>26, <1>27, <1>28, <1>29
  DEF Next, Handlers, ReconcileIngress, CommonConfig, RunTicker

(* Spec keeps every variable in its type, and no goroutine runs where one of
   its pointers could be nil.                                                *)
THEOREM InvCorrect == Spec => []Inv
<1>1. Init => Inv
  BY InitInv
<1>2. Inv /\ [Next]_vars => Inv'
  BY InvStep
<1> QED BY <1>1, <1>2, PTL DEF Spec

(* Every variable keeps its type, and configChan its capacity. *)
THEOREM TypeCorrect == Spec => []TypeOK
<1>1. Inv => TypeOK
  BY DEF Inv
<1> QED BY <1>1, InvCorrect, PTL

(* Nothing dereferences state.config before updateConfig has set it, although
   Reconcile tests it without the lock (reconcile.go:52).                    *)
THEOREM ConfigCorrect == Spec => []ConfigSetBeforeUse
<1>1. Inv => ConfigSetBeforeUse
  BY DEF Inv, ControlOK, ConfigSetBeforeUse
<1> QED BY <1>1, InvCorrect, PTL

----------------------------------------------------------------------------
(* The path of a configuration: channel of capacity one, Run, configChan.  *)

LEMMA LatestUnchanged ==
  ASSUME UNCHANGED <<configChan, served>>,
         rpc = "send" <=> rpc' = "send",
         rpc = "send" => rout' = rout
  PROVE  LatestConfig' = LatestConfig
BY DEF LatestConfig

(* The send and the receive do not change which configuration is the last. *)
LEMMA LatestSent ==
  ASSUME configChan \in Seq(RoutingConfig), rout \in RoutingConfig, SendConfig
  PROVE  LatestConfig' = LatestConfig
<1>1. LatestConfig = rout /\ configChan' = Append(configChan, rout) /\ rpc' = "idle"
  BY DEF SendConfig, LatestConfig
<1>2. /\ Append(configChan, rout) # <<>>
      /\ Append(configChan, rout)[Len(Append(configChan, rout))] = rout
  OBVIOUS
<1> QED BY <1>1, <1>2 DEF LatestConfig

LEMMA LatestStored ==
  ASSUME configChan \in Seq(RoutingConfig), StoreRoutingConfig
  PROVE  LatestConfig' = LatestConfig
<1>1. /\ configChan # <<>> /\ served' = Head(configChan) /\ configChan' = Tail(configChan)
      /\ UNCHANGED <<rpc, rout>>
  BY DEF StoreRoutingConfig, runner
<1>2. CASE Len(configChan) = 1
  <2>1. Tail(configChan) = <<>> /\ configChan[Len(configChan)] = Head(configChan)
    BY <1>1, <1>2
  <2> QED BY <1>1, <2>1 DEF LatestConfig
<1>3. CASE Len(configChan) # 1
  <2> DEFINE n == Len(configChan)
  <2>1. n \in Nat /\ n > 1
    <3>1. Len(configChan) # 0
      BY <1>1
    <3>2. Len(configChan) \in Nat
      OBVIOUS
    <3>3. Len(configChan) # 1
      BY <1>3
    <3> QED BY ONLY <3>1, <3>2, <3>3
  <2>2. Len(Tail(configChan)) = n - 1 /\ \A k \in 1..(n - 1) : Tail(configChan)[k] = configChan[k + 1]
    BY <2>1
  <2> HIDE DEF n
  <2>3. n - 1 \in 1..(n - 1) /\ (n - 1) + 1 = n
    BY <2>1
  <2>4. Tail(configChan)[n - 1] = configChan[n]
    BY <2>2, <2>3
  <2>5. Tail(configChan) # <<>>
    <3>1. Len(<<>>) = 0
      OBVIOUS
    <3>2. n - 1 # 0
      BY <2>1
    <3> QED BY <2>2, <3>1, <3>2, Zenon
  <2>6. /\ Tail(configChan) # <<>>
        /\ Tail(configChan)[Len(Tail(configChan))] = configChan[Len(configChan)]
    BY <2>2, <2>4, <2>5 DEF n
  <2> QED BY <1>1, <2>6 DEF LatestConfig
<1> QED BY <1>2, <1>3

LEMMA LostFrame ==
  ASSUME NoLostReconfigure, UNCHANGED <<configChan, served, entryConf>>,
         reconfReq => reconfReq',
         rpc = "snapshot" => rpc' = "snapshot",
         rpc = "send" <=> rpc' = "send",
         rpc = "send" => rout' = rout
  PROVE  NoLostReconfigure'
BY LatestUnchanged DEF NoLostReconfigure

LEMMA LostRestart == Restart => NoLostReconfigure'
BY DEF Restart, NoLostReconfigure

LEMMA LostFails ==
  ASSUME NoLostReconfigure, CommonFails, rpc \notin {"snapshot", "send"}
  PROVE  NoLostReconfigure'
<1>1. CASE boot /\ UNCHANGED rev /\ Restart
  BY <1>1, LostRestart
<1>2. CASE ~boot
  BY <1>2, LostFrame DEF CommonFails, k8sState, proxyside
<1> QED BY <1>1, <1>2 DEF CommonFails

LEMMA LostStep == Inv /\ NoLostReconfigure /\ [Next]_vars => NoLostReconfigure'
<1> SUFFICES ASSUME Inv, NoLostReconfigure, [Next]_vars PROVE NoLostReconfigure'
  OBVIOUS
<1>0. /\ configChan \in Seq(RoutingConfig) /\ rpc \in RunPc
      /\ rpc = "send" => rout \in RoutingConfig
      /\ reconfReq \in BOOLEAN
      /\ entryConf \in [Ingresses -> IngressConfiguration \cup {NONE}]
      /\ wpc # "idle" => wing \in Ingresses
  BY DEF Inv, TypeOK, ChanTypeOK, RunTypeOK, StateTypeOK, WorkerTypeOK, ControlOK
<1>1. CASE Environment \/ UNCHANGED vars
  BY <1>1, LostFrame DEF Environment, vars, k8sState, runner, proxyside
<1>2. CASE Handlers
  <2> USE DEF k8sState, runner, proxyside
  <2>1. CASE \E i \in Ingresses : EnqueueIngress(i)
    BY <2>1, LostFrame DEF EnqueueIngress
  <2>2. CASE \E c \in Classes : AddIngressClass(c)
    BY <2>2 DEF AddIngressClass, RequestReconfigure, NoLostReconfigure
  <2>3. CASE \E c \in Classes : RemoveIngressClass(c)
    BY <2>3, LostFrame, Zenon DEF RemoveIngressClass, RequestReconfigureWhenRelevant
  <2>4. CASE getIngressesToRequeueOnClassChange
    BY <2>4, LostFrame DEF getIngressesToRequeueOnClassChange
  <2>5. CASE \E s \in Secrets : getIngressReconcilesForSecrets(s)
    BY <2>5, LostFrame DEF getIngressReconcilesForSecrets
  <2>6. CASE getIngressReconcilesForConfigMaps
    BY <2>6, LostFrame DEF getIngressReconcilesForConfigMaps
  <2>7. CASE \E v \in Services : getIngressReconcilesForServices(v)
    BY <2>7, LostFrame DEF getIngressReconcilesForServices
  <2> QED BY <1>2, <2>1, <2>2, <2>3, <2>4, <2>5, <2>6, <2>7 DEF Handlers
<1>3. CASE \E i \in Ingresses : Reconcile(i)
  BY <1>3, LostFrame DEF Reconcile, k8sState, runner, proxyside
<1>4. CASE ReconcileIngress
  <2>1. CASE removeIngress \/ markIngressIrrelevant
    <3>1. /\ UNCHANGED <<runner, proxyside>> /\ (reconfReq => reconfReq')
          /\ entryConf' = [entryConf EXCEPT ![wing] = NONE]
      BY <2>1, Zenon DEF removeIngress, markIngressIrrelevant, RequestReconfigureWhenRelevant
    <3>2. LatestConfig' = LatestConfig
      BY <3>1, LatestUnchanged DEF runner, proxyside
    <3> QED BY <1>0, <3>1, <3>2 DEF NoLostReconfigure, runner
  <2>2. CASE updateIngress
    BY <2>2 DEF updateIngress, RequestReconfigure, NoLostReconfigure
  <2>3. CASE reconcileIngress \/ ensureActiveIngressStatus
    BY <2>3, LostFrame
    DEF reconcileIngress, ensureActiveIngressStatus, k8sState, runner, proxyside
  <2>4. CASE \E o \in Objects : readObject(o) \/ reconcileError(o)
    BY <2>4, LostFrame DEF readObject, reconcileError, k8sState, runner, proxyside
  <2> QED BY <1>4, <2>1, <2>2, <2>3, <2>4 DEF ReconcileIngress
<1>5. CASE CommonConfig
  <2>1. CASE CommonFails /\ rpc \notin {"snapshot", "send"}
    BY <2>1, LostFails
  <2>2. CASE ~CommonFails /\ getControllerConfig
    BY <2>2, LostFrame DEF getControllerConfig, k8sState, proxyside
  <2>3. CASE ~CommonFails /\ \E s \in Secrets : GetSecret(s)
    BY <2>3, LostFrame DEF GetSecret, k8sState, proxyside
  <2>4. CASE updateConfig
    BY <2>4, LostFrame DEF updateConfig, proxyside
  <2>5. CASE ~CommonFails /\ updateDefaultTls
    BY <2>5, LostFrame DEF updateDefaultTls, proxyside
  <2>6. CASE updateUpstreamIpAddress
    BY <2>6, LostFrame DEF updateUpstreamIpAddress, proxyside
  <2>7. CASE ~CommonFails /\ updateTcpProxy
    BY <2>7 DEF updateTcpProxy, RequestReconfigure, NoLostReconfigure
  <2> QED BY <1>5, <2>1, <2>2, <2>3, <2>4, <2>5, <2>6, <2>7, Zenon
          DEF CommonConfig, getControllerConfig, GetSecret, updateDefaultTls, updateTcpProxy
<1>6. CASE ProviderFatal \/ Crash
  BY <1>6, LostRestart DEF ProviderFatal, Crash
<1>7. CASE RunReconcileCommon \/ RunTicker
  BY <1>7, LostFrame DEF RunReconcileCommon, RunTicker, vars, k8sState, runner, proxyside
<1>8. CASE RunReconfigure
  BY <1>8 DEF RunReconfigure, NoLostReconfigure
<1>9. CASE getProxyConfig
  <2>1. /\ LatestConfig' = [ings |-> entryConf, modules |-> conf, tls |-> defaultTls,
                            tcp |-> tcpProxies]
        /\ entryConf' = entryConf
    BY <1>9 DEF getProxyConfig, LatestConfig, k8sState
  <2>2. LatestConfig' \in RoutingConfig
    BY <1>9, <2>1 DEF getProxyConfig, Inv, TypeOK, StateTypeOK, ControlOK, RoutingConfig
  <2> QED BY <2>1, <2>2, NoneAssumption DEF NoLostReconfigure
<1>10. CASE SendConfig
  <2>1. LatestConfig' = LatestConfig
    <3>1. rout \in RoutingConfig
      BY <1>0, <1>10 DEF SendConfig
    <3> QED BY <1>0, <1>10, <3>1, LatestSent
  <2> QED BY <1>10, <2>1 DEF SendConfig, NoLostReconfigure, k8sState
<1>11. CASE StoreRoutingConfig
  <2>1. LatestConfig' = LatestConfig
    BY <1>0, <1>11, LatestStored
  <2> QED BY <1>11, <2>1 DEF StoreRoutingConfig, NoLostReconfigure, k8sState, runner
<1> QED BY <1>1, <1>2, <1>3, <1>4, <1>5, <1>6, <1>7, <1>8, <1>9, <1>10, <1>11 DEF Next

(* RequestReconfigure may drop its token, Run may be blocked on a full
   configChan, the proxy may lag: no Ingress configuration is lost.          *)
THEOREM NoLostReconfigureCorrect == Spec => []NoLostReconfigure
<1>1. Init => NoLostReconfigure
  BY DEF Init, NoLostReconfigure
<1>2. Inv /\ NoLostReconfigure /\ [Next]_vars => NoLostReconfigure'
  BY LostStep
<1> QED BY <1>1, <1>2, InvCorrect, PTL DEF Spec

----------------------------------------------------------------------------
(* Nothing stale without a notification or a reconcile to come.            *)

(* What the worker has read so far is current, or its notification waits for
   the lock the worker holds.                                                *)
WorkerRead ==
  /\ ~Locked => wused = NotRead
  /\ Locked => \A o \in Objects : wused[o] # 0 /\ wused[o] # objRev[o] => o \in events

ObjectInv == WorkerRead /\ ObjectTracked

(* A step that takes no notification and no queued name away, and reads
   nothing, keeps it.                                                        *)
LEMMA ObjectFrame ==
  ASSUME ObjectInv, UNCHANGED <<objRev, entryConf, wpc, wing, wused>>,
         events \subseteq events', queue \subseteq queue'
  PROVE  ObjectInv'
BY DEF ObjectInv, WorkerRead, ObjectTracked, Pending, Locked, Converting

LEMMA ObjectRestart == Restart => ObjectInv'
BY DEF Restart, ObjectInv, WorkerRead, ObjectTracked, Locked, Converting, NotRead

LEMMA ObjectFails ==
  ASSUME ObjectInv, CommonFails
  PROVE  ObjectInv'
<1>1. CASE boot /\ UNCHANGED rev /\ Restart
  BY <1>1, ObjectRestart
<1>2. CASE ~boot
  BY <1>2, ObjectFrame DEF CommonFails, k8sState, worker, cluster, informers
<1> QED BY <1>1, <1>2 DEF CommonFails

LEMMA ObjectStep == Inv /\ ObjectInv /\ [Next]_vars => ObjectInv'
<1> SUFFICES ASSUME Inv, ObjectInv, [Next]_vars PROVE ObjectInv'
  OBVIOUS
<1> USE DEF cluster, informers, k8sState, worker
<1>0. /\ entryConf \in [Ingresses -> IngressConfiguration \cup {NONE}]
      /\ wpc # "idle" => wing \in Ingresses
      /\ wpc = "idle" => wing = NONE
      /\ objRev \in [Objects -> Nat] /\ wused \in [Objects -> Nat]
      /\ Secrets \subseteq Objects
      /\ \A i \in Ingresses : i \notin Objects /\ i # NONE
      /\ ConfigMap \notin Objects \cup Ingresses
      /\ conf # NONE => conf.src.upstream \in Upstreams
  BY ConstantsAssumption
  DEF Inv, TypeOK, StateTypeOK, WorkerTypeOK, ClusterTypeOK, ControlOK, Reading, Objects,
      ControllerConf, Upstreams
<1>1. CASE Environment
  <2>1. CASE \E o \in Objects : ApplyObject(o) \/ DeleteObject(o)
    <3>1. PICK o \in Objects : ApplyObject(o) \/ DeleteObject(o)
      BY <2>1
    <3>2. /\ \A p \in Objects : p = o \/ objRev'[p] = objRev[p]
          /\ events' = events \cup {o}
          /\ UNCHANGED <<entryConf, queue, wpc, wing, wused>>
      BY <1>0, <1>1, <3>1 DEF Environment, ApplyObject, DeleteObject
    <3> QED BY <3>2 DEF ObjectInv, WorkerRead, ObjectTracked, Pending, Locked, Converting
  <2>2. CASE ~\E o \in Objects : ApplyObject(o) \/ DeleteObject(o)
    <3>1. /\ UNCHANGED objRev /\ events \subseteq events'
      BY <1>1, <2>2, Zenon
      DEF Environment, ClusterNext, ApplyIngress, DeleteIngress, CreateClass, DeleteClass,
          ApplyConfigMap
    <3> QED BY <1>1, <3>1, ObjectFrame DEF Environment
  <2> QED BY <2>1, <2>2
<1>2. CASE Handlers
  <2>1. CASE \E i \in Ingresses : EnqueueIngress(i)
    BY <1>0, <2>1 DEF EnqueueIngress, ObjectInv, WorkerRead, ObjectTracked, Pending, Locked, Converting
  <2>2. CASE \E c \in Classes : AddIngressClass(c) \/ RemoveIngressClass(c)
    BY <2>2, ObjectFrame DEF AddIngressClass, RemoveIngressClass
  <2>3. CASE getIngressesToRequeueOnClassChange
    BY <2>3, ObjectFrame DEF getIngressesToRequeueOnClassChange
  <2>4. CASE \E s \in Secrets : getIngressReconcilesForSecrets(s)
    BY <1>0, <2>4
    DEF getIngressReconcilesForSecrets, UsersOf, ObjectInv, WorkerRead, ObjectTracked,
        Pending, Locked, Converting
  <2>5. CASE getIngressReconcilesForConfigMaps
    BY <1>0, <2>5
    DEF getIngressReconcilesForConfigMaps, ObjectInv, WorkerRead, ObjectTracked, Pending, Locked, Converting
  <2>6. CASE \E v \in Services : getIngressReconcilesForServices(v)
    <3>1. PICK v \in Services : getIngressReconcilesForServices(v)
      BY <2>6
    <3>2. /\ events' = events \ {v} /\ ~Locked /\ v \in Objects
          /\ queue \subseteq queue' /\ (v \notin Upstreams => queue' = queue \cup UsersOf(v))
          /\ UNCHANGED <<objRev, entryConf, wpc, wing, wused>>
      BY <1>0, <3>1 DEF getIngressReconcilesForServices, Objects
    <3> QED BY <1>0, <3>2
            DEF UsersOf, ObjectInv, WorkerRead, ObjectTracked, Pending, Locked, Converting
  <2> QED BY <1>2, <2>1, <2>2, <2>3, <2>4, <2>5, <2>6 DEF Handlers
<1>3. CASE \E i \in Ingresses : Reconcile(i)
  BY <1>0, <1>3 DEF Reconcile, ObjectInv, WorkerRead, ObjectTracked, Pending, Locked, Converting
<1>4. CASE ReconcileIngress
  <2>1. CASE removeIngress \/ markIngressIrrelevant
    BY <1>0, <2>1
    DEF removeIngress, markIngressIrrelevant, WorkerDone, ObjectInv, WorkerRead,
        ObjectTracked, Pending, Locked, Converting
  <2>2. CASE reconcileIngress
    BY <1>0, <2>2
    DEF reconcileIngress, ObjectInv, WorkerRead, ObjectTracked, Pending, Locked, Converting, NotRead
  <2>3. CASE \E o \in Objects : readObject(o)
    BY <1>0, <2>3 DEF readObject, ObjectInv, WorkerRead, ObjectTracked, Pending, Locked, Converting
  <2>4. CASE \E o \in Objects : reconcileError(o)
    BY <1>0, <2>4
    DEF reconcileError, Retry, WorkerDone, ObjectInv, WorkerRead, ObjectTracked, Pending, Locked, Converting
  <2>5. CASE ensureActiveIngressStatus
    BY <2>5 DEF ensureActiveIngressStatus, ObjectInv, WorkerRead, ObjectTracked, Pending, Locked, Converting
  <2>6. CASE updateIngress
    <3>1. /\ \A i \in Ingresses : i # wing => entryConf'[i] = entryConf[i]
          /\ entryConf'[wing].used = wused
          /\ UNCHANGED <<objRev, events, queue>>
          /\ wpc' = "idle" /\ wused' = NotRead /\ Locked
      BY <1>0, <2>6 DEF updateIngress, WorkerDone, Locked, Converting
    <3> QED BY <1>0, <3>1 DEF ObjectInv, WorkerRead, ObjectTracked, Pending, Locked, Converting
  <2> QED BY <1>4, <2>1, <2>2, <2>3, <2>4, <2>5, <2>6 DEF ReconcileIngress
<1>5. CASE CommonConfig
  <2>1. CASE CommonFails
    BY <2>1, ObjectFails
  <2>2. CASE ~CommonFails
    <3>1. UNCHANGED <<objRev, entryConf, wpc, wing, wused, events, queue>>
      BY <1>5, <2>2
      DEF CommonConfig, getControllerConfig, GetSecret, updateConfig, updateDefaultTls,
          updateUpstreamIpAddress, updateTcpProxy
    <3> QED BY <3>1, ObjectFrame
  <2> QED BY <2>1, <2>2
<1>6. CASE ProviderFatal \/ Crash
  BY <1>6, ObjectRestart DEF ProviderFatal, Crash
<1>7. CASE RunReconcileCommon \/ RunReconfigure \/ RunTicker \/ getProxyConfig \/ SendConfig
           \/ StoreRoutingConfig \/ UNCHANGED vars
  BY <1>7, ObjectFrame
  DEF RunReconcileCommon, RunReconfigure, RunTicker, getProxyConfig, SendConfig,
      StoreRoutingConfig, vars
<1> QED BY <1>1, <1>2, <1>3, <1>4, <1>5, <1>6, <1>7 DEF Next

(* "if some object is used during config, the Ingress will be reconciled on
   change of the object" (module.go:61-62), upstream Services apart: the lock
   held over the reads keeps their notifications back until UsedSecrets and
   UsedServices are stored.                                                  *)
THEOREM ObjectTrackedCorrect == Spec => []ObjectTracked
<1>1. Init => ObjectInv
  BY DEF Init, ObjectInv, WorkerRead, ObjectTracked, Locked, Converting
<1>2. Inv /\ ObjectInv /\ [Next]_vars => ObjectInv'
  BY ObjectStep
<1>3. ObjectInv => ObjectTracked
  BY DEF ObjectInv
<1> QED BY <1>1, <1>2, <1>3, InvCorrect, PTL DEF Spec

(* The object the worker got is current, or the Ingress is due again. *)
WorkerObject ==
  \A i \in Ingresses :
    wing = i /\ SpecRev(wobj) # SpecRev(ingObj[i]) => i \in events \cup queue

IngressInv == WorkerObject /\ IngressTracked

LEMMA IngressFrame ==
  ASSUME IngressInv, UNCHANGED <<ingObj, entryObj, wing, wobj>>,
         events \cap Ingresses \subseteq events', queue \subseteq queue'
  PROVE  IngressInv'
BY DEF IngressInv, WorkerObject, IngressTracked, Pending, SpecRev

LEMMA IngressRestart == ASSUME Inv, Restart PROVE IngressInv'
BY ConstantsAssumption
DEF Restart, IngressInv, WorkerObject, IngressTracked, Pending, SpecRev, FreshEvents

LEMMA IngressFails ==
  ASSUME Inv, IngressInv, CommonFails
  PROVE  IngressInv'
<1>1. CASE boot /\ UNCHANGED rev /\ Restart
  BY <1>1, IngressRestart
<1>2. CASE ~boot
  BY <1>2, IngressFrame DEF CommonFails, k8sState, worker, cluster, informers
<1> QED BY <1>1, <1>2 DEF CommonFails

LEMMA IngressStep == Inv /\ IngressInv /\ [Next]_vars => IngressInv'
<1> SUFFICES ASSUME Inv, IngressInv, [Next]_vars PROVE IngressInv'
  OBVIOUS
<1> USE DEF cluster, informers, k8sState, worker
<1>0. /\ entryObj \in [Ingresses -> IngObject \cup {NONE}]
      /\ ingObj \in [Ingresses -> IngObject \cup {NONE}]
      /\ wobj \in IngObject \cup {NONE}
      /\ wpc # "idle" => wing \in Ingresses
      /\ Locked => wobj # NONE
      /\ \A i \in Ingresses : i \notin Objects /\ i # NONE /\ i # ConfigMap
      /\ Secrets \subseteq Objects /\ Services \subseteq Objects
  BY ConstantsAssumption
  DEF Inv, TypeOK, StateTypeOK, WorkerTypeOK, ClusterTypeOK, ControlOK, Objects
<1>1. CASE Environment
  <2>1. CASE \E i \in Ingresses : DeleteIngress(i) \/ \E s \in IngressSpecs : ApplyIngress(i, s)
    <3>1. PICK i \in Ingresses : DeleteIngress(i) \/ \E s \in IngressSpecs : ApplyIngress(i, s)
      BY <2>1
    <3>2. /\ \A j \in Ingresses : j = i \/ ingObj'[j] = ingObj[j]
          /\ events' = events \cup {i}
          /\ UNCHANGED <<entryObj, queue, wing, wobj>>
      BY <1>0, <1>1, <3>1, Zenon DEF Environment, ApplyIngress, DeleteIngress
    <3> QED BY <3>2 DEF IngressInv, WorkerObject, IngressTracked, Pending, SpecRev
  <2>2. CASE ~\E i \in Ingresses : DeleteIngress(i) \/ \E s \in IngressSpecs : ApplyIngress(i, s)
    <3>1. UNCHANGED ingObj /\ events \subseteq events'
      BY <1>1, <2>2
      DEF Environment, ClusterNext, CreateClass, DeleteClass, ApplyObject, DeleteObject,
          ApplyConfigMap
    <3> QED BY <1>1, <3>1, IngressFrame DEF Environment
  <2> QED BY <2>1, <2>2
<1>2. CASE Handlers
  <2>1. CASE \E i \in Ingresses : EnqueueIngress(i)
    BY <1>0, <2>1 DEF EnqueueIngress, IngressInv, WorkerObject, IngressTracked, Pending
  <2>2. CASE ~\E i \in Ingresses : EnqueueIngress(i)
    <3>1. /\ UNCHANGED <<ingObj, entryObj, wing, wobj>>
          /\ events \cap Ingresses \subseteq events' /\ queue \subseteq queue'
      BY <1>0, <1>2, <2>2
      DEF Handlers, AddIngressClass, RemoveIngressClass, getIngressesToRequeueOnClassChange,
          getIngressReconcilesForSecrets, getIngressReconcilesForConfigMaps,
          getIngressReconcilesForServices
    <3> QED BY <3>1, IngressFrame
  <2> QED BY <2>1, <2>2
<1>3. CASE \E i \in Ingresses : Reconcile(i)
  <2>1. PICK i \in Ingresses : Reconcile(i)
    BY <1>3
  <2>2. /\ wing' = i /\ wobj' = ingObj[i] /\ queue' = queue \ {i}
        /\ UNCHANGED <<ingObj, entryObj, events>> /\ wpc = "idle"
    BY <2>1 DEF Reconcile
  <2>3. wing = NONE
    BY <2>2 DEF Inv, ControlOK
  <2> QED BY <1>0, <2>2, <2>3 DEF IngressInv, WorkerObject, IngressTracked, Pending
<1>4. CASE ReconcileIngress
  <2>1. CASE removeIngress \/ markIngressIrrelevant \/ updateIngress
    <3>1. /\ wing \in Ingresses /\ wing' = NONE /\ UNCHANGED <<ingObj, events, queue>>
          /\ entryObj' = [entryObj EXCEPT ![wing] = wobj]
      BY <1>0, <2>1 DEF removeIngress, markIngressIrrelevant, updateIngress, WorkerDone
    <3> QED BY <1>0, <3>1 DEF IngressInv, WorkerObject, IngressTracked, Pending
  <2>2. CASE reconcileIngress \/ \E o \in Objects : readObject(o)
    BY <2>2, IngressFrame, Zenon DEF reconcileIngress, readObject
  <2>3. CASE \E o \in Objects : reconcileError(o)
    <3>1. /\ wing \in Ingresses /\ wing' = NONE /\ UNCHANGED <<ingObj, events, entryObj>>
          /\ queue' = queue \cup {wing}
      BY <1>0, <2>3 DEF reconcileError, Retry, WorkerDone, Locked, Converting
    <3> QED BY <1>0, <3>1 DEF IngressInv, WorkerObject, IngressTracked, Pending
  <2>4. CASE ensureActiveIngressStatus
    <3>1. /\ UNCHANGED <<entryObj, wing, queue>> /\ events \subseteq events' /\ wing \in Ingresses
          /\ wobj \in IngObject
      BY <1>0, <2>4 DEF ensureActiveIngressStatus, Locked, Converting
    <3>2. SpecRev(wobj') = SpecRev(wobj)
      <4> DEFINE lb == wobj.lb \/ (~conf.src.disableStatus /\ ~wobj.lb /\ lbStatus)
      <4>1. wobj' = [wobj EXCEPT !.lb = lb]
        BY <2>4 DEF ensureActiveIngressStatus
      <4>2. lb \in BOOLEAN
        BY Zenon
      <4> HIDE DEF lb
      <4>3. wobj' \in IngObject /\ wobj'.rev = wobj.rev
        BY <3>1, <4>1, <4>2 DEF IngObject
      <4> QED BY <3>1, <4>3, NoneAssumption DEF SpecRev
    <3>3. \A i \in Ingresses : SpecRev(ingObj'[i]) = SpecRev(ingObj[i])
      <4>1. CASE UNCHANGED ingObj
        BY <4>1
      <4>2. CASE ingObj[wing] # NONE /\ ingObj' = [ingObj EXCEPT ![wing].lb = TRUE]
        <5>1. /\ ingObj'[wing] = [ingObj[wing] EXCEPT !.lb = TRUE]
              /\ \A i \in Ingresses : i # wing => ingObj'[i] = ingObj[i]
          BY <1>0, <3>1, <4>2
        <5>2. ingObj'[wing] \in IngObject /\ ingObj'[wing].rev = ingObj[wing].rev
          BY <1>0, <3>1, <4>2, <5>1, Zenon DEF IngObject
        <5>3. SpecRev(ingObj'[wing]) = SpecRev(ingObj[wing])
          BY <4>2, <5>2, NoneAssumption, Zenon DEF SpecRev
        <5>4. ASSUME NEW i \in Ingresses, i # wing PROVE SpecRev(ingObj'[i]) = SpecRev(ingObj[i])
          BY <5>1, <5>4 DEF SpecRev
        <5> QED BY <5>3, <5>4
      <4> QED BY <2>4, <4>1, <4>2 DEF ensureActiveIngressStatus
    <3> QED BY <3>1, <3>2, <3>3 DEF IngressInv, WorkerObject, IngressTracked, Pending
  <2> QED BY <1>4, <2>1, <2>2, <2>3, <2>4 DEF ReconcileIngress
<1>5. CASE CommonConfig
  <2>1. CASE CommonFails
    BY <2>1, IngressFails
  <2>2. CASE ~CommonFails
    <3>1. UNCHANGED <<ingObj, entryObj, wing, wobj, events, queue>>
      BY <1>5, <2>2
      DEF CommonConfig, getControllerConfig, GetSecret, updateConfig, updateDefaultTls,
          updateUpstreamIpAddress, updateTcpProxy
    <3> QED BY <3>1, IngressFrame
  <2> QED BY <2>1, <2>2
<1>6. CASE ProviderFatal \/ Crash
  BY <1>6, IngressRestart DEF ProviderFatal, Crash
<1>7. CASE RunReconcileCommon \/ RunReconfigure \/ RunTicker \/ getProxyConfig \/ SendConfig
           \/ StoreRoutingConfig \/ UNCHANGED vars
  BY <1>7, IngressFrame
  DEF RunReconcileCommon, RunReconfigure, RunTicker, getProxyConfig, SendConfig,
      StoreRoutingConfig, vars
<1> QED BY <1>1, <1>2, <1>3, <1>4, <1>5, <1>6, <1>7 DEF Next

(* The worker gets the Ingress before it takes the lock (reconcile.go:56-68), so
   it may store an old one; it never does so without a reconcile to come.     *)
THEOREM IngressTrackedCorrect == Spec => []IngressTracked
<1>1. Init => IngressInv
  BY ConstantsAssumption
  DEF Init, ClusterInit, IngressInv, WorkerObject, IngressTracked, SpecRev
<1>2. Inv /\ IngressInv /\ [Next]_vars => IngressInv'
  BY IngressStep
<1>3. IngressInv => IngressTracked
  BY DEF IngressInv
<1> QED BY <1>1, <1>2, <1>3, InvCorrect, PTL DEF Spec
====
