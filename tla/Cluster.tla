---- MODULE Cluster ----
(***************************************************************************)
(* The Kubernetes side as the controller sees it: the objects in the       *)
(* informer caches (which serve every Get and List of k8sClient) and the   *)
(* notifications the informers have not yet handed to the watch handlers   *)
(* of reconcile.go.  The API server and client-go are not in the           *)
(* repository; they are modelled from how pkg/controller uses them:        *)
(* an informer updates its cache before it queues the notification, and    *)
(* each kind has an informer of its own, so nothing orders two kinds.      *)
(***************************************************************************)
EXTENDS Naturals, Sequences, FiniteSets

CONSTANTS
  Ingresses,      \* names of Ingress objects
  Classes,        \* names of IngressClass objects
  Secrets,        \* names of Secret objects
  Services,       \* names of Service objects
  ConfigMap,      \* the name of the ConfigMap envConfig.ControllerConfigMap
  NONE,           \* no object, a nil pointer
  IngressSpecs,   \* the contents an Ingress may be given
  Confs,          \* the contents config.yaml may be given
  InitConf,       \* config.yaml when the cluster starts
  OwnClasses,     \* the classes that name this controller when the cluster starts
  Churn,          \* bound: the kinds of change this instance explores
  MaxRev          \* bound: how many changes the cluster makes

Objects == Secrets \cup Services

Kind == {"ours", "other", "none"}   \* spec.controller of a class, "none": no such class

(* class: spec.ingressClassName.  backends: the Services of the paths and the
   Secrets the modules ask for.  tls: the Secrets of spec.tls.                *)
SpecShape == [class: Classes \cup {NONE}, backends: SUBSET Objects, tls: SUBSET Secrets]

(* clients: the Secrets the modules read (the OIDC clients).  tls: the default
   certificate.  upstream: the Service the status is copied from.  tcp: the
   Services behind the TCP proxies.                                           *)
ConfShape == [clients: SUBSET Secrets, tls: Secrets \cup {NONE},
              upstream: Services \cup {NONE}, tcp: SUBSET Services,
              disableStatus: BOOLEAN]

ASSUME ConstantsAssumption ==
  /\ IngressSpecs \subseteq SpecShape
  /\ Confs \subseteq ConfShape
  /\ InitConf \in Confs
  /\ OwnClasses \subseteq Classes
  /\ Ingresses \cap Objects = {} /\ Secrets \cap Services = {}
  /\ ConfigMap \notin Ingresses \cup Objects
  /\ NONE \notin Ingresses \cup Classes \cup Objects \cup Confs \cup {ConfigMap}
  /\ MaxRev \in Nat

VARIABLES
  rev,          \* the resource version of the last change
  ingObj,       \* Ingress objects: NONE or [spec, rev, lb], lb: status is set
  classObj,     \* IngressClass objects
  objRev,       \* Secrets and Services: 0 when missing or unusable, else a revision
  cm,           \* config.yaml, NONE when missing or not parsable
  events,       \* undelivered notifications: names of Ingresses, Objects, the ConfigMap
  classEvents   \* undelivered notifications of each class, in order

cluster == <<rev, ingObj, classObj, objRev, cm>>
informers == <<events, classEvents>>

IngObject == [spec: IngressSpecs, rev: Nat, lb: BOOLEAN]

ClusterTypeOK ==
  /\ rev \in Nat
  /\ ingObj \in [Ingresses -> IngObject \cup {NONE}]
  /\ classObj \in [Classes -> Kind]
  /\ objRev \in [Objects -> Nat]
  /\ cm \in Confs \cup {NONE}
  /\ events \subseteq Ingresses \cup Objects \cup {ConfigMap}
  /\ classEvents \in [Classes -> Seq(Kind)]

(* A process that starts gets one notification for each object there is. *)
FreshEvents ==
  {i \in Ingresses : ingObj[i] # NONE} \cup {o \in Objects : objRev[o] # 0}
    \cup {c \in {ConfigMap} : cm # NONE}

FreshClassEvents ==
  [c \in Classes |-> IF classObj[c] = "none" THEN <<>> ELSE <<classObj[c]>>]

(* A cluster that holds every Secret and Service and no Ingress yet. *)
ClusterInit ==
  /\ rev = 1
  /\ ingObj = [i \in Ingresses |-> NONE]
  /\ classObj = [c \in Classes |-> IF c \in OwnClasses THEN "ours" ELSE "other"]
  /\ objRev = [o \in Objects |-> 1]
  /\ cm = InitConf
  /\ events = FreshEvents /\ classEvents = FreshClassEvents

(***************************************************************************)
(* Changes users make to the cluster.                                      *)
(***************************************************************************)
Change(kind) ==
  /\ kind \in Churn
  /\ rev < MaxRev
  /\ rev' = rev + 1

ApplyIngress(i, s) ==
  /\ Change("ingress")
  /\ ingObj' = [ingObj EXCEPT ![i] = [spec |-> s, rev |-> rev + 1,
                                      lb |-> IF @ = NONE THEN FALSE ELSE @.lb]]
  /\ events' = events \cup {i}
  /\ UNCHANGED <<classObj, objRev, cm, classEvents>>

DeleteIngress(i) ==
  /\ ingObj[i] # NONE
  /\ Change("ingress")
  /\ ingObj' = [ingObj EXCEPT ![i] = NONE]
  /\ events' = events \cup {i}
  /\ UNCHANGED <<classObj, objRev, cm, classEvents>>

CreateClass(c, k) ==
  /\ classObj[c] = "none"
  /\ Change("class")
  /\ classObj' = [classObj EXCEPT ![c] = k]
  /\ classEvents' = [classEvents EXCEPT ![c] = Append(@, k)]
  /\ UNCHANGED <<ingObj, objRev, cm, events>>

DeleteClass(c) ==
  /\ classObj[c] # "none"
  /\ Change("class")
  /\ classObj' = [classObj EXCEPT ![c] = "none"]
  /\ classEvents' = [classEvents EXCEPT ![c] = Append(@, "none")]
  /\ UNCHANGED <<ingObj, objRev, cm, events>>

(* Create, update, or make usable again. *)
ApplyObject(o) ==
  /\ Change("object")
  /\ objRev' = [objRev EXCEPT ![o] = rev + 1]
  /\ events' = events \cup {o}
  /\ UNCHANGED <<ingObj, classObj, cm, classEvents>>

(* Delete, or update to something unusable (no certificate, no cluster IP). *)
DeleteObject(o) ==
  /\ objRev[o] # 0
  /\ Change("object")
  /\ objRev' = [objRev EXCEPT ![o] = 0]
  /\ events' = events \cup {o}
  /\ UNCHANGED <<ingObj, classObj, cm, classEvents>>

ApplyConfigMap(m) ==
  /\ m # cm
  /\ Change("configmap")
  /\ cm' = m
  /\ events' = events \cup {ConfigMap}
  /\ UNCHANGED <<ingObj, classObj, objRev, classEvents>>

ClusterNext ==
  \/ \E i \in Ingresses : DeleteIngress(i) \/ \E s \in IngressSpecs : ApplyIngress(i, s)
  \/ \E c \in Classes : DeleteClass(c) \/ \E k \in {"ours", "other"} : CreateClass(c, k)
  \/ \E o \in Objects : ApplyObject(o) \/ DeleteObject(o)
  \/ \E m \in Confs \cup {NONE} : ApplyConfigMap(m)
====
