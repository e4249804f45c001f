SPECIFICATION Spec
CONSTANTS
  i1 = i1
  c1 = c1
  s1 = s1
  v1 = v1
  NONE = NONE
  ConfigMap = ConfigMap
  Ingresses = {i1}
  Classes = {c1}
  Secrets = {s1}
  Services = {}
  IngressSpecs <- BareOnly
  Confs <- ClientOnly
  InitConf <- Client
  OwnClasses = {c1}
  Churn = {"ingress", "object"}
  MaxRev = 3
  ChanCap = 1
INVARIANT OneModuleGeneration
