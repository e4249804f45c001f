SPECIFICATION Spec
CONSTANTS
  i1 = i1
  c1 = c1
  s1 = s1
  v1 = v1
  NONE = NONE
  ConfigMap = ConfigMap
  Ingresses = {}
  Classes = {}
  Secrets = {s1}
  Services = {}
  IngressSpecs <- NoSpecs
  Confs <- PlainOrClient
  InitConf <- Plain
  OwnClasses = {}
  Churn = {"object", "configmap"}
  MaxRev = 3
  ChanCap = 1
INVARIANT ModuleTracked
