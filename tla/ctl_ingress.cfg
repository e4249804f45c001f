SPECIFICATION Spec
CONSTANTS
  i1 = i1
  c1 = c1
  s1 = s1
  v1 = v1
  NONE = NONE
  ConfigMap = ConfigMap
  Ingresses = {i1}
  Classes = {c1}
  Secrets = {s1}
  Services = {}
  IngressSpecs <- AuthOrNoClass
  Confs <- PlainOnly
  InitConf <- Plain
  OwnClasses = {c1}
  Churn = {"ingress", "class", "object"}
  MaxRev = 4
  ChanCap = 1
INVARIANTS
  TypeOK
  NoLostReconfigure
  ObjectTracked
  IngressTracked
  RelevanceTracked
  RoutesSettled
