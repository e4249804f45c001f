SPECIFICATION FairSpec
CONSTANTS
  i1 = i1
  c1 = c1
  s1 = s1
  v1 = v1
  NONE = NONE
  ConfigMap = ConfigMap
  Ingresses = {i1}
  Classes = {c1}
  Secrets = {}
  Services = {v1}
  IngressSpecs <- RoutedOnly
  Confs <- PlainOnly
  InitConf <- Plain
  OwnClasses = {c1}
  Churn = {"ingress", "class", "object"}
  MaxRev = 3
  ChanCap = 1
PROPERTY Convergence
