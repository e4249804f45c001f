SPECIFICATION Spec
CONSTANTS
  Names = {i1, i2}
  HostNames <- Hosts
  Paths <- AllPaths
  c1 = c1
  c2 = c2
  Certs = {c1, c2}
  DefaultTls = DefaultTls
  Specs <- AllSpecs
  NONE = NONE
  PANIC = PANIC
INVARIANTS
  TypeOK
  LookupBest
  RoutesConserved
  CertificateOfSomeIngress
  HostMostSpecific
