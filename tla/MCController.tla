---- MODULE MCController ----
(***************************************************************************)
(* The contents of Ingresses and of config.yaml that the TLC instances of  *)
(* Controller use; the .cfg files choose among them.                       *)
(***************************************************************************)
EXTENDS Controller

CONSTANTS i1, c1, s1, v1

(* An Ingress whose Secret is read twice, by a module and for TLS. *)
Auth == [class |-> c1, backends |-> {s1}, tls |-> {s1}]
Routed == [class |-> c1, backends |-> {v1}, tls |-> {}]
Bare == [class |-> c1, backends |-> {}, tls |-> {}]
NoClass == [class |-> NONE, backends |-> {}, tls |-> {}]

Plain == [clients |-> {}, tls |-> NONE, upstream |-> NONE, tcp |-> {}, disableStatus |-> TRUE]
Client == [Plain EXCEPT !.clients = {s1}]
Cert == [Plain EXCEPT !.tls = s1]
(* Everything the common configuration can refer to. *)
Rich == [clients |-> {s1}, tls |-> s1, upstream |-> v1, tcp |-> {v1}, disableStatus |-> FALSE]

AuthOrNoClass == {Auth, NoClass}
RoutedOnly == {Routed}
BareOnly == {Bare}
NoSpecs == {}
PlainOnly == {Plain}
ClientOnly == {Client}
PlainOrClient == {Plain, Client}
CertOrRich == {Cert, Rich}
====
