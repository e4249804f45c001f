---- MODULE MCOidc ----
(* Two tabs of one browser. *)
EXTENDS Oidc
====
