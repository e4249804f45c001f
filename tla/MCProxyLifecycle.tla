---- MODULE MCProxyLifecycle ----
(* Two of the four HTTP servers, one of them QUIC, and at most one TCP proxy. *)
EXTENDS ProxyLifecycle

MCOrder == <<"https", "quic">>
MCTcpConfigs == {<<>>, <<"tcp">>}
====
