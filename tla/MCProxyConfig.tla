---- MODULE MCProxyConfig ----
(* Contents of Ingresses for TLC: the host a.b with exact, prefix and empty
   paths that tie and overlap, a wildcard host and the default host.        *)
EXTENDS ProxyConfig

CONSTANTS c1, c2   \* certificates

AB == <<"a", "b">>
CB == <<"c", "b">>
Wild == <<"*", "b">>
Hosts == {AB, CB, Wild, DefaultHost}

Root == <<"/">>
A == <<"/", "a">>
ASlash == <<"/", "a", "/">>
ABPath == <<"/", "a", "b">>
AllPaths == {<<>>, Root, A, ASlash, ABPath}

rule(h, p, t) == [host |-> h, path |-> p, pathType |-> t, service |-> TRUE]
crt(h, c) == [host |-> h, cert |-> c]

Overlap == [rules |-> <<rule(AB, Root, "Prefix"), rule(AB, A, "Exact"), rule(AB, ABPath, "Prefix")>>,
            tls |-> <<crt(AB, c1)>>]
Tie == [rules |-> <<rule(AB, ASlash, "Prefix"), [rule(AB, A, "Prefix") EXCEPT !.service = FALSE],
                    rule(AB, A, "nil")>>,
        tls |-> <<crt(AB, c2), crt(AB, c1), crt(CB, c1)>>]
Empty == [rules |-> <<rule(AB, <<>>, "ImplementationSpecific"), rule(DefaultHost, Root, "Prefix")>>,
          tls |-> <<>>]
Wildcard == [rules |-> <<rule(Wild, Root, "Prefix"), rule(AB, A, "Prefix")>>, tls |-> <<crt(Wild, c2)>>]

AllSpecs == {Overlap, Tie, Empty, Wildcard}
====
