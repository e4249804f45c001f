---- MODULE MCRequest ----
(* One client, which connects to a TCP proxy or sends a request. *)
EXTENDS Request, TLC

CONSTANTS proxyAddr, client, other

MCAddresses == {proxyAddr, client, other}

Ann(good, bad, partial) ==
  [a \in Annotated |-> IF a \in good THEN "good" ELSE IF a \in bad THEN "bad"
                       ELSE IF a \in partial THEN "partial" ELSE "absent"]

Ing(ann, size) == [ann |-> ann, allow |-> {client}, maxBody |-> size, emptyPath |-> FALSE]

MCIngresses ==
  { Ing(Ann({"ip", "basic", "header"}, {}, {}), [n |-> 1, unit |-> "k"]),
    Ing(Ann({"https", "forward", "oidc", "deny", "upstreamHeader"}, {}, {}), [n |-> 9, unit |-> "kib"]),
    Ing(Ann({}, {"oidc"}, {}), Nil),
    [Ing(Ann({}, {"header"}, {"basic", "forward"}), [n |-> 17, unit |-> "kib"]) EXCEPT !.emptyPath = TRUE],
    Ing(Ann({}, {}, {}), [n |-> 1, unit |-> "x"]) }

MCCommons ==
  { [https |-> FALSE, trusted |-> {proxyAddr}, maxBody |-> Nil],
    [https |-> TRUE, trusted |-> {}, maxBody |-> [n |-> 2, unit |-> "kib"]],
    [https |-> FALSE, trusted |-> {}, maxBody |-> [n |-> 9999, unit |-> "one"]] }

Get == [tls |-> TRUE, peer |-> client, forwarded |-> "none", method |-> "GET", host |-> "site",
        path |-> "/", password |-> "right", upgrade |-> FALSE, body |-> 0]

MCKinds ==
  { Get,
    [Get EXCEPT !.tls = FALSE, !.upgrade = TRUE, !.path = "/admin"],
    [Get EXCEPT !.upgrade = TRUE],
    [Get EXCEPT !.peer = proxyAddr, !.forwarded = client, !.password = "wrong"],
    [Get EXCEPT !.peer = other, !.forwarded = client, !.method = "HEAD"],
    [Get EXCEPT !.peer = proxyAddr, !.forwarded = "invalid", !.password = "none"],
    [Get EXCEPT !.method = "POST", !.body = 2000],
    [Get EXCEPT !.password = "none", !.path = "/admin"],
    [Get EXCEPT !.host = "callback", !.path = "/callback"],
    [Get EXCEPT !.path = "/nowhere"], [Get EXCEPT !.host = "unknown"], [Get EXCEPT !.host = "invalid"] }
====
