---- MODULE RequestProofs ----
(***************************************************************************)
(* The invariant of serving requests holds throughout, for any Ingresses,  *)
(* common configurations, requests and number of clients.                  *)
(***************************************************************************)
EXTENDS RequestChain

(* A request moves on without an answer: pc changes, and perhaps the chain. *)
LEMMA MoveOK ==
  ASSUME RequestInv, NEW r \in Clients, pc[r] \in {"chain", "connect"},
         NEW to \in {"chain", "websocket", "connect", "roundTrip", "panicked"},
         to = "panicked" => pc[r] = "chain" /\ AtEmptyPath(r),
         pc' = [pc EXCEPT ![r] = to],
         UNCHANGED <<routingConfig, kind, conf, granted, headers, final, writerVars, err>>,
         stage' \in [Clients -> {"requests", "route"}], rest' \in [Clients -> SUBSET ModuleNames],
         \A q \in Clients \ {r} : stage'[q] = stage[q] /\ rest'[q] = rest[q],
         StreamsInv', \A q \in Clients \ {r} : Kept(q), r \notin tcp',
         to = "websocket" \/ main'[r] = "idle",
         ChainOK(r)'
  PROVE  RequestInv'
<1>1. TypeOK /\ ResponseOK(r) /\ ChainOK(r)
  BY DEF RequestInv
<1>2. TypeOK'
  <2>1. StreamsTypeOK'
    BY DEF StreamsInv
  <2>2. kind[r] \in Kinds /\ conf[r] # Nil
    BY <1>1 DEF TypeOK
  <2> QED BY <1>1, <2>1, <2>2 DEF TypeOK, writerVars
<1>3. ResponseOK(r)'
  <2>1. Silent(r)' /\ pc'[r] = to
    BY <1>1 DEF ResponseOK, Silent, writerVars, TypeOK
  <2>2. to = "panicked" => AtEmptyPath(r)'
    BY DEF AtEmptyPath
  <2> QED BY <2>1, <2>2 DEF ResponseOK
<1>4. \A q \in Clients \ {r} : Same(q)
  BY <1>1 DEF Same, TypeOK, writerVars
<1>5. \A q \in Clients \ {r} : ResponseOK(q)' /\ ChainOK(q)'
  BY <1>4, SameOK DEF RequestInv
<1> QED BY <1>2, <1>3, <1>5 DEF RequestInv

(* The same, with streams left alone. *)
LEMMA StreamsSame ==
  ASSUME StreamsInv, UNCHANGED streamVars
  PROVE  StreamsInv' /\ \A q \in Clients : Kept(q)
<1>1. StreamsInv'
  BY DEF streamVars, StreamsInv, StreamsTypeOK, StreamOK, CopiersOff, CopiersOn, CopiersDone, CloseBoth
<1>2. \A q \in Clients : Kept(q)
  BY KeptSame DEF streamVars
<1> QED BY <1>1, <1>2

(* The connection of a request that moves on stays with the HTTP server. *)
LEMMA ServerKeeps ==
  ASSUME RequestInv, NEW r \in Clients, pc[r] \in {"chain", "connect"}, UNCHANGED streamVars
  PROVE  /\ StreamsInv' /\ \A q \in Clients \ {r} : Kept(q)
         /\ r \notin tcp' /\ main'[r] = "idle"
<1>1. StreamsInv /\ r \notin tcp /\ main[r] = "idle"
  BY DEF RequestInv, ResponseOK
<1> QED BY <1>1, StreamsSame DEF streamVars

(* The request is handed to the WebSocket module: all checks are behind it. *)
LEMMA SocketOK ==
  ASSUME RequestInv, NEW r \in Clients, websocket(r)
  PROVE  RequestInv'
<1>1. CASE ~kind[r].upgrade
  BY <1>1, PlainOK DEF websocket, Passes
<1>2. CASE kind[r].upgrade
  <2>1. /\ TypeOK /\ StreamsInv /\ ChainOK(r) /\ Calls(r, "route", "websocket") /\ handleWebSocket(r)
        /\ pc' = [pc EXCEPT ![r] = "websocket"]
        /\ UNCHANGED <<routingConfig, chainVars, writerVars, err>>
    BY <1>2 DEF websocket, RequestInv
  <2>2. /\ StreamsInv' /\ r \notin tcp'
        /\ \A q \in Clients \ {r} : Kept(q)
    <3>1. r \notin tcp /\ UNCHANGED <<tcp, ends, copier>> /\ \A q \in Clients \ {r} : main'[q] = main[q]
      BY <2>1 DEF handleWebSocket, notSetup, RequestInv, ResponseOK, Calls, StreamsInv, StreamsTypeOK
    <3> QED BY <2>1, <3>1, WebSocketOK, KeptSame
  <2>3. rest[r] \cap Checks = {}
    <3>1. \A n \in rest[r] \ {"websocket"} : Before("websocket", n)
      BY <2>1 DEF Calls
    <3>2. "websocket" \notin Checks
      BY DEF Checks
    <3> QED BY <3>1, <3>2, SocketAfterChecks
  <2>4. pc[r] = "chain" /\ stage[r] = "route" /\ pc'[r] = "websocket"
    BY <2>1 DEF Calls, TypeOK
  <2>5. \A m : Passes(r, m) => Passes(r, m)'
    BY <2>1 DEF Passes, RealIp, chainVars
  <2>6. ChainOK(r)'
    BY <2>1, <2>3, <2>4, <2>5 DEF ChainOK, chainVars
  <2>7. /\ stage' \in [Clients -> {"requests", "route"}] /\ rest' \in [Clients -> SUBSET ModuleNames]
        /\ \A q \in Clients \ {r} : stage'[q] = stage[q] /\ rest'[q] = rest[q]
    BY <2>1 DEF chainVars, TypeOK
  <2>8. UNCHANGED <<routingConfig, kind, conf, granted, headers, final, writerVars, err>>
    BY <2>1 DEF chainVars
  <2> QED BY <2>1, <2>2, <2>4, <2>6, <2>7, <2>8, MoveOK, Zenon
<1> QED BY <1>1, <1>2

(* The ends of handleWebSocket. *)
LEMMA SocketDoneOK ==
  ASSUME RequestInv, NEW r \in Clients, webSocketDone(r)
  PROVE  RequestInv'
<1>1. /\ Silent(r) /\ r \notin tcp /\ StreamOK(r) /\ pc[r] = "websocket" /\ main[r] = "ended"
  BY DEF RequestInv, ResponseOK, StreamsInv, webSocketDone
<1>2. CASE (ends[r]["up"] = "none" \/ UpgradeLost(r)) /\ Fail(r)
  <2>1. Free(r) \/ UpgradeLost(r)
    BY <1>1, <1>2 DEF StreamOK, Free, CloseBoth, End
  <2> QED BY <1>1, <1>2, <2>1, ReturnOK, Zenon DEF Fail
<1>3. CASE ends[r]["down"] = "none" /\ WriteHeader(r, 400) /\ Return(r, TRUE)
  <2>1. (\E code \in Codes : WriteHeader(r, code)) /\ Free(r)
    BY <1>1, <1>3 DEF Codes, Free
  <2> QED BY <1>1, <1>3, <2>1, ReturnOK, Zenon
<1>4. CASE ends[r]["down"] # "none" /\ ~UpgradeLost(r) /\ Return(r, FALSE) /\ UNCHANGED writerVars
  <2>1. Upgraded(r)
    BY <1>1, <1>4 DEF StreamOK, UpgradeLost, Upgraded, CopiersOff
  <2> QED BY <1>1, <1>4, <2>1, ReturnOK, Zenon
<1> QED BY <1>2, <1>3, <1>4, Zenon DEF webSocketDone

(* handleHttp and proxyRoute: an error page, or the chain of the route. *)
LEMMA HandleHttpOK ==
  ASSUME RequestInv, NEW r \in Clients, handleHttp(r)
  PROVE  RequestInv'
<1>1. /\ TypeOK /\ StreamsInv /\ ChainOK(r)
      /\ pc[r] = "chain" /\ stage[r] = "requests" /\ rest[r] = {}
  BY DEF RequestInv, ResponseOK, handleHttp, ChainEnds
<1>2. CASE \E code \in Codes : handleErrorPage(r, code)
  BY <1>1, <1>2, AnswerOK
<1>3. CASE /\ Routed(r) /\ stage' = [stage EXCEPT ![r] = "route"]
           /\ rest' = [rest EXCEPT ![r] = conf[r].route.middlewares]
           /\ UNCHANGED <<routingConfig, pc, kind, conf, granted, headers, final, writerVars, err,
                          streamVars>>
  <2>1. conf[r] \in RoutingConfig /\ conf[r].route # Nil
    BY <1>1, <1>3 DEF ChainOK, Routed
  <2>2. conf[r].route.middlewares \subseteq ModuleNames
    BY <2>1, MiddlewaresNamed
  <2>3. stage'[r] = "route" /\ rest'[r] = conf[r].route.middlewares /\ pc'[r] = "chain"
    BY <1>1, <1>3 DEF TypeOK
  <2>4. ChainOK(r)'
    BY <1>1, <1>3, <2>1, <2>3 DEF ChainOK
  <2>5. stage' \in [Clients -> {"requests", "route"}] /\ rest' \in [Clients -> SUBSET ModuleNames]
    BY <1>1, <1>3, <2>2 DEF TypeOK
  <2>6. pc' = [pc EXCEPT ![r] = "chain"]
    BY <1>1, <1>3 DEF TypeOK
  <2>7. \A q \in Clients \ {r} : stage'[q] = stage[q] /\ rest'[q] = rest[q]
    BY <1>1, <1>3 DEF TypeOK
  <2>8. StreamsInv' /\ (\A q \in Clients \ {r} : Kept(q)) /\ r \notin tcp' /\ main'[r] = "idle"
    BY <1>1, <1>3, ServerKeeps, Zenon
  <2>9. UNCHANGED <<routingConfig, kind, conf, granted, headers, final, writerVars, err>>
    BY <1>3
  <2> QED BY <1>1, <2>4, <2>5, <2>6, <2>7, <2>8, <2>9, MoveOK, Zenon
<1>4. CASE AtEmptyPath(r) /\ Panic(r)
  <2>1. /\ pc' = [pc EXCEPT ![r] = "panicked"] /\ UNCHANGED <<stage, rest, streamVars>>
        /\ UNCHANGED <<routingConfig, kind, conf, granted, headers, final, writerVars, err>>
    BY <1>4 DEF Panic, chainVars
  <2>2. StreamsInv' /\ (\A q \in Clients \ {r} : Kept(q)) /\ r \notin tcp' /\ main'[r] = "idle"
    BY <1>1, <2>1, ServerKeeps, Zenon
  <2>3. /\ stage' \in [Clients -> {"requests", "route"}] /\ rest' \in [Clients -> SUBSET ModuleNames]
        /\ pc'[r] = "panicked"
    BY <1>1, <2>1 DEF TypeOK
  <2>4. ChainOK(r)'
    BY <1>1, <2>1, <2>3 DEF ChainOK
  <2> QED BY <1>1, <1>4, <2>1, <2>2, <2>3, <2>4, MoveOK, Zenon
<1> QED BY <1>2, <1>3, <1>4 DEF handleHttp, proxyRoute, Codes

(* From the end of the chain to the round trip. *)
LEMMA ProxyOK ==
  ASSUME RequestInv, NEW r \in Clients, proxy(r) \/ NewClientConn(r)
  PROVE  RequestInv'
<1>1. TypeOK /\ StreamsInv /\ ChainOK(r) /\ pc[r] \in {"chain", "connect"}
  BY DEF RequestInv, proxy, ChainEnds, NewClientConn
<1>2. CASE handleErrorPage(r, 502)
  BY <1>1, <1>2, AnswerOK DEF Codes
<1>3. ASSUME NEW to \in {"connect", "roundTrip"}, pc' = [pc EXCEPT ![r] = to],
             stage[r] = "route", rest[r] = {},
             UNCHANGED <<routingConfig, chainVars, writerVars, err, streamVars>>
      PROVE  RequestInv'
  <2>1. pc'[r] = to
    BY <1>1, <1>3 DEF TypeOK
  <2>2. \A m : Passes(r, m) => Passes(r, m)'
    BY <1>3 DEF Passes, RealIp, chainVars
  <2>3. ChainOK(r)'
    BY <1>1, <1>3, <2>1, <2>2 DEF ChainOK, chainVars
  <2>4. StreamsInv' /\ (\A q \in Clients \ {r} : Kept(q)) /\ r \notin tcp' /\ main'[r] = "idle"
    BY <1>1, <1>3, ServerKeeps, Zenon
  <2>5. /\ UNCHANGED <<routingConfig, kind, conf, granted, headers, final, writerVars, err>>
        /\ UNCHANGED <<stage, rest>>
    BY <1>3 DEF chainVars
  <2>6. /\ stage' \in [Clients -> {"requests", "route"}] /\ rest' \in [Clients -> SUBSET ModuleNames]
        /\ \A q \in Clients \ {r} : stage'[q] = stage[q] /\ rest'[q] = rest[q]
    BY <1>1, <2>5 DEF TypeOK
  <2> QED BY <1>1, <1>3, <2>3, <2>4, <2>5, <2>6, MoveOK, Zenon
<1>4. CASE proxy(r)
  BY <1>3, <1>4 DEF proxy, ChainEnds
<1>5. CASE NewClientConn(r)
  <2>1. stage[r] = "route" /\ rest[r] = {}
    BY <1>1, <1>5, Zenon DEF NewClientConn, ChainOK
  <2> QED BY <1>2, <1>3, <1>5, <2>1, Zenon DEF NewClientConn
<1> QED BY <1>4, <1>5

(* The answer of the upstream, with the headers of the modules over its own. *)
LEMMA RoundTripOK ==
  ASSUME RequestInv, NEW r \in Clients, RoundTrip(r)
  PROVE  RequestInv'
<1>1. /\ TypeOK /\ StreamsInv /\ ChainOK(r) /\ Silent(r) /\ Free(r) /\ pc[r] = "roundTrip"
      /\ r \notin tcp /\ main[r] = "idle"
  <2>1. TypeOK /\ StreamsInv /\ ChainOK(r) /\ ResponseOK(r) /\ pc[r] = "roundTrip"
    BY DEF RequestInv, RoundTrip
  <2> QED BY <2>1, AtServer DEF ResponseOK
<1>2. CASE Reply(r, 413) \/ handleErrorPage(r, 502)
  BY <1>1, <1>2, AnswerOK DEF Codes
<1>3. ASSUME NEW up \in SUBSET HeaderNames,
             final' = [final EXCEPT ![r] = [h \in HeaderNames |-> setResponseHeaders(r, h, up)]],
             WriteHeader(r, 200), pc' = [pc EXCEPT ![r] = "copy"],
             UNCHANGED <<routingConfig, kind, conf, stage, rest, granted, headers, err, streamVars>>
      PROVE  RequestInv'
  <2>1. StreamsInv' /\ (\A q \in Clients : Kept(q)) /\ r \notin tcp' /\ main'[r] = "idle"
    BY <1>1, <1>3, StreamsSame DEF streamVars
  <2>2. /\ WriterType' /\ Answered(r)'
        /\ \A q \in Clients \ {r} : status'[q] = status[q] /\ writes'[q] = writes[q]
    <3>1. WriterType /\ 200 \in Codes
      BY <1>1 DEF TypeOK, WriterType, Codes
    <3> QED BY <1>1, <1>3, <3>1, WriteOK
  <2>3. [h \in HeaderNames |-> setResponseHeaders(r, h, up)]
          \in [HeaderNames -> {"none", "module", "upstream"}]
    BY DEF setResponseHeaders
  <2>4. \A h \in headers[r] : final'[r][h] = "module"
    BY <1>1, <1>3 DEF TypeOK, setResponseHeaders
  <2>5. TypeOK'
    <3>1. StreamsTypeOK'
      BY <2>1 DEF StreamsInv
    <3>2. final' \in [Clients -> [HeaderNames -> {"none", "module", "upstream"}]]
      BY <1>1, <1>3, <2>3 DEF TypeOK
    <3>3. pc' \in [Clients -> {"idle", "chain", "websocket", "connect", "roundTrip", "copy",
                               "returned", "done", "panicked"}]
          /\ \A q \in Clients : pc'[q] \notin {"idle", "returned", "done"} =>
               kind'[q] \in Kinds /\ conf'[q] # Nil
      BY <1>1, <1>3 DEF TypeOK
    <3> QED BY <1>1, <1>3, <2>2, <3>1, <3>2, <3>3 DEF TypeOK, WriterType, Codes
  <2>6. pc'[r] = "copy" /\ \A q \in Clients \ {r} : Same(q)
    <3>1. r \in Clients /\ DOMAIN pc = Clients /\ DOMAIN final = Clients
      BY <1>1, Domains
    <3> QED BY ONLY <1>3, <2>2, <3>1 DEF Same
  <2>7. \A m : Passes(r, m) => Passes(r, m)'
    BY <1>3 DEF Passes, RealIp
  <2>8. ResponseOK(r)'
    BY <2>1, <2>2, <2>6 DEF ResponseOK
  <2>9. ChainOK(r)'
    BY <1>1, <1>3, <2>4, <2>6, <2>7, Zenon DEF ChainOK
  <2>10. \A q \in Clients \ {r} : ResponseOK(q)' /\ ChainOK(q)'
    BY <2>1, <2>6, SameOK DEF RequestInv
  <2> QED BY <2>1, <2>5, <2>8, <2>9, <2>10 DEF RequestInv
<1> QED BY <1>2, <1>3, Zenon DEF RoundTrip

(* The body of the response is under way. *)
LEMMA CopyBodyOK ==
  ASSUME RequestInv, NEW r \in Clients, copyBody(r)
  PROVE  RequestInv'
<1>1. Answered(r) /\ pc[r] # "idle"
  BY DEF RequestInv, ResponseOK, copyBody
<1>2. PICK e \in BOOLEAN : Return(r, e) /\ UNCHANGED writerVars
  BY DEF copyBody
<1> QED BY <1>1, <1>2, ReturnOK

(* ServeHTTP, before and after its chain. *)
LEMMA ServeOK ==
  ASSUME RequestInv, NEW r \in Clients, ServeHTTP(r) \/ chainReturned(r)
  PROVE  RequestInv'
<1>1. TypeOK /\ StreamsInv /\ ResponseOK(r) /\ ChainOK(r) /\ WriterType
  BY DEF RequestInv, TypeOK, WriterType, Codes
<1>2. /\ StreamsInv' /\ \A q \in Clients : Kept(q)
      /\ r \notin tcp /\ r \notin tcp'
  <2>1. UNCHANGED streamVars /\ r \notin tcp
    BY <1>1, Zenon DEF ServeHTTP, chainReturned, ResponseOK
  <2> QED BY <1>1, <2>1, StreamsSame DEF streamVars
<1>3. ASSUME pc' = [pc EXCEPT ![r] = "done"], UNCHANGED <<routingConfig, chainVars, err, streamVars>>,
             \/ Silent(r) /\ Free(r) /\ \E code \in Codes : WriteHeader(r, code)
             \/ Silent(r) /\ UpgradeLost(r) /\ WriteHeader(r, 500)
             \/ (Answered(r) \/ (Silent(r) /\ Upgraded(r))) /\ UNCHANGED writerVars
      PROVE  RequestInv'
  <2>1. /\ WriterType'
        /\ \A q \in Clients \ {r} : status'[q] = status[q] /\ writes'[q] = writes[q]
        /\ \/ Answered(r)' \/ (Silent(r)' /\ Upgraded(r))
           \/ writes'[r] = 0 /\ status'[r] = 500 /\ UpgradeLost(r)
    <3>1. CASE Silent(r) /\ Free(r) /\ \E code \in Codes : WriteHeader(r, code)
      BY <1>1, <3>1, WriteOK
    <3>3. CASE Silent(r) /\ UpgradeLost(r) /\ WriteHeader(r, 500)
      <4>1. writes' = writes /\ status' = [status EXCEPT ![r] = 500]
        BY <1>1, <3>3 DEF WriteHeader, UpgradeLost, WriterType
      <4> QED BY <1>1, <3>3, <4>1 DEF WriterType, Silent, Codes
    <3>2. CASE (Answered(r) \/ (Silent(r) /\ Upgraded(r))) /\ UNCHANGED writerVars
      BY <1>1, <3>2 DEF writerVars, WriterType, Answered, Silent
    <3> QED BY <1>3, <3>1, <3>2, <3>3
  <2>2. pc'[r] = "done" /\ \A q \in Clients \ {r} : Same(q)
    <3>1. r \in Clients /\ DOMAIN pc = Clients
      BY <1>1, Domains
    <3> QED BY ONLY <1>3, <2>1, <3>1 DEF Same, chainVars
  <2>3. TypeOK'
    <3>1. pc' \in [Clients -> {"idle", "chain", "websocket", "connect", "roundTrip", "copy",
                               "returned", "done", "panicked"}]
          /\ \A q \in Clients : pc'[q] \notin {"idle", "returned", "done"} =>
               kind'[q] \in Kinds /\ conf'[q] # Nil
      BY <1>1, <1>3 DEF TypeOK, chainVars
    <3>2. StreamsTypeOK'
      BY <1>2 DEF StreamsInv
    <3> QED BY <1>1, <1>3, <2>1, <3>1, <3>2 DEF TypeOK, WriterType, Codes, chainVars
  <2>4. ResponseOK(r)' /\ ChainOK(r)'
    <3>1. (Upgraded(r) => Upgraded(r)') /\ (UpgradeLost(r) => UpgradeLost(r)')
      BY <1>2 DEF Kept, Upgraded
    <3> QED BY <1>2, <2>1, <2>2, <3>1 DEF ResponseOK, ChainOK
  <2>5. \A q \in Clients \ {r} : ResponseOK(q)' /\ ChainOK(q)'
    BY <1>2, <2>2, SameOK DEF RequestInv
  <2> QED BY <1>2, <2>3, <2>4, <2>5 DEF RequestInv
<1>4. CASE chainReturned(r)
  <2>1. \/ Answered(r) /\ status[r] # 0
        \/ Silent(r) /\ status[r] = 0 /\ err[r] /\ (Free(r) \/ UpgradeLost(r))
        \/ Silent(r) /\ status[r] = 0 /\ ~err[r] /\ Upgraded(r)
    BY <1>1, <1>4 DEF ResponseOK, chainReturned, Answered, Silent
  <2>2. \/ Silent(r) /\ Free(r) /\ \E code \in Codes : WriteHeader(r, code)
        \/ Silent(r) /\ UpgradeLost(r) /\ WriteHeader(r, 500)
        \/ (Answered(r) \/ (Silent(r) /\ Upgraded(r))) /\ UNCHANGED writerVars
    BY <1>4, <2>1 DEF chainReturned, Codes
  <2> QED BY <1>3, <1>4, <2>2 DEF chainReturned
<1>5. CASE ServeHTTP(r) /\ routingConfig = Nil /\ WriteHeader(r, 503)
           /\ pc' = [pc EXCEPT ![r] = "done"] /\ UNCHANGED chainVars
  <2>1. Silent(r) /\ Free(r) /\ 503 \in Codes
    <3>1. pc[r] = "idle" /\ StreamOK(r)
      BY <1>1, <1>5 DEF ServeHTTP, StreamsInv
    <3>2. Silent(r) /\ main[r] = "idle"
      BY <1>1, <1>2, <3>1 DEF ResponseOK
    <3>3. ends[r]["down"] = "none"
      BY <1>2, <3>1, <3>2 DEF StreamOK
    <3> QED BY <3>2, <3>3 DEF Codes, Free
  <2> QED BY <1>3, <1>5, <2>1 DEF ServeHTTP
<1>6. ASSUME pc[r] = "idle", routingConfig # Nil, pc' = [pc EXCEPT ![r] = "chain"],
             NEW k \in Kinds, kind' = [kind EXCEPT ![r] = k],
             conf' = [conf EXCEPT ![r] = routingConfig],
             rest' = [rest EXCEPT ![r] = getConnectionModules(routingConfig.common)],
             UNCHANGED <<stage, granted, headers, final, writerVars, routingConfig, err, streamVars>>
      PROVE  RequestInv'
  <2>1. routingConfig \in RoutingConfig
    BY <1>1, <1>6 DEF TypeOK
  <2>2. getConnectionModules(routingConfig.common) \subseteq ModuleNames
    BY ModuleNamesAre DEF getConnectionModules
  <2>3. TypeOK'
    <3>1. pc' \in [Clients -> {"idle", "chain", "websocket", "connect", "roundTrip", "copy",
                               "returned", "done", "panicked"}]
          /\ \A q \in Clients : pc'[q] \notin {"idle", "returned", "done"} =>
               kind'[q] \in Kinds /\ conf'[q] # Nil
      BY <1>1, <1>6 DEF TypeOK
    <3>2. StreamsTypeOK'
      BY <1>2 DEF StreamsInv
    <3>3. /\ conf' \in [Clients -> RoutingConfig \cup {Nil}] /\ kind' \in [Clients -> Kinds \cup {Nil}]
          /\ rest' \in [Clients -> SUBSET ModuleNames]
      BY <1>1, <1>6, <2>1, <2>2 DEF TypeOK
    <3> QED BY <1>1, <1>6, <3>1, <3>2, <3>3 DEF TypeOK, writerVars
  <2>4. /\ pc'[r] = "chain" /\ kind'[r] = k /\ conf'[r] = routingConfig /\ stage'[r] = "requests"
        /\ rest'[r] = getConnectionModules(routingConfig.common)
    <3>1. stage[r] = "requests"
      BY <1>1, <1>6 DEF ChainOK
    <3>2. /\ r \in Clients /\ DOMAIN pc = Clients /\ DOMAIN kind = Clients /\ DOMAIN conf = Clients
          /\ DOMAIN rest = Clients
      BY <1>1, Domains, Zenon
    <3>3. pc'[r] = "chain" /\ kind'[r] = k
      BY ONLY <1>6, <3>2
    <3>4. conf'[r] = routingConfig /\ rest'[r] = getConnectionModules(routingConfig.common)
      BY ONLY <1>6, <3>2
    <3> QED BY <1>6, <3>1, <3>3, <3>4
  <2>5. ChainOK(r)'
    <3>1. routingConfig.common.https => "https" \in getConnectionModules(routingConfig.common)
      BY DEF getConnectionModules
    <3>2. conf'[r] \in RoutingConfig /\ kind'[r] \in Kinds
          /\ (conf'[r].common.https => "https" \in rest'[r])
      BY <1>6, <2>1, <2>4, <3>1
    <3> QED BY <2>4, <3>2, Zenon DEF ChainOK
  <2>6. ResponseOK(r)'
    <3>1. Silent(r)' /\ main'[r] = "idle"
      BY <1>1, <1>2, <1>6 DEF ResponseOK, Silent, writerVars, Kept
    <3> QED BY <1>2, <2>4, <3>1 DEF ResponseOK
  <2>7. \A q \in Clients \ {r} : Same(q)
    <3>1. /\ DOMAIN pc = Clients /\ DOMAIN kind = Clients /\ DOMAIN conf = Clients
          /\ DOMAIN rest = Clients
      BY <1>1, Domains, Zenon
    <3> TAKE q \in Clients \ {r}
    <3>2. pc'[q] = pc[q] /\ kind'[q] = kind[q] /\ conf'[q] = conf[q] /\ rest'[q] = rest[q]
      BY ONLY <1>6, <3>1, q \in Clients \ {r}
    <3> QED BY <1>6, <3>2, Zenon DEF Same, writerVars
  <2>8. \A q \in Clients \ {r} : ResponseOK(q)' /\ ChainOK(q)'
    BY <1>2, <2>7, SameOK DEF RequestInv
  <2> QED BY <1>2, <2>3, <2>5, <2>6, <2>8 DEF RequestInv
<1> QED BY <1>4, <1>5, <1>6 DEF ServeHTTP
----------------------------------------------------------------------------
(* At the start there is neither a request nor a stream. *)
THEOREM RequestInitOK == Init => RequestInv
<1> SUFFICES ASSUME Init PROVE RequestInv
  OBVIOUS
<1>1. StreamsInv
  BY StreamsInitOK DEF Init
<1>2. NoHeaders \in [HeaderNames -> {"none", "module", "upstream"}]
  BY DEF NoHeaders
<1>3. TypeOK
  BY <1>1, <1>2 DEF Init, TypeOK, StreamsInv
<1>4. \A r \in Clients : ResponseOK(r) /\ ChainOK(r)
  BY Zenon DEF Init, StreamsInit, ResponseOK, ChainOK, Silent
<1> QED BY <1>1, <1>3, <1>4 DEF RequestInv

(* Steps that no request takes: a new RoutingConfig, and steps of streams. *)
LEMMA AroundOK ==
  ASSUME RequestInv, UNCHANGED requestVars,
         routingConfig' \in RoutingConfig \cup {Nil}, StreamsInv',
         \A q \in Clients : Kept(q) \/ (pc[q] = "idle" /\ q \in tcp')
  PROVE  RequestInv'
<1>1. TypeOK'
  BY DEF RequestInv, TypeOK, StreamsInv, requestVars, chainVars, writerVars
<1>2. \A q \in Clients : Same(q)
  BY Zenon DEF Same, requestVars, chainVars, writerVars
<1>3. \A q \in Clients : ResponseOK(q)' /\ ChainOK(q)'
  BY <1>2, SameOK DEF RequestInv
<1> QED BY <1>1, <1>3 DEF RequestInv

(* Every step, whoever takes it, preserves the invariant. *)
THEOREM RequestStepOK == RequestInv /\ [Next]_vars => RequestInv'
<1> SUFFICES ASSUME RequestInv, [Next]_vars PROVE RequestInv'
  OBVIOUS
<1>0. TypeOK /\ StreamsInv /\ StreamsTypeOK
  BY DEF RequestInv, TypeOK
<1>1. CASE Republish
  <2>1. PICK c \in Parsed, d \in Parsed, i \in Ingresses \cup {Nil} :
          LET last == IF routingConfig = Nil THEN Nil ELSE routingConfig.route
              route == IF i = Nil THEN Nil ELSE IF addPath(d, i) = Nil THEN last ELSE addPath(d, i)
          IN  routingConfig' = [common |-> c, route |-> route]
    BY <1>1 DEF Republish
  <2> DEFINE Routes == {addPath(a, b) : a \in Parsed, b \in Ingresses} \cup {Nil}
  <2>2. routingConfig # Nil => routingConfig.route \in Routes
    BY <1>0 DEF TypeOK, RoutingConfig
  <2>3. i # Nil => addPath(d, i) \in Routes
    OBVIOUS
  <2>4. routingConfig' \in [common : Parsed, route : Routes]
    <3> HIDE DEF Routes
    <3>1. Nil \in Routes
      BY DEF Routes
    <3> QED BY <2>1, <2>2, <2>3, <3>1
  <2>5. routingConfig' \in RoutingConfig
    BY <2>4 DEF RoutingConfig
  <2> QED BY <1>0, <1>1, <2>5, AroundOK, StreamsSame DEF Republish
<1>2. ASSUME NEW r \in Clients, RequestNext(r) PROVE RequestInv'
  BY <1>2, ServeOK, ConnectionOK, RouteMiddlewareOK, SocketOK, SocketDoneOK, HandleHttpOK, ProxyOK,
     RoundTripOK, CopyBodyOK DEF RequestNext, callMiddleware
<1>3. ASSUME NEW s \in Clients, pc[s] = "idle", AcceptTCP(s), UNCHANGED <<routingConfig, requestVars>>
      PROVE  RequestInv'
  <2>1. ASSUME NEW q \in Clients PROVE Kept(q) \/ (pc[q] = "idle" /\ q \in tcp')
    <3>1. CASE q = s
      BY <1>3, <3>1 DEF AcceptTCP
    <3>2. CASE q # s
      BY <1>0, <1>3, <3>2, KeptSame DEF AcceptTCP, StreamsTypeOK
    <3> QED BY <3>1, <3>2
  <2>2. StreamsInv'
    BY <1>0, <1>3, AcceptOK
  <2> QED BY <1>0, <1>3, <2>1, <2>2, AroundOK DEF TypeOK
<1>4. CASE StreamsNext /\ UNCHANGED <<routingConfig, requestVars>>
  <2>1. \A q \in Clients : Kept(q)
    BY <1>0, <1>4, StreamsKeep
  <2>2. StreamsInv'
    BY <1>0, <1>4, StreamsStepOK
  <2> QED BY <1>0, <1>4, <2>1, <2>2, AroundOK DEF TypeOK
<1>5. CASE UNCHANGED vars
  BY <1>0, <1>5, AroundOK, StreamsSame DEF vars, TypeOK
<1> QED BY <1>1, <1>2, <1>3, <1>4, <1>5 DEF Next

(* The invariant holds throughout. *)
THEOREM RequestInvCorrect == Spec => []RequestInv
BY RequestInitOK, RequestStepOK, PTL DEF Spec

(* No response is written twice, and the other types, for any number of clients. *)
THEOREM TypeCorrect == Spec => []TypeOK
BY RequestInvCorrect, PTL DEF RequestInv

(* ServeHTTP gives every request exactly one response, or its connection has become
   a WebSocket, for any Ingresses and number of clients; but for an upgrade that
   fails after the connection was taken and for the panic at an empty path.        *)
THEOREM OneResponseCorrect == Spec => []OneResponse
<1>1. RequestInv => OneResponse
  BY DEF RequestInv, ResponseOK, OneResponse, Answered, Silent, Upgraded, CopiersDone
<1> QED BY <1>1, RequestInvCorrect, PTL

(* connectTcp and handleWebSocket leave no connection open behind a stream that had
   both, for any number of streams at once.                                       *)
THEOREM NothingLeftOpenCorrect == Spec => []NothingLeftOpen
<1>1. RequestInv => NothingLeftOpen
  BY StreamsInvCloses DEF RequestInv
<1> QED BY <1>1, RequestInvCorrect, PTL

(* Two goroutines never write to one connection of a WebSocket, for any number of
   WebSockets: proxySocket and the handlers of control frames write to the other
   end, and wg.Wait keeps handleWebSocket from returning before they are done.    *)
THEOREM OneWriterCorrect == Spec => []OneWriter
<1>1. ASSUME StreamsInv, NEW s \in Clients, s \notin tcp, main[s] \notin {"watch", "wait"}, NEW e \in End
      PROVE  copier[s][e] \in {"off", "done"}
  <2>1. StreamOK(s) /\ main[s] \in {"idle", "dial", "greet", "ended"}
    BY <1>1 DEF StreamsInv, StreamsTypeOK
  <2> QED BY <1>1, <2>1 DEF StreamOK, CopiersOff, CopiersDone
<1>2. \A d, e \in End : d # e => \A c, b : Target(c, d) # Target(b, e)
  BY DEF Target, Other, End
<1>3. RequestInv => OneWriter
  BY <1>1, <1>2 DEF RequestInv, OneWriter
<1> QED BY <1>3, RequestInvCorrect, PTL

----------------------------------------------------------------------------
(* What follows about the request an upstream gets and the response a client gets. *)

(* fillRealIp: the forwarded address counts when a trusted proxy sends a valid one. *)
LEMMA RealIpIsClient ==
  ASSUME NEW r \in Clients, kind[r] \in Kinds
  PROVE  RealIp(r) = Client(conf[r].common, kind[r])
<1>1. kind[r].forwarded \in Addresses \cup {"none", "invalid"}
  BY RequestAssumption DEF RequestShape
<1> QED BY <1>1, RequestAssumption DEF RealIp, Client

(* getMiddlewares: every good annotation has its module in the chain, and a bad one
   means that there is no chain.                                                  *)
LEMMA AnnotationsCounted ==
  ASSUME NEW d \in Parsed, NEW i \in Ingresses, getMiddlewares(d, i) # Nil
  PROVE  /\ \A a \in Checks \ {"https"} : i.ann[a] # "bad"
         /\ \A a \in Checks : i.ann[a] = "good" => a \in getMiddlewares(d, i)
         /\ i.ann.header = "good" => "header" \in getMiddlewares(d, i)
<1> DEFINE Verdict(m) == IngressMiddleware(m, d, i)
<1>1. /\ \A m \in ModuleNames : Verdict(m) # "error"
      /\ getMiddlewares(d, i) = {m \in ModuleNames : Verdict(m) = "middleware"}
  BY DEF getMiddlewares
<1>2. Checks \subseteq ModuleNames /\ "header" \in ModuleNames
  BY ModuleNamesAre DEF Checks
<1>3. i.ann \in [Annotated -> Annotation]
  BY RequestAssumption DEF IngressShape
<1>4. \A a \in Checks \ {"https"} : Verdict(a) = ofAnnotation(i.ann[a])
  BY DEF Checks, IngressMiddleware, ipAuthMiddleware, basicAuthMiddleware,
         subrequestAuthMiddleware, oidcMiddleware, denyRouteMiddleware
<1>5. ofAnnotation("bad") = "error" /\ ofAnnotation("good") = "middleware"
  BY DEF ofAnnotation
<1>6. i.ann["https"] = "good" => Verdict("https") = "middleware"
  BY DEF IngressMiddleware, enforceHttpsMiddleware
<1>7. i.ann.header = "good" => Verdict("header") = "middleware"
  BY DEF IngressMiddleware, customHeaderMiddleware
<1> HIDE DEF Verdict
<1> QED BY <1>1, <1>2, <1>4, <1>5, <1>6, <1>7

(* The invariant at a request that has got as far as an upstream. *)
LEMMA AtUpstream ==
  ASSUME RequestInv, NEW r \in Clients, pc[r] \in {"connect", "roundTrip", "copy", "websocket"}
  PROVE  /\ conf[r].route.ingress \in Ingresses
         /\ \E d \in Parsed :
              /\ getMiddlewares(d, conf[r].route.ingress) # Nil
              /\ getHttpProxyConfig(d, conf[r].route.ingress) # Nil
              /\ conf[r].route.middlewares = getMiddlewares(d, conf[r].route.ingress)
              /\ conf[r].route.maxBody = getHttpProxyConfig(d, conf[r].route.ingress)
<1>1. conf[r] \in RoutingConfig /\ conf[r].route # Nil
  BY Zenon DEF RequestInv, ChainOK
<1>2. PICK d \in Parsed, i \in Ingresses :
        /\ getMiddlewares(d, i) # Nil /\ getHttpProxyConfig(d, i) # Nil
        /\ conf[r].route = [ingress |-> i, middlewares |-> getMiddlewares(d, i),
                            maxBody |-> getHttpProxyConfig(d, i)]
  BY <1>1, RouteShape, Zenon
<1>3. /\ conf[r].route.ingress = i /\ conf[r].route.middlewares = getMiddlewares(d, i)
      /\ conf[r].route.maxBody = getHttpProxyConfig(d, i)
  BY <1>2
<1> QED BY <1>2, <1>3

(* No upstream is contacted for a request that a check of the Ingress does not let
   through, for all combinations of annotations: the order of Modules puts all checks
   before the WebSocket, and getMiddlewares leaves out none of them.              *)
THEOREM CheckedCorrect == Spec => []CheckedBeforeUpstream
<1>1. ASSUME RequestInv, NEW r \in Clients,
             pc[r] \in {"connect", "roundTrip", "copy", "websocket"}
      PROVE  LET c == conf[r].common
                 i == conf[r].route.ingress
                 k == kind[r]
             IN
             /\ \A a \in Checks \ {"https"} : i.ann[a] # "bad"
             /\ c.https \/ i.ann.https = "good" => k.tls
             /\ i.ann.ip = "good" => Client(c, k) \in i.allow
             /\ i.ann.basic = "good" => k.password = "right"
             /\ i.ann.forward = "good" => "forward" \in granted[r]
             /\ i.ann.oidc = "good" => "oidc" \in granted[r]
             /\ i.ann.deny = "good" => k.path # "/admin"
  <2> DEFINE i == conf[r].route.ingress
  <2>1. /\ kind[r] \in Kinds /\ rest[r] \cap Checks = {}
        /\ conf[r].common.https => kind[r].tls
        /\ \A m \in conf[r].route.middlewares \ rest[r] : Passes(r, m)
    BY <1>1 DEF RequestInv, ChainOK
  <2>2. /\ \A a \in Checks \ {"https"} : i.ann[a] # "bad"
        /\ \A a \in Checks : i.ann[a] = "good" => a \in conf[r].route.middlewares
    BY <1>1, AtUpstream, AnnotationsCounted
  <2>3. \A a \in Checks : i.ann[a] = "good" => Passes(r, a)
    BY <2>1, <2>2
  <2>4. RealIp(r) = Client(conf[r].common, kind[r])
    BY <2>1, RealIpIsClient
  <2> HIDE DEF i
  <2>5. /\ i.ann.https = "good" => Passes(r, "https")
        /\ i.ann.ip = "good" => Passes(r, "ip")
        /\ i.ann.basic = "good" => Passes(r, "basic")
        /\ i.ann.forward = "good" => Passes(r, "forward")
        /\ i.ann.oidc = "good" => Passes(r, "oidc")
        /\ i.ann.deny = "good" => Passes(r, "deny")
    BY <2>3 DEF Checks
  <2>6. /\ Passes(r, "https") => kind[r].tls
        /\ Passes(r, "ip") => Client(conf[r].common, kind[r]) \in i.allow
        /\ Passes(r, "basic") => kind[r].password = "right"
        /\ Passes(r, "forward") => "forward" \in granted[r]
        /\ Passes(r, "oidc") => "oidc" \in granted[r]
        /\ Passes(r, "deny") => kind[r].path # "/admin"
    BY <2>4, Zenon DEF Passes, i
  <2> QED BY <2>1, <2>2, <2>5, <2>6, Zenon DEF i
<1>2. RequestInv => CheckedBeforeUpstream
  BY <1>1, Zenon DEF CheckedBeforeUpstream
<1> QED BY <1>2, RequestInvCorrect, PTL

(* setResponseHeaders: HSTS and the headers of the Ingress are in every proxied
   response, for all combinations of annotations.                                *)
THEOREM HeadersCorrect == Spec => []ModuleHeadersWin
<1>1. ASSUME RequestInv, NEW r \in Clients, pc[r] = "copy"
      PROVE  /\ conf[r].common.https => final[r]["hsts"] = "module"
             /\ conf[r].route.ingress.ann.header = "good" => final[r]["custom"] = "module"
  <2>1. /\ rest[r] = {} /\ (conf[r].common.https => "hsts" \in headers[r])
        /\ \A m \in conf[r].route.middlewares \ rest[r] : Passes(r, m)
        /\ \A h \in headers[r] : final[r][h] = "module"
    BY <1>1 DEF RequestInv, ChainOK
  <2>2. conf[r].route.ingress.ann.header = "good" => "header" \in conf[r].route.middlewares
    BY <1>1, AtUpstream, AnnotationsCounted
  <2>3. conf[r].route.ingress.ann.header = "good" => "custom" \in headers[r]
    BY <2>1, <2>2 DEF Passes
  <2> QED BY <2>1, <2>3
<1>2. RequestInv => ModuleHeadersWin
  BY <1>1 DEF ModuleHeadersWin
<1> QED BY <1>2, RequestInvCorrect, PTL

(* The overflow of an int64 product only makes it smaller. *)
LEMMA WrappedBelow ==
  ASSUME NEW x \in Nat
  PROVE  Wrapped(x) \in Int /\ Wrapped(x) <= x
<1> DEFINE m == IntMax + 1
           y == x + m
<1>1. m \in Nat /\ m > 0 /\ y \in Nat
  BY RequestAssumption
<1>2. Wrapped(x) = (y % (2 * m)) - m
  <2>1. 2 * IntMax + 2 = 2 * m /\ x + IntMax + 1 = y
    BY RequestAssumption
  <2> QED BY <2>1 DEF Wrapped
<1> DEFINE z == y % (2 * m)
<1>3. z \in Int /\ z <= y
  <2> HIDE DEF y, m
  <2> QED BY <1>1
<1>4. Wrapped(x) = z - m /\ x = y - m
  BY <1>1, <1>2
<1> QED
  <2> HIDE DEF y, m, z
  <2> QED BY <1>1, <1>3, <1>4

(* MaxBytesReader: what is read is within the limit, and nothing is when that is negative. *)
LEMMA ReadWithin ==
  ASSUME NEW limit \in Int, NEW size \in Nat, NEW x \in Nat, limit <= x
  PROVE  MaxBytesReader(limit, size) \in 0..x
BY DEF MaxBytesReader

(* ParseByteSize and MaxBytesReader: no upstream gets more of a body than the
   annotation says, for all sizes, units and widths of an integer.               *)
THEOREM BodyCorrect == Spec => []BodyWithinLimit
<1>1. ASSUME RequestInv, NEW r \in Clients, pc[r] = "roundTrip",
             conf[r].route.ingress.maxBody # Nil
      PROVE  LET s == conf[r].route.ingress.maxBody IN Passed(r) \in 0..(s.n * sizeMap(s.unit))
  <2> DEFINE s == conf[r].route.ingress.maxBody
             x == s.n * sizeMap(s.unit)
  <2>1. conf[r].route.maxBody = ParseByteSize(s) /\ ParseByteSize(s) # Nil
    BY <1>1, AtUpstream DEF getHttpProxyConfig
  <2>2. s \in Sizes
    <3>1. conf[r].route.ingress \in IngressShape
      BY <1>1, AtUpstream, RequestAssumption
    <3> QED BY <1>1, <3>1 DEF IngressShape
  <2>3. s.unit \in Units /\ ParseByteSize(s) = Wrapped(x)
    <3> HIDE DEF s
    <3> QED BY <2>1 DEF ParseByteSize
  <2>4. x \in Nat
    <3>1. sizeMap(s.unit) \in Nat
      <4>1. \A u \in Units : sizeMap(u) \in Nat
        BY DEF Units, sizeMap
      <4> HIDE DEF s
      <4> QED BY ONLY <2>3, <4>1
    <3>2. s.n \in Nat
      BY <2>2 DEF Sizes
    <3> QED BY <3>1, <3>2
  <2>5. kind[r].body \in Nat
    <3>1. kind[r] \in RequestShape
      BY <1>1, RequestAssumption DEF RequestInv, ChainOK
    <3> QED BY <3>1, RequestAssumption DEF RequestShape
  <2> HIDE DEF x
  <2>6. Passed(r) \in 0..x
    <3>1. conf[r].route.maxBody \in Int /\ conf[r].route.maxBody <= x
      BY <2>1, <2>3, <2>4, WrappedBelow, Zenon
    <3> QED BY <2>4, <2>5, <3>1, ReadWithin, Zenon DEF Passed
  <2> QED BY <2>6 DEF x
<1>2. RequestInv => BodyWithinLimit
  BY <1>1 DEF BodyWithinLimit
<1> QED BY <1>2, RequestInvCorrect, PTL
====
