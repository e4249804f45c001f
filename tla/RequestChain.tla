---- MODULE RequestChain ----
(***************************************************************************)
(* The invariant of serving requests.  The steps of streams preserve their *)
(* part of it, and so do the middlewares of modules/: ends of a handler,   *)
(* calls of the chain.                                                     *)
(***************************************************************************)
EXTENDS Request, TLAPS

CopiersOff(s) == \A e \in End : copier[s][e] = "off"
CopiersOn(s) == \A e \in End : copier[s][e] # "off"
CopiersDone(s) == \A e \in End : copier[s][e] = "done"

(* Where the setup or the waiting goroutine is tells what has been opened and
   closed, and whether the copying goroutines have been started.             *)
StreamOK(s) ==
  /\ main[s] = "idle" => s \notin tcp
  /\ main[s] \in {"idle", "dial", "greet"} =>
       CopiersOff(s) /\ (s \notin tcp => ends[s]["down"] = "none")
  /\ main[s] \in {"idle", "dial"} => ends[s]["up"] = "none"
  /\ main[s] = "greet" => ends[s]["up"] = "open"
  /\ main[s] = "watch" => CopiersOn(s)
  /\ main[s] = "wait" => CopiersOn(s) /\ ends[s] = CloseBoth /\ s \notin tcp
  /\ main[s] = "ended" =>
       \/ CopiersOff(s) /\ s \in tcp /\ (ends[s] = CloseBoth \/ ends[s]["up"] = "none")
       \/ /\ CopiersOff(s) /\ s \notin tcp
          /\ ends[s]["down"] = "none" \/ (ends[s]["down"] = "closed" /\ ends[s]["up"] # "none")
       \/ CopiersOn(s) /\ ends[s] = CloseBoth /\ (s \in tcp \/ CopiersDone(s))

StreamsInv == StreamsTypeOK /\ \A s \in Clients : StreamOK(s)

(* No stream is there at the start. *)
LEMMA StreamsInitOK == StreamsInit => StreamsInv
<1> SUFFICES ASSUME StreamsInit PROVE StreamsInv
  OBVIOUS
<1>1. StreamsTypeOK
  BY DEF StreamsInit, StreamsTypeOK
<1>2. \A s \in Clients : main[s] = "idle" /\ s \notin tcp /\ CopiersOff(s)
                        /\ ends[s]["down"] = "none" /\ ends[s]["up"] = "none"
  BY DEF StreamsInit, CopiersOff, End
<1> QED BY <1>1, <1>2 DEF StreamsInv, StreamOK

(* A step of one stream leaves the others as they are. *)
LEMMA OtherStreams ==
  ASSUME StreamsInv, NEW s \in Clients, tcp' \in {tcp, tcp \cup {s}},
         \A u \in Clients \ {s} : main'[u] = main[u] /\ ends'[u] = ends[u] /\ copier'[u] = copier[u],
         StreamOK(s)'
  PROVE  \A u \in Clients : StreamOK(u)'
BY DEF StreamsInv, StreamOK, CopiersOff, CopiersOn, CopiersDone

(* A TCP connection is accepted. *)
LEMMA AcceptOK ==
  ASSUME StreamsInv, NEW s \in Clients, AcceptTCP(s)
  PROVE  StreamsInv'
<1>1. StreamsTypeOK'
  BY DEF AcceptTCP, StreamsInv, StreamsTypeOK, End
<1>2. StreamOK(s)'
  BY DEF AcceptTCP, StreamsInv, StreamsTypeOK, StreamOK, CopiersOff, End
<1>3. \A u \in Clients : StreamOK(u)'
  BY <1>2, OtherStreams DEF AcceptTCP, StreamsInv, StreamsTypeOK
<1> QED BY <1>1, <1>3 DEF StreamsInv

(* A request becomes a WebSocket. *)
LEMMA WebSocketOK ==
  ASSUME StreamsInv, NEW s \in Clients, handleWebSocket(s)
  PROVE  StreamsInv'
<1> USE DEF handleWebSocket, notSetup
<1>1. StreamsTypeOK'
  BY DEF StreamsInv, StreamsTypeOK
<1>2. StreamOK(s)'
  BY DEF StreamsInv, StreamsTypeOK, StreamOK, CopiersOff
<1>3. \A u \in Clients : StreamOK(u)'
  BY <1>2, OtherStreams DEF StreamsInv, StreamsTypeOK
<1> QED BY <1>1, <1>3 DEF StreamsInv

(* Dialing, the PROXY header or the upgrade. *)
LEMMA SetupOK ==
  ASSUME StreamsInv, NEW s \in Clients, Setup(s)
  PROVE  StreamsInv' /\ tcp' = tcp
<1> USE DEF notSetup
<1>1. StreamsTypeOK /\ StreamOK(s)
  BY DEF StreamsInv
<1>2. CASE Dialed(s)
  <2>1. StreamsTypeOK'
    BY <1>1, <1>2 DEF Dialed, StreamsTypeOK, End
  <2>2. StreamOK(s)'
    BY <1>1, <1>2 DEF Dialed, StreamsTypeOK, StreamOK, CopiersOff, End
  <2>3. \A u \in Clients : StreamOK(u)'
    BY <1>1, <1>2, <2>2, OtherStreams DEF Dialed, StreamsTypeOK
  <2> QED BY <1>2, <2>1, <2>3 DEF StreamsInv, Dialed
<1>3. CASE DialFails(s)
  <2>1. StreamsTypeOK'
    BY <1>1, <1>3 DEF DialFails, StreamsTypeOK
  <2>2. StreamOK(s)'
    BY <1>1, <1>3 DEF DialFails, StreamsTypeOK, StreamOK, CopiersOff, End
  <2>3. \A u \in Clients : StreamOK(u)'
    BY <1>1, <1>3, <2>2, OtherStreams DEF DialFails, StreamsTypeOK
  <2> QED BY <1>3, <2>1, <2>3 DEF StreamsInv, DialFails
<1>4. CASE startCopying(s)
  <2>1. StreamsTypeOK'
    BY <1>1, <1>4 DEF startCopying, StreamsTypeOK, End
  <2>2. main'[s] = "watch" /\ CopiersOn(s)'
    BY <1>1, <1>4 DEF startCopying, StreamsTypeOK, CopiersOn
  <2>3. StreamOK(s)'
    BY <2>2 DEF StreamOK
  <2>4. \A u \in Clients : StreamOK(u)'
    BY <1>1, <1>4, <2>3, OtherStreams DEF startCopying, StreamsTypeOK
  <2> QED BY <1>4, <2>1, <2>4 DEF StreamsInv, startCopying
<1>5. CASE s \in tcp /\ HeaderFails(s)
  <2>1. StreamsTypeOK'
    BY <1>1, <1>5 DEF HeaderFails, StreamsTypeOK, CloseBoth
  <2>2. main'[s] = "ended" /\ CopiersOff(s)' /\ ends'[s] = CloseBoth /\ s \in tcp'
    BY <1>1, <1>5 DEF HeaderFails, StreamsTypeOK, StreamOK, CopiersOff
  <2>3. StreamOK(s)'
    BY <2>2 DEF StreamOK, CloseBoth
  <2>4. \A u \in Clients : StreamOK(u)'
    BY <1>1, <1>5, <2>3, OtherStreams DEF HeaderFails, StreamsTypeOK
  <2> QED BY <1>5, <2>1, <2>4 DEF StreamsInv, HeaderFails
<1>6. CASE s \notin tcp /\ UpgradeFails(s)
  <2>1. StreamsTypeOK'
    BY <1>1, <1>6 DEF UpgradeFails, StreamsTypeOK, End
  <2>2. StreamOK(s)'
    <3>1. main'[s] = "ended" /\ CopiersOff(s)' /\ s \notin tcp'
      BY <1>1, <1>6 DEF UpgradeFails, StreamsTypeOK, StreamOK, CopiersOff
    <3>2. /\ ends'[s]["down"] \in {"none", "closed"} /\ ends'[s]["up"] = "open"
      BY <1>1, <1>6 DEF UpgradeFails, StreamsTypeOK, StreamOK, End
    <3> QED BY <3>1, <3>2 DEF StreamOK
  <2>3. \A u \in Clients : StreamOK(u)'
    BY <1>1, <1>6, <2>2, OtherStreams DEF UpgradeFails, StreamsTypeOK
  <2> QED BY <1>6, <2>1, <2>3 DEF StreamsInv, UpgradeFails
<1> QED BY <1>2, <1>3, <1>4, <1>5, <1>6 DEF Setup

(* A copying goroutine that goes on, or on to its cleanup. *)
LEMMA CopierOK ==
  ASSUME StreamsInv, NEW s \in Clients, NEW e \in End, NEW c \in {"read", "cleanup"} \cup Writing,
         copier[s][e] \notin {"off", "done"}, CopierTo(s, e, c), UNCHANGED notCopy
  PROVE  StreamsInv' /\ tcp' = tcp
<1> USE DEF CopierTo, notCopy
<1>1. StreamsTypeOK /\ StreamOK(s) /\ c # "off"
  BY DEF StreamsInv, Writing
<1>2. StreamsTypeOK'
  BY <1>1 DEF StreamsTypeOK
<1>3. CopiersOn(s) => CopiersOn(s)'
  BY <1>1 DEF CopiersOn, StreamsTypeOK
<1>4. ~CopiersOff(s) /\ ~CopiersDone(s)
  BY DEF CopiersOff, CopiersDone
<1>5. StreamOK(s)'
  BY <1>1, <1>3, <1>4 DEF StreamOK, CloseBoth
<1>6. \A u \in Clients : StreamOK(u)'
  BY <1>1, <1>5, OtherStreams DEF StreamsTypeOK
<1> QED BY <1>2, <1>6 DEF StreamsInv

(* Messages, ends and failures of the peers. *)
LEMMA PeersOK ==
  ASSUME StreamsInv, NEW s \in Clients, NEW e \in End,
         Receive(s, e) \/ PeerEnds(s, e) \/ Written(s, e) \/ WriteFails(s, e) \/ Interrupted(s, e)
  PROVE  StreamsInv' /\ tcp' = tcp
<1>1. copier[s][e] \notin {"off", "done"} /\ UNCHANGED notCopy
  BY DEF Receive, PeerEnds, Written, WriteFails, Interrupted, Writing
<1>2. \E c \in {"read", "cleanup"} \cup Writing : CopierTo(s, e, c)
  BY DEF Receive, PeerEnds, Written, WriteFails, Interrupted, Writing
<1> QED BY <1>1, <1>2, CopierOK

(* The cleanup of a copying goroutine. *)
LEMMA CopierEndsOK ==
  ASSUME StreamsInv, NEW s \in Clients, NEW e \in End, copierEnds(s, e)
  PROVE  StreamsInv' /\ tcp' = tcp
<1> USE DEF copierEnds, CopierTo
<1>1. StreamsTypeOK /\ StreamOK(s) /\ UNCHANGED <<main, tcp>>
  BY DEF StreamsInv
<1>2. ends' = ends \/ ends' = [ends EXCEPT ![s] = CloseBoth]
  OBVIOUS
<1>3. StreamsTypeOK'
  BY <1>1, <1>2 DEF StreamsTypeOK, CloseBoth
<1>4. (CopiersOn(s) => CopiersOn(s)') /\ ~CopiersOff(s) /\ ~CopiersDone(s)
  BY <1>1 DEF CopiersOn, CopiersOff, CopiersDone, StreamsTypeOK
<1>5. ends'[s] = ends[s] \/ ends'[s] = CloseBoth
  BY <1>1, <1>2 DEF StreamsTypeOK
<1>6. StreamOK(s)'
  BY <1>1, <1>4, <1>5 DEF StreamOK, CloseBoth
<1>7. \A u \in Clients : StreamOK(u)'
  BY <1>1, <1>2, <1>6, OtherStreams DEF StreamsTypeOK
<1> QED BY <1>1, <1>3, <1>7 DEF StreamsInv

(* The goroutine that waits for the end closes both connections. *)
LEMMA WatchingOK ==
  ASSUME StreamsInv, NEW s \in Clients, Watching(s)
  PROVE  StreamsInv' /\ tcp' = tcp
<1>1. StreamsTypeOK /\ StreamOK(s) /\ UNCHANGED <<tcp, copier>>
  BY DEF StreamsInv, Watching, watch, webSocketReturns
<1>2. CASE watch(s)
  <2>1. /\ main' = [main EXCEPT ![s] = IF s \in tcp THEN "ended" ELSE "wait"]
        /\ ends' = [ends EXCEPT ![s] = CloseBoth]
        /\ UNCHANGED <<serverDone, listening, connDone>> /\ CopiersOn(s)
    BY <1>1, <1>2 DEF watch, StreamOK
  <2>2. StreamsTypeOK'
    BY <1>1, <2>1 DEF StreamsTypeOK, CloseBoth
  <2>3. CopiersOn(s)' /\ ends'[s] = CloseBoth /\ main'[s] = IF s \in tcp THEN "ended" ELSE "wait"
    BY <1>1, <2>1 DEF StreamsTypeOK, CopiersOn
  <2>4. StreamOK(s)'
    BY <1>1, <2>3 DEF StreamOK, CloseBoth
  <2>5. \A u \in Clients : StreamOK(u)'
    BY <1>1, <2>1, <2>4, OtherStreams DEF StreamsTypeOK
  <2> QED BY <1>1, <2>2, <2>5 DEF StreamsInv
<1>3. CASE webSocketReturns(s)
  <2>1. /\ main' = [main EXCEPT ![s] = "ended"] /\ connDone' = [connDone EXCEPT ![s] = TRUE]
        /\ UNCHANGED <<serverDone, listening, ends>> /\ CopiersOn(s) /\ CopiersDone(s)
        /\ ends[s] = CloseBoth
    BY <1>1, <1>3 DEF webSocketReturns, StreamOK, CopiersDone
  <2>2. StreamsTypeOK'
    BY <1>1, <2>1 DEF StreamsTypeOK
  <2>3. CopiersOn(s)' /\ CopiersDone(s)' /\ ends'[s] = CloseBoth /\ main'[s] = "ended"
    BY <1>1, <2>1 DEF StreamsTypeOK, CopiersOn, CopiersDone
  <2>4. StreamOK(s)'
    BY <2>3 DEF StreamOK, CloseBoth
  <2>5. \A u \in Clients : StreamOK(u)'
    BY <1>1, <2>1, <2>4, OtherStreams DEF StreamsTypeOK
  <2> QED BY <1>1, <2>2, <2>5 DEF StreamsInv
<1> QED BY <1>2, <1>3 DEF Watching

(* Every step of a stream. *)
LEMMA StreamsStepOK ==
  ASSUME StreamsInv, StreamsNext
  PROVE  StreamsInv' /\ tcp' = tcp
<1>1. CASE ServerShutdown \/ CloseListener
  <2>1. UNCHANGED <<tcp, main, ends, copier, connDone>> /\ StreamsTypeOK'
    BY <1>1 DEF ServerShutdown, CloseListener, StreamsInv, StreamsTypeOK
  <2>2. \A s \in Clients : StreamOK(s)'
    BY <2>1 DEF StreamsInv, StreamOK, CopiersOn, CopiersOff, CopiersDone, CloseBoth
  <2> QED BY <2>1, <2>2 DEF StreamsInv
<1>2. CASE \E s \in Clients : Setup(s) \/ Peers(s) \/ Watching(s) \/ \E e \in End : Copying(s, e)
  BY <1>2, SetupOK, PeersOK, WatchingOK, CopierEndsOK DEF Peers, Copying
<1> QED BY <1>1, <1>2 DEF StreamsNext

(* The HTTP server has the connection of a request whose stream is not there or over. *)
Free(s) == main[s] \in {"idle", "ended"} /\ ends[s]["down"] = "none"

(* What a request can rely on while others take their steps. *)
Kept(s) ==
  /\ s \in tcp' <=> s \in tcp
  /\ main[s] = "idle" => main'[s] = "idle"
  /\ Free(s) => Free(s)'
  /\ CopiersDone(s) => CopiersDone(s)'
  /\ UpgradeLost(s) => UpgradeLost(s)'

LEMMA KeptSame ==
  ASSUME NEW s \in Clients, s \in tcp' <=> s \in tcp, main'[s] = main[s], ends'[s] = ends[s],
         copier'[s] = copier[s]
  PROVE  Kept(s)
BY DEF Kept, Free, CopiersDone, UpgradeLost

(* A stream that is being set up, or whose end is awaited. *)
LEMMA KeptBusy ==
  ASSUME StreamsInv, NEW s \in Clients, tcp' = tcp, main[s] \in {"dial", "greet", "watch", "wait"},
         CopiersDone(s) => copier'[s] = copier[s]
  PROVE  Kept(s)
BY DEF Kept, Free, CopiersDone, UpgradeLost

(* A copying goroutine takes a step. *)
LEMMA KeptCopying ==
  ASSUME StreamsInv, NEW s \in Clients, NEW e \in End, UNCHANGED <<tcp, main>>,
         copier[s][e] \notin {"off", "done"}
  PROVE  Kept(s)
<1>1. StreamOK(s) /\ ~CopiersOff(s) /\ ~CopiersDone(s)
  BY DEF StreamsInv, CopiersOff, CopiersDone
<1>2. ~UpgradeLost(s)
  BY DEF UpgradeLost
<1>3. ~Free(s)
  BY <1>1 DEF StreamOK, Free, CloseBoth, End
<1> QED BY <1>1, <1>2, <1>3 DEF Kept

(* The steps of streams take nothing from a request. *)
LEMMA StreamsKeep ==
  ASSUME StreamsInv, StreamsNext, NEW r \in Clients
  PROVE  Kept(r)
<1>0. StreamsTypeOK /\ StreamOK(r) /\ tcp' = tcp
  BY StreamsStepOK DEF StreamsInv
<1>1. CASE ServerShutdown \/ CloseListener
  <2>1. UNCHANGED <<main, ends, copier>>
    BY <1>1 DEF ServerShutdown, CloseListener
  <2> QED BY <1>0, <2>1, KeptSame
<1>2. ASSUME NEW s \in Clients, Setup(s) PROVE Kept(r)
  <2>1. CASE s = r
    <3>1. main[r] \in {"dial", "greet"}
      BY <1>2, <2>1 DEF Setup, Dialed, DialFails, startCopying, HeaderFails, UpgradeFails
    <3>2. ~CopiersDone(r)
      BY <1>0, <3>1 DEF StreamOK, CopiersOff, CopiersDone, End
    <3> QED BY <1>0, <3>1, <3>2, KeptBusy
  <2>2. CASE s # r
    <3>1. main'[r] = main[r] /\ ends'[r] = ends[r] /\ copier'[r] = copier[r]
      BY <1>0, <1>2, <2>2 DEF Setup, Dialed, DialFails, startCopying, HeaderFails, UpgradeFails,
                              notSetup, StreamsTypeOK
    <3> QED BY <1>0, <3>1, KeptSame
  <2> QED BY <2>1, <2>2
<1>3. ASSUME NEW s \in Clients, Watching(s) PROVE Kept(r)
  <2>1. CASE s = r
    <3>1. main[r] \in {"watch", "wait"} /\ copier' = copier
      BY <1>3, <2>1 DEF Watching, watch, webSocketReturns
    <3> QED BY <1>0, <3>1, KeptBusy
  <2>2. CASE s # r
    <3>1. main'[r] = main[r] /\ ends'[r] = ends[r] /\ copier'[r] = copier[r]
      BY <1>0, <1>3, <2>2 DEF Watching, watch, webSocketReturns, StreamsTypeOK
    <3> QED BY <1>0, <3>1, KeptSame
  <2> QED BY <2>1, <2>2
<1>4. ASSUME NEW s \in Clients, Peers(s) \/ \E e \in End : Copying(s, e) PROVE Kept(r)
  <2>1. CASE s = r
    <3>1. PICK e \in End : copier[r][e] \notin {"off", "done"} /\ UNCHANGED main
      BY <1>4, <2>1 DEF Peers, Receive, PeerEnds, Written, WriteFails, Copying, Interrupted, copierEnds,
                        notCopy, Writing
    <3> QED BY <1>0, <3>1, KeptCopying
  <2>2. CASE s # r
    <3>1. main'[r] = main[r] /\ ends'[r] = ends[r] /\ copier'[r] = copier[r]
      BY <1>0, <1>4, <2>2 DEF Peers, Receive, PeerEnds, Written, WriteFails, Copying, Interrupted,
                              copierEnds, notCopy, CopierTo, StreamsTypeOK
    <3> QED BY <1>0, <3>1, KeptSame
  <2> QED BY <2>1, <2>2
<1> QED BY <1>1, <1>2, <1>3, <1>4 DEF StreamsNext

(* The invariant is stronger than what it is for: no stream that is over has a
   connection that is open, unless it never had both or lost its client in the
   upgrade.                                                                   *)
THEOREM StreamsInvCloses == StreamsInv => NothingLeftOpen
BY DEF StreamsInv, StreamOK, CopiersOff, CopiersOn, NothingLeftOpen, UpgradeLost, Ended, End

(***************************************************************************)
(* Requests.                                                               *)
(***************************************************************************)
Codes == {200, 301, 302, 400, 401, 403, 404, 413, 500, 502, 503}

Silent(r) == writes[r] = 0 /\ status[r] = 0
Answered(r) == writes[r] = 1 /\ status[r] # 0
Upgraded(r) == CopiersDone(r)

(* Where a request is tells whether it has a response, and whose its connection is. *)
ResponseOK(r) ==
  /\ pc[r] # "idle" => r \notin tcp
  /\ r \notin tcp /\ pc[r] \notin {"websocket", "returned", "done"} => main[r] = "idle"
  /\ pc[r] \in {"idle", "chain", "websocket", "connect", "roundTrip", "panicked"} => Silent(r)
  /\ pc[r] = "panicked" => AtEmptyPath(r)
  /\ pc[r] = "copy" => Answered(r)
  /\ pc[r] = "returned" =>
       \/ Answered(r)
       \/ Silent(r) /\ err[r] /\ (Free(r) \/ UpgradeLost(r))
       \/ Silent(r) /\ ~err[r] /\ Upgraded(r)
  /\ pc[r] = "done" =>
       \/ Answered(r)
       \/ Silent(r) /\ Upgraded(r)
       \/ writes[r] = 0 /\ status[r] = 500 /\ UpgradeLost(r)

(* What is known once the middleware of module m has let a request through. *)
Passes(r, m) ==
  /\ m = "https" => kind[r].tls
  /\ m = "ip" => RealIp(r) \in conf[r].route.ingress.allow
  /\ m = "basic" => kind[r].password = "right"
  /\ m \in {"forward", "oidc"} => m \in granted[r]
  /\ m = "deny" => kind[r].path # "/admin"
  /\ m = "header" /\ conf[r].route.ingress.ann.header = "good" => "custom" \in headers[r]

(* Every module of the chain that is not still to be called has let it through. *)
ChainOK(r) ==
  /\ pc[r] = "idle" => stage[r] = "requests"
  /\ pc[r] \notin {"idle", "returned", "done"} =>
       /\ kind[r] \in Kinds /\ conf[r] \in RoutingConfig
       /\ conf[r].common.https /\ (stage[r] = "route" \/ "https" \notin rest[r]) =>
            kind[r].tls /\ "hsts" \in headers[r]
       /\ stage[r] = "route" =>
            conf[r].route # Nil /\ \A m \in conf[r].route.middlewares \ rest[r] : Passes(r, m)
       /\ pc[r] \notin {"chain", "panicked"} => stage[r] = "route" /\ rest[r] \cap Checks = {}
       /\ pc[r] \in {"connect", "roundTrip", "copy"} => rest[r] = {}
       /\ pc[r] = "copy" => \A h \in headers[r] : final[r][h] = "module"

RequestInv == TypeOK /\ StreamsInv /\ \A r \in Clients : ResponseOK(r) /\ ChainOK(r)
----------------------------------------------------------------------------
(* The locals of a request and of its chain, which a step of another leaves alone. *)
Same(q) ==
  /\ pc'[q] = pc[q] /\ kind'[q] = kind[q] /\ conf'[q] = conf[q] /\ stage'[q] = stage[q]
  /\ rest'[q] = rest[q] /\ granted'[q] = granted[q] /\ headers'[q] = headers[q]
  /\ final'[q] = final[q] /\ status'[q] = status[q] /\ writes'[q] = writes[q] /\ err'[q] = err[q]

LEMMA Domains ==
  ASSUME TypeOK
  PROVE  /\ DOMAIN pc = Clients /\ DOMAIN kind = Clients /\ DOMAIN conf = Clients
         /\ DOMAIN rest = Clients /\ DOMAIN final = Clients
BY DEF TypeOK

(* Nothing is lost for a request that a step leaves alone. *)
LEMMA SameOK ==
  ASSUME NEW q \in Clients, ResponseOK(q), ChainOK(q), Same(q),
         Kept(q) \/ (pc[q] = "idle" /\ q \in tcp')
  PROVE  ResponseOK(q)' /\ ChainOK(q)'
<1>1. ResponseOK(q)'
  <2>1. (Silent(q) => Silent(q)') /\ (Answered(q) => Answered(q)') /\ (AtEmptyPath(q) => AtEmptyPath(q)')
    BY DEF Same, Silent, Answered, AtEmptyPath
  <2>2. CASE Kept(q)
    BY <2>1, <2>2 DEF ResponseOK, Same, Kept, Upgraded
  <2>3. CASE pc[q] = "idle" /\ q \in tcp'
    BY <2>1, <2>3 DEF ResponseOK, Same
  <2> QED BY <2>2, <2>3
<1>2. \A m : Passes(q, m) => Passes(q, m)'
  BY DEF Passes, Same, RealIp
<1>3. ChainOK(q)'
  BY <1>2 DEF ChainOK, Same
<1> QED BY <1>1, <1>3

WriterType ==
  status \in [Clients -> {0} \cup Codes] /\ writes \in [Clients -> 0..1]

(* The first header that is written. *)
LEMMA WriteOK ==
  ASSUME WriterType, NEW r \in Clients, Silent(r), Free(r), NEW code \in Codes, WriteHeader(r, code)
  PROVE  /\ WriterType' /\ Answered(r)'
         /\ \A q \in Clients \ {r} : status'[q] = status[q] /\ writes'[q] = writes[q]
<1>1. writes' = [writes EXCEPT ![r] = 1] /\ status' = [status EXCEPT ![r] = code] /\ code # 0
  BY DEF WriteHeader, Silent, Free, WriterType, Codes
<1> QED BY <1>1 DEF WriterType, Answered

(* Return ends the chain; it is enough to know what has been written. *)
LEMMA ReturnOK ==
  ASSUME RequestInv, NEW r \in Clients, NEW e \in BOOLEAN, Return(r, e), pc[r] # "idle",
         \/ Silent(r) /\ Free(r) /\ \E code \in Codes : WriteHeader(r, code)
         \/ /\ Answered(r) \/ (Silent(r) /\ IF e THEN Free(r) \/ UpgradeLost(r) ELSE Upgraded(r))
            /\ UNCHANGED writerVars
  PROVE  RequestInv'
<1>1. TypeOK /\ StreamsInv /\ UNCHANGED streamVars
  BY DEF RequestInv, Return
<1>2. StreamsInv'
  BY <1>1 DEF streamVars, StreamsInv, StreamsTypeOK, StreamOK, CopiersOff, CopiersOn, CopiersDone, CloseBoth
<1>3. /\ WriterType'
      /\ \A q \in Clients \ {r} : status'[q] = status[q] /\ writes'[q] = writes[q]
      /\ Answered(r)' \/ (Silent(r)' /\ IF e THEN Free(r) \/ UpgradeLost(r) ELSE Upgraded(r))
  <2>1. WriterType
    BY <1>1 DEF TypeOK, WriterType, Codes
  <2>2. CASE Silent(r) /\ Free(r) /\ \E code \in Codes : WriteHeader(r, code)
    BY <2>1, <2>2, WriteOK
  <2>3. CASE /\ Answered(r) \/ (Silent(r) /\ IF e THEN Free(r) \/ UpgradeLost(r) ELSE Upgraded(r))
             /\ UNCHANGED writerVars
    BY <2>1, <2>3 DEF writerVars, WriterType, Answered, Silent
  <2> QED BY <2>2, <2>3
<1>4. TypeOK'
  <2>1. StreamsTypeOK'
    BY <1>2 DEF StreamsInv
  <2>2. NoHeaders \in [HeaderNames -> {"none", "module", "upstream"}]
    BY DEF NoHeaders
  <2>3. /\ pc' \in [Clients -> {"idle", "chain", "websocket", "connect", "roundTrip", "copy",
                                "returned", "done", "panicked"}]
        /\ \A q \in Clients : pc'[q] \notin {"idle", "returned", "done"} =>
             kind'[q] \in Kinds /\ conf'[q] # Nil
    BY <1>1 DEF TypeOK, Return
  <2>4. /\ routingConfig' \in RoutingConfig \cup {Nil}
        /\ conf' \in [Clients -> RoutingConfig \cup {Nil}] /\ kind' \in [Clients -> Kinds \cup {Nil}]
    BY <1>1 DEF TypeOK, Return
  <2>5. /\ stage' \in [Clients -> {"requests", "route"}] /\ rest' \in [Clients -> SUBSET ModuleNames]
        /\ granted' \in [Clients -> SUBSET {"forward", "oidc"}]
        /\ headers' \in [Clients -> SUBSET HeaderNames]
        /\ err' \in [Clients -> BOOLEAN]
    BY <1>1 DEF TypeOK, Return
  <2>6. final' \in [Clients -> [HeaderNames -> {"none", "module", "upstream"}]]
    BY <1>1, <2>2 DEF TypeOK, Return
  <2> QED BY <1>3, <2>1, <2>3, <2>4, <2>5, <2>6 DEF TypeOK, WriterType, Codes
<1>5. pc'[r] = "returned" /\ err'[r] = e /\ \A q \in Clients \ {r} : Same(q)
  BY <1>1, <1>3 DEF TypeOK, Return, Same
<1>6. \A q \in Clients : Kept(q)
  BY <1>1, KeptSame DEF streamVars
<1>7. ResponseOK(r)' /\ ChainOK(r)'
  <2>1. r \notin tcp'
    BY <1>1 DEF RequestInv, ResponseOK, streamVars
  <2>2. Answered(r)' \/ (Silent(r)' /\ IF e THEN Free(r)' \/ UpgradeLost(r)' ELSE Upgraded(r)')
    BY <1>3, <1>6 DEF Kept, Upgraded
  <2> QED BY <1>5, <2>1, <2>2 DEF ResponseOK, ChainOK
<1>8. \A q \in Clients \ {r} : ResponseOK(q)' /\ ChainOK(q)'
  BY <1>5, <1>6, SameOK DEF RequestInv
<1> QED BY <1>2, <1>4, <1>7, <1>8 DEF RequestInv
----------------------------------------------------------------------------
(* What Modules says of the names and of their order. *)
LEMMA ModuleNamesAre ==
  ModuleNames = {"https", "ip", "basic", "forward", "oidc", "deny", "websocket", "header",
                 "upstreamHeader"}
<1>1. DOMAIN Modules = 1..9
  BY DEF Modules
<1> QED BY <1>1 DEF ModuleNames, Modules

(* No check comes after the WebSocket module. *)
LEMMA SocketAfterChecks == \A m \in Checks : ~Before("websocket", m)
<1>1. DOMAIN Modules = 1..9
  BY DEF Modules
<1>2. \A j \in 1..9 : Modules[j] = "websocket" => j = 7
  BY DEF Modules
<1>3. \A j \in 1..9 : j > 7 => Modules[j] \in {"header", "upstreamHeader"}
  BY DEF Modules
<1> QED BY <1>1, <1>2, <1>3 DEF Before, Checks

(* A route is what addPath has made of some Ingress under some modules. *)
LEMMA RouteShape ==
  ASSUME NEW c \in RoutingConfig, c.route # Nil
  PROVE  \E d \in Parsed, i \in Ingresses :
           /\ getMiddlewares(d, i) # Nil /\ getHttpProxyConfig(d, i) # Nil
           /\ c.route = [ingress |-> i, middlewares |-> getMiddlewares(d, i),
                         maxBody |-> getHttpProxyConfig(d, i)]
<1>1. PICK d \in Parsed, i \in Ingresses : c.route = addPath(d, i)
  BY DEF RoutingConfig
<1> QED BY <1>1 DEF addPath

(* The chain of a route consists of modules. *)
LEMMA MiddlewaresNamed ==
  ASSUME NEW c \in RoutingConfig, c.route # Nil
  PROVE  c.route.middlewares \subseteq ModuleNames
<1>1. PICK d \in Parsed, i \in Ingresses :
        /\ getMiddlewares(d, i) # Nil /\ getHttpProxyConfig(d, i) # Nil
        /\ c.route = [ingress |-> i, middlewares |-> getMiddlewares(d, i),
                      maxBody |-> getHttpProxyConfig(d, i)]
  BY RouteShape, Zenon
<1>2. c.route.middlewares = getMiddlewares(d, i)
  BY <1>1
<1> QED BY <1>1, <1>2 DEF getMiddlewares

(* A module lets the request through. *)
LEMMA NextOK ==
  ASSUME RequestInv, NEW r \in Clients, NEW s \in {"requests", "route"}, NEW m, Calls(r, s, m),
         next(r, m), granted' \in [Clients -> SUBSET {"forward", "oidc"}],
         headers' \in [Clients -> SUBSET HeaderNames],
         \A q \in Clients : /\ granted[q] \subseteq granted'[q] /\ headers[q] \subseteq headers'[q]
                            /\ q # r => granted'[q] = granted[q] /\ headers'[q] = headers[q],
         s = "route" => Passes(r, m)',
         s = "requests" /\ m = "https" => kind[r].tls /\ "hsts" \in headers'[r]
  PROVE  RequestInv'
<1>1. TypeOK /\ StreamsInv /\ ResponseOK(r) /\ ChainOK(r) /\ pc[r] = "chain" /\ stage[r] = s
  BY DEF RequestInv, Calls
<1>2. /\ rest' = [rest EXCEPT ![r] = rest[r] \ {m}]
      /\ UNCHANGED <<routingConfig, pc, kind, conf, stage, final, status, writes, err, streamVars>>
  BY <1>1 DEF next, writerVars, TypeOK
<1>3. StreamsInv'
  BY <1>1, <1>2 DEF streamVars, StreamsInv, StreamsTypeOK, StreamOK, CopiersOff, CopiersOn,
       CopiersDone, CloseBoth
<1>4. TypeOK'
  BY <1>1, <1>2, <1>3 DEF TypeOK, StreamsInv
<1>5. \A q \in Clients : Kept(q)
  BY <1>2, KeptSame DEF streamVars
<1>6. ResponseOK(r)'
  BY <1>1, <1>2, <1>5 DEF ResponseOK, Silent, Kept
<1>7. \A n : Passes(r, n) => Passes(r, n)'
  BY <1>2 DEF Passes, RealIp
<1>8. ChainOK(r)'
  BY <1>1, <1>2, <1>7 DEF ChainOK, TypeOK
<1>9. \A q \in Clients \ {r} : Same(q)
  BY <1>1, <1>2 DEF Same, TypeOK
<1>10. \A q \in Clients \ {r} : ResponseOK(q)' /\ ChainOK(q)'
  BY <1>5, <1>9, SameOK DEF RequestInv
<1> QED BY <1>3, <1>4, <1>6, <1>8, <1>10 DEF RequestInv

(* A middleware that only looks. *)
LEMMA PlainOK ==
  ASSUME RequestInv, NEW r \in Clients, NEW s \in {"requests", "route"}, NEW m, Calls(r, s, m),
         Plain(r, m), s = "route" => Passes(r, m), s = "requests" => m # "https"
  PROVE  RequestInv'
<1>1. next(r, m) /\ UNCHANGED <<granted, headers, kind, conf>> /\ TypeOK
  BY DEF Plain, next, RequestInv
<1>2. s = "route" => Passes(r, m)'
  BY <1>1 DEF Passes, RealIp
<1>3. /\ granted' \in [Clients -> SUBSET {"forward", "oidc"}]
      /\ headers' \in [Clients -> SUBSET HeaderNames]
      /\ \A q \in Clients : /\ granted[q] \subseteq granted'[q] /\ headers[q] \subseteq headers'[q]
                             /\ q # r => granted'[q] = granted[q] /\ headers'[q] = headers[q]
  BY <1>1 DEF TypeOK
<1> QED BY <1>1, <1>2, <1>3, NextOK, Zenon

(* A middleware that asks somebody else. *)
LEMMA GrantedOK ==
  ASSUME RequestInv, NEW r \in Clients, NEW m \in {"forward", "oidc"}, Calls(r, "route", m),
         Granted(r, m)
  PROVE  RequestInv'
<1>1. /\ next(r, m) /\ headers' = headers /\ TypeOK
      /\ granted' = [granted EXCEPT ![r] = granted[r] \cup {m}]
  BY DEF Granted, RequestInv
<1>2. m \in granted'[r] /\ granted' \in [Clients -> SUBSET {"forward", "oidc"}]
  BY <1>1 DEF TypeOK
<1>3. Passes(r, m)'
  BY <1>2 DEF Passes
<1>4. /\ headers' \in [Clients -> SUBSET HeaderNames]
      /\ \A q \in Clients : /\ granted[q] \subseteq granted'[q] /\ headers[q] \subseteq headers'[q]
                             /\ q # r => granted'[q] = granted[q] /\ headers'[q] = headers[q]
  BY <1>1 DEF TypeOK
<1> QED BY <1>1, <1>2, <1>3, <1>4, NextOK, Zenon

(* A middleware that sets a header of the response. *)
LEMMA HeadedOK ==
  ASSUME RequestInv, NEW r \in Clients, NEW s, NEW m, NEW h,
         \/ s = "requests" /\ m = "https" /\ h = "hsts" /\ kind[r].tls
         \/ s = "route" /\ m = "header" /\ h = "custom",
         Calls(r, s, m), Headed(r, m, h)
  PROVE  RequestInv'
<1>1. /\ next(r, m) /\ granted' = granted /\ TypeOK /\ h \in HeaderNames
      /\ headers' = [headers EXCEPT ![r] = headers[r] \cup {h}]
  BY DEF Headed, RequestInv, HeaderNames
<1>2. h \in headers'[r] /\ headers' \in [Clients -> SUBSET HeaderNames]
  BY <1>1 DEF TypeOK
<1>3. s = "route" => Passes(r, m)'
  BY <1>2 DEF Passes
<1>4. /\ granted' \in [Clients -> SUBSET {"forward", "oidc"}]
      /\ \A q \in Clients : /\ granted[q] \subseteq granted'[q] /\ headers[q] \subseteq headers'[q]
                             /\ q # r => granted'[q] = granted[q] /\ headers'[q] = headers[q]
  BY <1>1 DEF TypeOK
<1>5. s \in {"requests", "route"} /\ (s = "requests" /\ m = "https" => kind[r].tls /\ "hsts" \in headers'[r])
  BY <1>2
<1> QED BY <1>1, <1>2, <1>3, <1>4, <1>5, NextOK, Zenon
----------------------------------------------------------------------------
(* Before the upstream has answered, nothing is written and the connection is the server's. *)
LEMMA AtServer ==
  ASSUME RequestInv, NEW r \in Clients, pc[r] \in {"chain", "connect", "roundTrip"}
  PROVE  Silent(r) /\ Free(r)
<1>1. Silent(r) /\ r \notin tcp /\ main[r] = "idle" /\ StreamOK(r)
  BY DEF RequestInv, ResponseOK, StreamsInv
<1> QED BY <1>1 DEF StreamOK, Free

(* Answers of a middleware, which has written nothing before. *)
LEMMA AnswerOK ==
  ASSUME RequestInv, NEW r \in Clients, pc[r] \in {"chain", "connect", "roundTrip"},
         \/ \E code \in Codes : Reply(r, code) \/ handleErrorPage(r, code)
         \/ Fail(r)
  PROVE  RequestInv'
<1>1. PICK e \in BOOLEAN :
        Return(r, e) /\ (\/ \E code \in Codes : WriteHeader(r, code)
                         \/ e /\ UNCHANGED writerVars)
  BY Zenon DEF Reply, handleErrorPage, Fail
<1> QED BY <1>1, AtServer, ReturnOK

(* The middlewares that all requests go through. *)
LEMMA ConnectionOK ==
  ASSUME RequestInv, NEW r \in Clients, hsts(r) \/ callback(r)
  PROVE  RequestInv'
<1>1. pc[r] = "chain"
  BY DEF hsts, callback, Calls
<1>2. CASE hsts(r)
  BY <1>1, <1>2, AnswerOK, HeadedOK DEF hsts, Codes
<1>3. CASE callback(r)
  BY <1>1, <1>3, AnswerOK, PlainOK DEF callback, Codes
<1> QED BY <1>2, <1>3

(* The middlewares of a route, but for the WebSocket. *)
LEMMA RouteMiddlewareOK ==
  ASSUME RequestInv, NEW r \in Clients,
         \/ enforceHttps(r) \/ ipAuth(r) \/ basicAuth(r) \/ subrequestAuth(r)
         \/ oidc(r) \/ denyRoute(r) \/ customHeader(r) \/ upstreamHeader(r)
  PROVE  RequestInv'
<1>1. pc[r] = "chain"
  BY DEF enforceHttps, ipAuth, basicAuth, subrequestAuth, oidc, denyRoute, customHeader,
         upstreamHeader, Calls
<1>2. CASE enforceHttps(r)
  BY <1>1, <1>2, AnswerOK, PlainOK DEF enforceHttps, Codes, Passes
<1>3. CASE ipAuth(r)
  BY <1>1, <1>3, AnswerOK, PlainOK DEF ipAuth, Codes, Passes
<1>4. CASE basicAuth(r)
  BY <1>1, <1>4, AnswerOK, PlainOK DEF basicAuth, Codes, Passes
<1>5. CASE subrequestAuth(r)
  BY <1>1, <1>5, AnswerOK, GrantedOK DEF subrequestAuth, Codes
<1>6. CASE oidc(r)
  BY <1>1, <1>6, AnswerOK, GrantedOK DEF oidc, Codes
<1>7. CASE denyRoute(r)
  BY <1>1, <1>7, AnswerOK, PlainOK DEF denyRoute, Codes, Passes
<1>8. CASE customHeader(r)
  BY <1>8, HeadedOK, PlainOK DEF customHeader, Passes
<1>9. CASE upstreamHeader(r)
  BY <1>9, PlainOK DEF upstreamHeader, Passes
<1> QED BY <1>2, <1>3, <1>4, <1>5, <1>6, <1>7, <1>8, <1>9
====
