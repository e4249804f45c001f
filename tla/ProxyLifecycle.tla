---- MODULE ProxyLifecycle ----
(***************************************************************************)
(* The life of the process: main (cmd/main.go), Proxy.Start with its       *)
(* listeners (pkg/proxy/proxy.go, proxy_http.go, proxy_tcp.go) and         *)
(* IngressController.Run (pkg/controller/controller.go), each a goroutine  *)
(* with a program counter, from the end of Init to the exit of the process.*)
(* A channel without buffer is a step its two ends take together.          *)
(***************************************************************************)
EXTENDS Sequences, FiniteSets, Integers

CONSTANTS
  Servers,        \* the HTTP servers: https, http, quic and status
  Quic,           \* the one that runs in serveQuic and opens its socket in its goroutine
  ServerOrder,    \* the order startListeners takes them in
  Tcp,            \* TCP listeners
  TcpConfigs,     \* the values RoutingConfig.TcpProxy may have, sequences over Tcp
  ChanCap         \* the buffer of configChan: 5

ASSUME LifecycleAssumption ==
  /\ Quic \in Servers /\ Servers \cap Tcp = {} /\ ChanCap \in Nat
  /\ ServerOrder \in Seq(Servers) /\ Len(ServerOrder) >= 2
  /\ Len(ServerOrder) = Cardinality(Servers)
  /\ {ServerOrder[k] : k \in 1..Len(ServerOrder)} = Servers
  /\ TcpConfigs \subseteq Seq(Tcp)
  /\ \A c \in TcpConfigs : \A j, k \in 1..Len(c) : c[j] = c[k] => j = k

VARIABLES
  main, sigChan, ctxDone,        \* main; a signal waits; ctx is cancelled
  run, configChan,               \* Run; length of configChan
  start, toStart, tcp,           \* Start; the listeners left to start; cfg.TcpProxy
  ready, startDone,              \* Proxy.ready; startCtx is cancelled
  shutdownInitiated, received, failed,   \* received: len(handlerErrors); one of them is not nil
  serve, inner, err, sent, out,  \* serve(): itself, its goroutine, err, the value sent to it, it failed
  accept, closer                 \* startTcpProxy: its goroutines

mainVars == <<main, sigChan, ctxDone>>
runVars == <<run, configChan>>
startVars == <<start, toStart, tcp, ready, startDone, shutdownInitiated, received, failed>>
serveVars == <<serve, inner, err, sent, out>>
tcpVars == <<accept, closer>>
vars == <<mainVars, runVars, startVars, serveVars, tcpVars>>

(* closed: ErrServerClosed; fail: any other error, GracefulTimeout's included. *)
Error == {"nil", "closed", "fail"}

(* Every variable stays in its type; configChan never holds more than its buffer. *)
TypeOK ==
  /\ main \in {"signal", "wait", "exited"} /\ sigChan \in BOOLEAN /\ ctxDone \in BOOLEAN
  /\ run \in {"select", "send", "ended"} /\ configChan \in 0..ChanCap
  /\ start \in {"config", "listen", "loop", "sleep", "returned"}
  /\ toStart \in Seq(Servers \cup Tcp) /\ tcp \in TcpConfigs \cup {<<>>}
  /\ ready \in BOOLEAN /\ startDone \in BOOLEAN /\ shutdownInitiated \in BOOLEAN
  /\ received \in Nat /\ failed \in BOOLEAN
  /\ serve \in [Servers -> {"off", "select", "shutdown", "wait", "report", "gone"}]
  /\ inner \in [Servers -> {"off", "listen", "serve", "wrote", "send", "gone"}]
  /\ err \in [Servers -> Error] /\ sent \in [Servers -> Error] /\ out \in [Servers -> BOOLEAN]
  /\ accept \in [Tcp -> {"off", "accept", "report", "gone"}]
  /\ closer \in [Tcp -> {"off", "wait", "report", "last", "gone"}]

Init ==
  /\ main = "signal" /\ sigChan = FALSE /\ ctxDone = FALSE
  /\ run = "select" /\ configChan = 0
  /\ start = "config" /\ toStart = <<>> /\ tcp = <<>>
  /\ ready = FALSE /\ startDone = FALSE /\ shutdownInitiated = FALSE
  /\ received = 0 /\ failed = FALSE
  /\ serve = [s \in Servers |-> "off"] /\ inner = [s \in Servers |-> "off"]
  /\ err = [s \in Servers |-> "nil"] /\ sent = err /\ out = [s \in Servers |-> FALSE]
  /\ accept = [t \in Tcp |-> "off"] /\ closer = [t \in Tcp |-> "off"]

(***************************************************************************)
(* main.                                                                   *)
(***************************************************************************)
Signal ==
  /\ ~sigChan /\ sigChan' = TRUE
  /\ UNCHANGED <<main, ctxDone, runVars, startVars, serveVars, tcpVars>>

mainSignalled ==
  /\ main = "signal" /\ sigChan
  /\ main' = "wait" /\ ctxDone' = TRUE
  /\ UNCHANGED <<sigChan, runVars, startVars, serveVars, tcpVars>>

mainExits ==
  /\ main = "wait" /\ run = "ended" /\ start = "returned"
  /\ main' = "exited"
  /\ UNCHANGED <<sigChan, ctxDone, runVars, startVars, serveVars, tcpVars>>

(***************************************************************************)
(* Run.  What it reads and sends is in Controller; here a request may be   *)
(* there at any time.                                                      *)
(***************************************************************************)
RunDone ==
  /\ run = "select" /\ ctxDone
  /\ run' = "ended"
  /\ UNCHANGED <<configChan, mainVars, startVars, serveVars, tcpVars>>

RunReconfigure ==
  /\ run = "select"
  /\ run' = "send"
  /\ UNCHANGED <<configChan, mainVars, startVars, serveVars, tcpVars>>

(* Mutant: the buffer takes one configuration too many. *)
RunSendOverfull ==
  /\ run = "send" /\ configChan <= ChanCap
  /\ run' = "select" /\ configChan' = configChan + 1
  /\ UNCHANGED <<mainVars, startVars, serveVars, tcpVars>>

(* The send is no case of the select: it does not look at ctx. *)
RunSend ==
  /\ run = "send" /\ configChan < ChanCap
  /\ run' = "select" /\ configChan' = configChan + 1
  /\ UNCHANGED <<mainVars, startVars, serveVars, tcpVars>>

(***************************************************************************)
(* Start, until its loop.                                                  *)
(***************************************************************************)

(* Start returns: the deferred cancel, and main's cancel if there is an error. *)
Return(e) ==
  /\ start' = "returned" /\ startDone' = TRUE
  /\ ctxDone' = (ctxDone \/ e)

waitForConfig ==
  /\ start = "config" /\ configChan > 0
  /\ configChan' = configChan - 1
  /\ \E c \in TcpConfigs : tcp' = c /\ toStart' = ServerOrder \o c
  /\ start' = "listen"
  /\ UNCHANGED <<ready, startDone, shutdownInitiated, received, failed, run, mainVars, serveVars, tcpVars>>

waitForConfigDone ==
  /\ start = "config" /\ ctxDone
  /\ Return(TRUE)
  /\ UNCHANGED <<main, sigChan, toStart, tcp, ready, shutdownInitiated, received, failed, runVars, serveVars, tcpVars>>

(* The listener is open, except that of startQuic. *)
startServer(s) ==
  /\ start = "listen" /\ toStart # <<>> /\ Head(toStart) = s
  /\ toStart' = Tail(toStart)
  /\ serve' = [serve EXCEPT ![s] = "select"]
  /\ inner' = [inner EXCEPT ![s] = IF s = Quic THEN "listen" ELSE "serve"]
  /\ UNCHANGED <<start, tcp, ready, startDone, shutdownInitiated, received, failed, err, sent, out>>
  /\ UNCHANGED <<mainVars, runVars, tcpVars>>

startTcpProxy(t) ==
  /\ start = "listen" /\ toStart # <<>> /\ Head(toStart) = t
  /\ toStart' = Tail(toStart)
  /\ accept' = [accept EXCEPT ![t] = "accept"] /\ closer' = [closer EXCEPT ![t] = "wait"]
  /\ UNCHANGED <<start, tcp, ready, startDone, shutdownInitiated, received, failed>>
  /\ UNCHANGED <<mainVars, runVars, serveVars>>

(* The listen of all but startQuic may fail. *)
ListenFails ==
  /\ start = "listen" /\ toStart # <<>> /\ Head(toStart) # Quic
  /\ Return(TRUE)
  /\ UNCHANGED <<main, sigChan, toStart, tcp, ready, shutdownInitiated, received, failed, runVars, serveVars, tcpVars>>

listenersStarted ==
  /\ start = "listen" /\ toStart = <<>>
  /\ start' = "loop" /\ ready' = TRUE
  /\ UNCHANGED <<toStart, tcp, startDone, shutdownInitiated, received, failed, mainVars, runVars, serveVars, tcpVars>>

(***************************************************************************)
(* The loop of Start.                                                      *)
(***************************************************************************)
handlerCount == Len(ServerOrder) + Len(tcp)

reconfigured ==
  /\ start = "loop" /\ configChan > 0
  /\ configChan' = configChan - 1
  /\ UNCHANGED <<run, mainVars, startVars, serveVars, tcpVars>>

(* Mutant: the others are not told. *)
somethingEndedAlone(e) ==
  /\ start = "loop"
  /\ ready' = FALSE /\ received' = received + 1 /\ failed' = (failed \/ e)
  /\ IF received + 1 < handlerCount THEN UNCHANGED <<start, startDone, ctxDone>>
     ELSE Return(failed')
  /\ UNCHANGED <<main, sigChan, toStart, tcp, shutdownInitiated, runVars>>

(* Start receives from errChan; e: an error, not nil. *)
somethingEnded(e) ==
  /\ start = "loop"
  /\ ready' = FALSE /\ received' = received + 1 /\ failed' = (failed \/ e)
  /\ IF received + 1 < handlerCount THEN startDone' = TRUE /\ UNCHANGED <<start, ctxDone>>
     ELSE Return(failed')
  /\ UNCHANGED <<main, sigChan, toStart, tcp, shutdownInitiated, runVars>>

(* Mutant: the probe keeps answering that the proxy is ready. *)
shutdownSignalledReady ==
  /\ start = "loop" /\ ctxDone /\ ~shutdownInitiated
  /\ shutdownInitiated' = TRUE /\ start' = "sleep"
  /\ UNCHANGED <<toStart, tcp, ready, startDone, received, failed, mainVars, runVars, serveVars, tcpVars>>

shutdownSignalled ==
  /\ start = "loop" /\ ctxDone /\ ~shutdownInitiated
  /\ ready' = FALSE /\ shutdownInitiated' = TRUE /\ start' = "sleep"
  /\ UNCHANGED <<toStart, tcp, startDone, received, failed, mainVars, runVars, serveVars, tcpVars>>

(* Mutant: after the pause nothing is shut down. *)
shutdownPropagatedOnly ==
  /\ start = "sleep" /\ start' = "loop"
  /\ UNCHANGED <<toStart, tcp, ready, startDone, shutdownInitiated, received, failed>>
  /\ UNCHANGED <<mainVars, runVars, serveVars, tcpVars>>

(* ShutdownPropagationTimeout is over. *)
shutdownPropagated ==
  /\ start = "sleep" /\ start' = "loop" /\ startDone' = TRUE
  /\ UNCHANGED <<toStart, tcp, ready, shutdownInitiated, received, failed>>
  /\ UNCHANGED <<mainVars, runVars, serveVars, tcpVars>>

(***************************************************************************)
(* serve and serveQuic.  err is shared with the goroutine that runs Serve, *)
(* without a lock: its assignment and the read that follows it are steps   *)
(* of their own.                                                           *)
(***************************************************************************)
notServe == <<mainVars, runVars, startVars, tcpVars>>

(* ListenAndServe opens the socket, at any time after startQuic has returned; not
   once Shutdown has closed the server.                                        *)
QuicListens ==
  /\ inner[Quic] = "listen" /\ serve[Quic] \in {"select", "shutdown"}
  /\ inner' = [inner EXCEPT ![Quic] = "serve"]
  /\ UNCHANGED <<serve, err, sent, out, notServe>>

(* Serve, or ListenAndServe, which may fail to open the socket. *)
ServeReturns(s, e) ==
  /\ inner[s] \in {"listen", "serve"}
  /\ inner' = [inner EXCEPT ![s] = "wrote"] /\ err' = [err EXCEPT ![s] = e]
  /\ UNCHANGED <<serve, sent, out, notServe>>

ServeFails(s) == serve[s] = "select" /\ ServeReturns(s, "fail")

ServeCloses(s) == serve[s] \in {"shutdown", "wait"} /\ ServeReturns(s, "closed")

innerSends(s) ==
  /\ inner[s] = "wrote"
  /\ inner' = [inner EXCEPT ![s] = "send"] /\ sent' = [sent EXCEPT ![s] = err[s]]
  /\ UNCHANGED <<serve, err, out, notServe>>

Shutdown(s) ==
  /\ serve[s] = "select" /\ startDone
  /\ serve' = [serve EXCEPT ![s] = "shutdown"]
  /\ UNCHANGED <<inner, err, sent, out, notServe>>

ShutdownReturns(s) ==
  /\ serve[s] = "shutdown"
  /\ serve' = [serve EXCEPT ![s] = "wait"]
  /\ \E e \in {"nil", "fail"} : err' = [err EXCEPT ![s] = e]
  /\ UNCHANGED <<inner, sent, out, notServe>>

isServerClosedError(e) == e = "closed"

(* Does serve return an error after a shutdown?  serveQuic forgives a closed server here too. *)
ShutdownError(s) ==
  \/ sent[s] # "nil" /\ ~isServerClosedError(sent[s])
  \/ err[s] # "nil" /\ ~(s = Quic /\ isServerClosedError(err[s]))

(* serve receives from its goroutine and returns; the caller offers the result to Start. *)
serveReturns(s) ==
  /\ serve[s] \in {"wait", "select"} /\ inner[s] = "send"
  /\ inner' = [inner EXCEPT ![s] = "gone"] /\ serve' = [serve EXCEPT ![s] = "report"]
  /\ out' = [out EXCEPT ![s] = IF serve[s] = "wait" THEN ShutdownError(s) ELSE sent[s] # "nil"]
  /\ err' = [err EXCEPT ![s] = "nil"] /\ sent' = [sent EXCEPT ![s] = "nil"]   \* locals, gone
  /\ UNCHANGED notServe

serverEnded(s) ==
  /\ serve[s] = "report" /\ somethingEnded(out[s])
  /\ serve' = [serve EXCEPT ![s] = "gone"] /\ out' = [out EXCEPT ![s] = FALSE]
  /\ UNCHANGED <<inner, err, sent, tcpVars>>

(***************************************************************************)
(* startTcpProxy.                                                          *)
(***************************************************************************)
notTcp == <<mainVars, runVars, startVars, serveVars>>

(* AcceptTCP fails: the listener is closed, or any other error. *)
AcceptFails(t) ==
  /\ accept[t] = "accept"
  /\ accept' = [accept EXCEPT ![t] = "report"]
  /\ UNCHANGED <<closer, notTcp>>

(* Its cancel comes too late to matter: Start has cancelled the parent. *)
acceptEnded(t) ==
  /\ accept[t] = "report" /\ somethingEnded(TRUE)
  /\ accept' = [accept EXCEPT ![t] = "gone"]
  /\ UNCHANGED <<closer, serveVars>>

closeListener(t) ==
  /\ closer[t] = "wait" /\ startDone
  /\ \E c \in {"report", "last"} : closer' = [closer EXCEPT ![t] = c]
  /\ UNCHANGED <<accept, notTcp>>

closerEnded(t) ==
  \/ /\ closer[t] = "report" /\ somethingEnded(TRUE)
     /\ closer' = [closer EXCEPT ![t] = "last"]
     /\ UNCHANGED <<accept, serveVars>>
  \/ /\ closer[t] = "last" /\ somethingEnded(FALSE)
     /\ closer' = [closer EXCEPT ![t] = "gone"]
     /\ UNCHANGED <<accept, serveVars>>

----------------------------------------------------------------------------
(* The steps of each goroutine; none is taken once main has returned. *)
Alive == main # "exited"

Environment == Alive /\ (Signal \/ RunReconfigure)

Starting ==
  /\ Alive
  /\ \/ waitForConfig \/ waitForConfigDone \/ ListenFails \/ listenersStarted
     \/ (\E s \in Servers : startServer(s)) \/ (\E t \in Tcp : startTcpProxy(t))

Receive ==
  /\ Alive
  /\ \/ \E s \in Servers : serverEnded(s)
     \/ \E t \in Tcp : acceptEnded(t) \/ closerEnded(t)

Stopping == Alive /\ (shutdownSignalled \/ shutdownPropagated)

Server(s) ==
  /\ Alive
  /\ ServeCloses(s) \/ innerSends(s) \/ Shutdown(s) \/ ShutdownReturns(s) \/ serveReturns(s)

TcpListener(t) ==
  /\ Alive
  /\ \/ closeListener(t)
     \/ closer[t] \notin {"off", "wait"} /\ AcceptFails(t)

Failure ==
  /\ Alive
  /\ (\E s \in Servers : ServeFails(s)) \/ (\E t \in Tcp : AcceptFails(t))

Next ==
  \/ mainSignalled \/ mainExits \/ Environment
  \/ (Alive /\ RunDone) \/ (Alive /\ RunSend)
  \/ Starting \/ (Alive /\ reconfigured) \/ Receive \/ Stopping \/ (Alive /\ QuicListens)
  \/ (\E s \in Servers : Server(s)) \/ (\E t \in Tcp : TcpListener(t)) \/ Failure

Spec == Init /\ [][Next]_vars

(* The Go scheduler runs what can run (weak).  A select picks one of its ready
   cases at random, so a case that is ready again and again is picked (strong).
   Shutdown returns, at the latest after GracefulTimeout.  Nothing is assumed
   about signals, requests, failures or the listeners' opening.               *)
Fairness ==
  /\ WF_vars(mainSignalled) /\ WF_vars(mainExits)
  /\ SF_vars(RunDone) /\ WF_vars(RunSend)
  /\ WF_vars(Starting) /\ SF_vars(Receive) /\ SF_vars(Stopping)
  /\ \A s \in Servers : WF_vars(Server(s))
  /\ \A t \in Tcp : WF_vars(TcpListener(t))

FairSpec == Spec /\ Fairness

(***************************************************************************)
(* Properties.                                                             *)
(***************************************************************************)

(* A handler has ended when it stopped accepting and only its report is left. *)
HandlerState ==
  [h \in Servers \cup Tcp |->
    IF h \in Servers
    THEN CASE serve[h] = "off" -> "new"
           [] serve[h] = "select" /\ inner[h] = "listen" -> "opening"
           [] serve[h] = "select" /\ inner[h] = "serve" -> "open"
           [] serve[h] = "select" /\ inner[h] \notin {"listen", "serve"} -> "failed"
           [] serve[h] \in {"report", "gone"} -> "ended"
           [] OTHER -> "closing"
    ELSE CASE accept[h] = "off" -> "new"
           [] accept[h] = "accept" /\ closer[h] = "wait" -> "open"
           [] accept[h] = "accept" /\ closer[h] # "wait" -> "closing"
           [] accept[h] \in {"report", "gone"} /\ closer[h] = "wait" -> "failed"
           [] OTHER -> "ended"]

Phase ==
  CASE start \in {"config", "listen"} -> "starting"
    [] start \in {"loop", "sleep"} -> IF ready THEN "ready" ELSE "draining"
    [] OTHER -> "stopped"

(* The handlers of the configuration Start has received, if it has. *)
Used ==
  IF toStart = <<>> /\ \A s \in Servers : serve[s] = "off" THEN {}
  ELSE Servers \cup {tcp[k] : k \in 1..Len(tcp)}

Service == INSTANCE ProxyService WITH
  Handlers <- Servers \cup Tcp, Late <- {Quic}, phase <- Phase, used <- Used, handler <- HandlerState

(* The goroutines of Start and its listeners keep the promise of ProxyService:
   ready only when every listener that Start opens has been opened and QUIC has
   been started, whose socket may come later or fail; no listener closed while
   the probe says ready; and a return only when the handlers have ended, up to
   two for each TCP proxy.                                                    *)
ServiceKept == Service!Spec

(* Run waits for room in configChan, which nobody will make. *)
RunBlocked == run = "send" /\ configChan = ChanCap /\ start = "returned"

(* SIGTERM ends the process, whatever fails before or meanwhile, unless Run was
   about to send one configuration more than the channel takes when Start had
   returned: the wait in main is for Run and Start both.                      *)
ShutdownCompletes == sigChan ~> (main = "exited" \/ RunBlocked)

(* The failure of one server brings Start to an end, with no signal: the error
   is received and startCtx cancelled, which closes every other listener.     *)
FailureStops ==
  (\E s \in Servers : serve[s] = "select" /\ inner[s] \in {"wrote", "send"})
    ~> (start = "returned" \/ main = "exited")

(* Start counts one end for each handler, so that when its loop is over every
   server has finished its requests.                                          *)
EndsAfterHandlers ==
  start = "returned" /\ received > 0 => \A s \in Servers : serve[s] \in {"report", "gone"}
====
