---- MODULE LifecycleProofs ----
(***************************************************************************)
(* The goroutines of Start and its listeners implement ProxyService, for   *)
(* any servers, TCP proxies and capacity of configChan.  The argument is a *)
(* count: Start returns after as many receives as there are handlers, and  *)
(* a TCP listener can be received from three times.                        *)
(***************************************************************************)
EXTENDS ProxyLifecycle, FiniteSetTheorems, TLAPS

(* The TCP listeners of the configuration that Start has received. *)
Proxies == {tcp[k] : k \in 1..Len(tcp)}

(* What Start can receive: one end of each server, three of each TCP listener. *)
Ends == (Servers \X {"serve"}) \cup (Proxies \X {"accept", "report", "last"})

(* It cannot be received any more. *)
Over(h, e) ==
  \/ e = "serve" /\ serve[h] = "gone"
  \/ e = "accept" /\ accept[h] = "gone"
  \/ e = "report" /\ closer[h] \in {"last", "gone"}
  \/ e = "last" /\ closer[h] = "gone"

Past == {x \in Ends : Over(x[1], x[2])}

(* It is being offered to Start. *)
Offered(h, e) ==
  \/ e = "serve" /\ h \in Servers /\ serve[h] = "report"
  \/ e = "accept" /\ h \in Proxies /\ accept[h] = "report"
  \/ e = "report" /\ h \in Proxies /\ closer[h] = "report"
  \/ e = "last" /\ h \in Proxies /\ closer[h] = "last"

(* A finite set with one more element. *)
LEMMA OneMore ==
  ASSUME NEW S, NEW x, IsFiniteSet(S), x \notin S
  PROVE  IsFiniteSet(S \cup {x}) /\ Cardinality(S \cup {x}) = Cardinality(S) + 1
BY FS_AddElement

(* ServerOrder has each server once. *)
LEMMA ServersFinite == IsFiniteSet(Servers) /\ Cardinality(Servers) = Len(ServerOrder)
<1>1. ServerOrder \in Surjection(1..Len(ServerOrder), Servers)
  BY LifecycleAssumption DEF Surjection
<1>2. IsFiniteSet(1..Len(ServerOrder))
  BY LifecycleAssumption, FS_Interval
<1> QED BY <1>1, <1>2, FS_Surjection, LifecycleAssumption

(* A configuration has each TCP proxy once. *)
LEMMA ProxiesFinite ==
  ASSUME tcp \in TcpConfigs \cup {<<>>}
  PROVE  /\ IsFiniteSet(Proxies) /\ Cardinality(Proxies) = Len(tcp) /\ Len(tcp) \in Nat
         /\ Proxies \subseteq Tcp
<1>1. tcp \in Seq(Tcp) /\ \A j, k \in 1..Len(tcp) : tcp[j] = tcp[k] => j = k
  <2>1. CASE tcp \in TcpConfigs
    BY <2>1, LifecycleAssumption
  <2>2. CASE tcp = <<>>
    BY <2>2
  <2> QED BY <2>1, <2>2
<1>2. Len(tcp) \in Nat /\ tcp \in [1..Len(tcp) -> Tcp]
  BY <1>1
<1>3. tcp \in [1..Len(tcp) -> Proxies]
  BY <1>2 DEF Proxies
<1>4. tcp \in Bijection(1..Len(tcp), Proxies)
  <2>1. tcp \in Injection(1..Len(tcp), Proxies)
    BY <1>1, <1>3 DEF Injection, IsInjective
  <2>2. tcp \in Surjection(1..Len(tcp), Proxies)
    BY <1>3 DEF Surjection, Proxies
  <2> QED BY <2>1, <2>2 DEF Bijection
<1>5. ExistsBijection(1..Len(tcp), Proxies)
  BY <1>4 DEF ExistsBijection
<1>6. IsFiniteSet(1..Len(tcp)) /\ Cardinality(1..Len(tcp)) = Len(tcp)
  BY <1>2, FS_Interval
<1> QED BY <1>2, <1>5, <1>6, FS_Bijection DEF Proxies

(* Finitely many ends, counted. *)
LEMMA EndsFinite ==
  ASSUME tcp \in TcpConfigs \cup {<<>>}
  PROVE  /\ IsFiniteSet(Ends)
         /\ Cardinality(Ends) <= Len(ServerOrder) + 3 * Len(tcp)
<1> DEFINE three == {"accept", "report", "last"}
<1>1. IsFiniteSet({"serve"}) /\ Cardinality({"serve"}) = 1
  BY FS_Singleton, Zenon
<1>2. IsFiniteSet(three) /\ Cardinality(three) = 3
  <2> DEFINE one == {"accept"}
             two == one \cup {"report"}
  <2>1. IsFiniteSet(one) /\ Cardinality(one) = 1
    BY FS_Singleton, Zenon
  <2>2. "report" \notin one /\ "last" \notin two /\ three = two \cup {"last"}
    OBVIOUS
  <2> HIDE DEF one, three
  <2>3. IsFiniteSet(two) /\ Cardinality(two) = 2
    BY <2>1, <2>2, OneMore
  <2> HIDE DEF two
  <2> QED BY <2>2, <2>3, OneMore
<1> HIDE DEF three
<1>3. IsFiniteSet(Servers \X {"serve"}) /\ Cardinality(Servers \X {"serve"}) = Cardinality(Servers) * 1
  BY <1>1, ServersFinite, FS_Product
<1>4. IsFiniteSet(Proxies \X three) /\ Cardinality(Proxies \X three) = Cardinality(Proxies) * 3
  BY <1>2, ProxiesFinite, FS_Product
<1> DEFINE A == Servers \X {"serve"}
           B == Proxies \X three
<1>5. Ends = A \cup B
  BY DEF Ends, three
<1>6. /\ IsFiniteSet(A \cup B) /\ Cardinality(A \cup B) = Cardinality(A) + Cardinality(B) - Cardinality(A \cap B)
      /\ Cardinality(A \cap B) \in Nat
  BY <1>3, <1>4, FS_Union, FS_Intersection, FS_CardinalityType, Zenon
<1>8. Len(ServerOrder) \in Nat /\ Len(tcp) \in Nat
  BY ProxiesFinite, LifecycleAssumption
<1>7. Cardinality(A) = Len(ServerOrder) /\ Cardinality(B) = Len(tcp) * 3
  <2>1. Len(ServerOrder) * 1 = Len(ServerOrder)
    BY <1>8
  <2> QED BY <1>3, <1>4, <2>1, ServersFinite, ProxiesFinite
<1> HIDE DEF A, B
<1> QED BY <1>5, <1>6, <1>7, <1>8

----------------------------------------------------------------------------
(* The abstract state of a handler, case by case. *)
LEMMA ServerState ==
  ASSUME NEW s \in Servers
  PROVE  /\ serve[s] = "off" => HandlerState[s] = "new"
         /\ serve[s] = "select" /\ inner[s] = "listen" => HandlerState[s] = "opening"
         /\ serve[s] = "select" /\ inner[s] = "serve" => HandlerState[s] = "open"
         /\ serve[s] = "select" /\ inner[s] \notin {"listen", "serve"} => HandlerState[s] = "failed"
         /\ serve[s] \in {"shutdown", "wait"} => HandlerState[s] = "closing"
         /\ serve[s] \in {"report", "gone"} => HandlerState[s] = "ended"
BY DEF HandlerState

(* What the two goroutines of a TCP listener show of it. *)
LEMMA TcpState ==
  ASSUME NEW t \in Tcp
  PROVE  /\ accept[t] = "off" => HandlerState[t] = "new"
         /\ accept[t] = "accept" /\ closer[t] = "wait" => HandlerState[t] = "open"
         /\ accept[t] \in {"report", "gone"} /\ closer[t] = "wait" => HandlerState[t] = "failed"
         /\ accept[t] = "accept" /\ closer[t] # "wait" => HandlerState[t] = "closing"
         /\ accept[t] \in {"report", "gone"} /\ closer[t] # "wait" => HandlerState[t] = "ended"
<1>1. t \notin Servers
  BY LifecycleAssumption
<1> QED BY <1>1 DEF HandlerState

(* Both goroutines of a TCP listener are started together. *)
Together == \A t \in Tcp : accept[t] = "off" <=> closer[t] = "off"

Working == {h \in Servers \cup Proxies : HandlerState[h] # "ended"}

(* A handler at work has an end that Start has not received, another one than
   the one it is being offered.                                               *)
LEMMA WorkBounded ==
  ASSUME TypeOK, Together, NEW h, NEW e, Offered(h, e),
         received <= Cardinality(Past), handlerCount <= received + 1
  PROVE  IsFiniteSet(Working) /\ Cardinality(Working) <= 2 * Cardinality(Proxies)
<1> DEFINE x == <<h, e>>
           Left == Ends \ (Past \cup {x})
           f == [g \in Working |-> IF g \in Servers THEN <<g, "serve">>
                                  ELSE IF closer[g] \in {"off", "wait"} THEN <<g, "report">>
                                  ELSE <<g, "accept">>]
<1>0. /\ tcp \in TcpConfigs \cup {<<>>} /\ received \in Nat
      /\ serve \in [Servers -> {"off", "select", "shutdown", "wait", "report", "gone"}]
      /\ accept \in [Tcp -> {"off", "accept", "report", "gone"}]
      /\ closer \in [Tcp -> {"off", "wait", "report", "last", "gone"}]
      /\ Proxies \subseteq Tcp /\ Servers \cap Tcp = {}
  BY ProxiesFinite, LifecycleAssumption DEF TypeOK
<1>1. x \in Ends /\ x \notin Past
  BY <1>0 DEF Offered, Ends, Past, Over
<1>2. ASSUME NEW g \in Working PROVE f[g] \in Left
  <2>1. CASE g \in Servers
    <3>1. serve[g] \notin {"report", "gone"}
      BY <2>1, ServerState DEF Working
    <3>2. f[g] = <<g, "serve">>
      BY <2>1
    <3> HIDE DEF f
    <3> QED BY <2>1, <3>1, <3>2 DEF Offered, Ends, Past, Over
  <2>2. CASE g \notin Servers
    <3>0. g \in Proxies /\ g \in Tcp
      BY <1>0, <2>2 DEF Working
    <3>1. CASE closer[g] \in {"off", "wait"}
      <4>1. f[g] = <<g, "report">>
        BY <2>2, <3>1
      <4> HIDE DEF f
      <4> QED BY <3>0, <3>1, <4>1 DEF Offered, Ends, Past, Over
    <3>2. CASE closer[g] \notin {"off", "wait"}
      <4>1. f[g] = <<g, "accept">>
        BY <2>2, <3>2
      <4>2. accept[g] = "accept"
        BY <1>0, <3>0, <3>2, TcpState DEF Working, Together
      <4> HIDE DEF f
      <4> QED BY <3>0, <4>1, <4>2 DEF Offered, Ends, Past, Over
    <3> QED BY <3>1, <3>2
  <2> QED BY <2>1, <2>2
<1>3. f \in Injection(Working, Left)
  <2>1. f \in [Working -> Left]
    BY <1>2
  <2>2. \A g \in Working : f[g][1] = g
    OBVIOUS
  <2>3. \A a, b \in Working : f[a] = f[b] => a = b
    <3> HIDE DEF f
    <3> QED BY <2>2
  <2> HIDE DEF f, Left
  <2> QED BY <2>1, <2>3 DEF Injection, IsInjective
<1>4. IsFiniteSet(Ends) /\ Cardinality(Ends) <= Len(ServerOrder) + 3 * Len(tcp)
  BY <1>0, EndsFinite
<1>5. /\ IsFiniteSet(Past \cup {x}) /\ Cardinality(Past \cup {x}) = Cardinality(Past) + 1
      /\ Cardinality(Past) \in Nat
  <2>1. IsFiniteSet(Past)
    BY <1>4, FS_Subset DEF Past
  <2> HIDE DEF x
  <2> QED BY <1>1, <2>1, OneMore, FS_CardinalityType
<1>6. IsFiniteSet(Left) /\ Cardinality(Left) = Cardinality(Ends) - Cardinality(Past \cup {x})
  <2>1. Ends \cap (Past \cup {x}) = Past \cup {x}
    BY <1>1 DEF Past
  <2> HIDE DEF x
  <2> QED BY <1>4, <2>1, FS_Difference, ZenonT(40)
<1>7. IsFiniteSet(Working) /\ Cardinality(Working) <= Cardinality(Left)
  <2> HIDE DEF f, Left
  <2> QED BY <1>3, <1>6, FS_Injection
<1>8. Cardinality(Proxies) = Len(tcp) /\ Len(tcp) \in Nat /\ Len(ServerOrder) \in Nat
  BY <1>0, ProxiesFinite, LifecycleAssumption
<1>9. Cardinality(Ends) \in Nat /\ Cardinality(Working) \in Nat
  BY <1>4, <1>7, FS_CardinalityType
<1>10. handlerCount = Len(ServerOrder) + Len(tcp)
  BY DEF handlerCount
<1> HIDE DEF f, Left, x
<1> QED BY <1>0, <1>4, <1>5, <1>6, <1>7, <1>8, <1>9, <1>10

----------------------------------------------------------------------------
Off(h) == IF h \in Servers THEN serve[h] = "off" ELSE accept[h] = "off"

Waiting == {toStart[k] : k \in 1..Len(toStart)}

(* While startListeners is at work the handlers that are off are those left to start. *)
OrderInv ==
  /\ start = "config" => toStart = <<>> /\ tcp = <<>> /\ \A h \in Servers \cup Tcp : Off(h)
  /\ start = "listen" =>
       /\ \A j, k \in 1..Len(toStart) : toStart[j] = toStart[k] => j = k
       /\ Waiting \subseteq Servers \cup Proxies
       /\ \A h \in Servers \cup Proxies : Off(h) <=> h \in Waiting
  /\ start \in {"loop", "sleep"} => toStart = <<>> /\ \A h \in Servers \cup Proxies : ~Off(h)
  /\ \A t \in Tcp \ Proxies : accept[t] = "off"

(* Readiness goes with the first receive and before any cancel, and Start never
   receives more ends than there are.                                          *)
PhaseInv ==
  /\ ready => start = "loop" /\ received = 0 /\ ~startDone
  /\ start \in {"config", "listen"} => received = 0 /\ ~startDone
  /\ received <= Cardinality(Past)

LifecycleInv == TypeOK /\ Together /\ OrderInv /\ PhaseInv

(* What Start's receive does to its own variables. *)
LEMMA ReceiveType ==
  ASSUME TypeOK, NEW e \in BOOLEAN, somethingEnded(e)
  PROVE  /\ ready' = FALSE /\ received' = received + 1 /\ received' \in Nat /\ failed' \in BOOLEAN
         /\ start = "loop" /\ start' \in {"loop", "returned"} /\ startDone' = TRUE
         /\ ctxDone' \in BOOLEAN
         /\ start' = "returned" => handlerCount <= received + 1
         /\ start' = "loop" => received + 1 < handlerCount
         /\ UNCHANGED <<main, sigChan, toStart, tcp, shutdownInitiated, runVars>>
<1>1. received \in Nat /\ Len(tcp) \in Nat /\ Len(ServerOrder) \in Nat
  BY ProxiesFinite, LifecycleAssumption DEF TypeOK
<1>2. handlerCount \in Nat
  BY <1>1 DEF handlerCount
<1>3. /\ start = "loop" /\ ready' = FALSE /\ received' = received + 1
      /\ UNCHANGED <<main, sigChan, toStart, tcp, shutdownInitiated, runVars>>
  BY DEF somethingEnded
<1>4. failed' = (failed \/ e)
  BY Zenon DEF somethingEnded
<1>5. failed' \in BOOLEAN
  BY <1>4, Zenon
<1>6. CASE received + 1 < handlerCount
  <2>1. startDone' = TRUE /\ UNCHANGED <<start, ctxDone>>
    BY <1>6 DEF somethingEnded
  <2> QED BY <1>1, <1>3, <1>5, <1>6, <2>1 DEF TypeOK
<1>7. CASE ~(received + 1 < handlerCount)
  <2>1. Return(failed')
    BY <1>7 DEF somethingEnded
  <2>2. start' = "returned" /\ startDone' = TRUE
    BY <2>1 DEF Return
  <2>3. ctxDone' \in BOOLEAN
    BY <2>1, Zenon DEF Return
  <2> QED BY <1>1, <1>2, <1>3, <1>5, <1>7, <2>2, <2>3
<1> QED BY <1>6, <1>7, Zenon

(* Every step keeps the types. *)
LEMMA TypeStep == TypeOK /\ [Next]_vars => TypeOK'
<1> SUFFICES ASSUME TypeOK, [Next]_vars PROVE TypeOK'
  OBVIOUS
<1> USE DEF mainVars, runVars, startVars, serveVars, tcpVars, notServe, notTcp, Error
<1>0. ServerOrder \in Seq(Servers) /\ TcpConfigs \subseteq Seq(Tcp) /\ ChanCap \in Nat
  BY LifecycleAssumption
<1>1. CASE mainSignalled \/ mainExits \/ Environment \/ (Alive /\ RunDone) \/ UNCHANGED vars
  <2>1. CASE mainSignalled
    BY <2>1 DEF mainSignalled, TypeOK
  <2>4. CASE mainExits
    BY <2>4 DEF mainExits, TypeOK
  <2>5. CASE Signal
    BY <2>5 DEF Signal, TypeOK
  <2>2. CASE RunReconfigure \/ RunDone
    BY <2>2 DEF RunReconfigure, RunDone, TypeOK
  <2>3. CASE UNCHANGED vars
    BY <2>3 DEF vars, TypeOK
  <2> QED BY <1>1, <2>1, <2>2, <2>3, <2>4, <2>5 DEF Environment
<1>2. CASE RunSend \/ reconfigured
  BY <1>0, <1>2 DEF RunSend, reconfigured, TypeOK
<1>3. CASE Starting
  <2>1. CASE waitForConfig
    <3>1. PICK c \in TcpConfigs : tcp' = c /\ toStart' = ServerOrder \o c
      BY <2>1 DEF waitForConfig
    <3>2. ServerOrder \in Seq(Servers \cup Tcp) /\ c \in Seq(Servers \cup Tcp)
      BY <1>0
    <3>3. toStart' \in Seq(Servers \cup Tcp)
      BY <3>1, <3>2
    <3> QED BY <1>0, <2>1, <3>1, <3>3 DEF waitForConfig, TypeOK
  <2>2. CASE waitForConfigDone \/ ListenFails
    <3>1. start' = "returned" /\ startDone' = TRUE
      BY <2>2 DEF waitForConfigDone, ListenFails, Return
    <3>2. ctxDone' \in BOOLEAN
      BY <2>2, Zenon DEF waitForConfigDone, ListenFails, Return
    <3>3. UNCHANGED <<main, sigChan, toStart, tcp, ready, shutdownInitiated, received, failed, runVars, serveVars, tcpVars>>
      BY <2>2, Zenon DEF waitForConfigDone, ListenFails
    <3> QED BY <3>1, <3>2, <3>3 DEF TypeOK
  <2>3. CASE listenersStarted
    BY <2>3 DEF listenersStarted, TypeOK
  <2>4. ASSUME NEW s \in Servers, startServer(s) PROVE TypeOK'
    BY <2>4 DEF startServer, TypeOK
  <2>5. ASSUME NEW t \in Tcp, startTcpProxy(t) PROVE TypeOK'
    BY <2>5 DEF startTcpProxy, TypeOK
  <2> QED BY <1>3, <2>1, <2>2, <2>3, <2>4, <2>5 DEF Starting
<1>4. CASE Receive
  <2>1. ASSUME NEW s \in Servers, serverEnded(s) PROVE TypeOK'
    <3>1. out[s] \in BOOLEAN /\ somethingEnded(out[s])
      BY <2>1 DEF serverEnded, TypeOK
    <3> QED BY <2>1, <3>1, ReceiveType, ZenonT(40) DEF serverEnded, TypeOK
  <2>2. ASSUME NEW t \in Tcp, acceptEnded(t) PROVE TypeOK'
    BY <2>2, ReceiveType, Zenon DEF acceptEnded, TypeOK
  <2>3. ASSUME NEW t \in Tcp, closerEnded(t) PROVE TypeOK'
    BY <2>3, ReceiveType, ZenonT(40) DEF closerEnded, TypeOK
  <2> QED BY <1>4, <2>1, <2>2, <2>3 DEF Receive
<1>5. CASE Stopping
  BY <1>5, ZenonT(40) DEF Stopping, shutdownSignalled, shutdownPropagated, TypeOK
<1>q. CASE QuicListens
  BY <1>q, LifecycleAssumption, SMTT(30) DEF QuicListens, TypeOK
<1>6. ASSUME NEW s \in Servers, Server(s) \/ ServeFails(s) PROVE TypeOK'
  <2>1. CASE ServeCloses(s) \/ ServeFails(s)
    BY <2>1, SMTT(30) DEF ServeCloses, ServeFails, ServeReturns, TypeOK
  <2>2. CASE innerSends(s)
    BY <2>2 DEF innerSends, TypeOK
  <2>5. CASE Shutdown(s)
    BY <2>5 DEF Shutdown, TypeOK
  <2>3. CASE ShutdownReturns(s)
    BY <2>3 DEF ShutdownReturns, TypeOK
  <2>4. CASE serveReturns(s)
    <3> DEFINE o == IF serve[s] = "wait" THEN ShutdownError(s) ELSE sent[s] # "nil"
    <3>1. o \in BOOLEAN
      BY Zenon DEF ShutdownError
    <3>2. out' = [out EXCEPT ![s] = o]
      BY <2>4 DEF serveReturns
    <3> HIDE DEF o
    <3> QED BY <2>4, <3>1, <3>2 DEF serveReturns, TypeOK
  <2> QED BY <1>6, <2>1, <2>2, <2>3, <2>4, <2>5 DEF Server
<1>7. ASSUME NEW t \in Tcp, TcpListener(t) \/ AcceptFails(t) PROVE TypeOK'
  BY <1>7 DEF TcpListener, closeListener, AcceptFails, TypeOK
<1> QED BY <1>1, <1>2, <1>3, <1>4, <1>5, <1>6, <1>7, <1>q DEF Next, Failure

----------------------------------------------------------------------------
PastFinite == IsFiniteSet(Past)

LEMMA PastIsFinite == TypeOK => PastFinite
BY EndsFinite, FS_Subset DEF Past, TypeOK, PastFinite

(* Handlers go on without being received from, and Start does nothing. *)
LEMMA OthersOK ==
  ASSUME LifecycleInv, TypeOK',
         UNCHANGED <<start, toStart, tcp, ready, startDone, received>>,
         \A s \in Servers : /\ serve'[s] = "off" <=> serve[s] = "off"
                            /\ serve[s] = "gone" => serve'[s] = "gone",
         \A t \in Tcp : /\ accept'[t] = "off" <=> accept[t] = "off"
                        /\ closer'[t] = "off" <=> closer[t] = "off"
                        /\ accept[t] = "gone" => accept'[t] = "gone"
                        /\ closer[t] = "gone" => closer'[t] = "gone"
                        /\ closer[t] = "last" => closer'[t] \in {"last", "gone"}
  PROVE  LifecycleInv'
<1>0. TypeOK /\ Together /\ OrderInv /\ PhaseInv
  BY DEF LifecycleInv
<1>1. Proxies' = Proxies /\ Ends' = Ends /\ Waiting' = Waiting /\ Proxies \subseteq Tcp
  BY <1>0, ProxiesFinite DEF Proxies, Ends, Waiting, TypeOK
<1>2. \A h \in Servers \cup Tcp : Off(h)' <=> Off(h)
  BY DEF Off
<1>3. Past \subseteq Past'
  BY <1>1 DEF Past, Over, Ends
<1>4. IsFiniteSet(Past')
  <2>1. TypeOK' => PastFinite'
    BY PastIsFinite, PTL
  <2> QED BY <2>1 DEF PastFinite
<1>5. Cardinality(Past) <= Cardinality(Past') /\ Cardinality(Past) \in Nat /\ Cardinality(Past') \in Nat
  BY <1>0, <1>3, <1>4, PastIsFinite, FS_Subset, FS_CardinalityType DEF PastFinite
<1>6. OrderInv'
  BY <1>0, <1>1, <1>2 DEF OrderInv
<1>7. PhaseInv'
  BY <1>0, <1>5 DEF PhaseInv, TypeOK
<1>8. Together'
  BY <1>0 DEF Together
<1> QED BY <1>6, <1>7, <1>8 DEF LifecycleInv

(* Start receives one more end. *)
LEMMA ReceiveOK ==
  ASSUME LifecycleInv, TypeOK', NEW e \in BOOLEAN, somethingEnded(e),
         NEW x \in Ends, x \notin Past, Past' = Past \cup {x},
         \A s \in Servers : serve'[s] = "off" <=> serve[s] = "off",
         \A t \in Tcp : /\ accept'[t] = "off" <=> accept[t] = "off"
                        /\ closer'[t] = "off" <=> closer[t] = "off"
  PROVE  LifecycleInv'
<1>0. TypeOK /\ Together /\ OrderInv /\ PhaseInv
  BY DEF LifecycleInv
<1>1. /\ ready' = FALSE /\ received' = received + 1 /\ received \in Nat /\ startDone' = TRUE
      /\ start = "loop" /\ start' \in {"loop", "returned"} /\ UNCHANGED <<toStart, tcp>>
  <2>1. received \in Nat
    BY <1>0 DEF TypeOK
  <2> QED BY <1>0, <2>1, ReceiveType, Zenon
<1>2. Proxies' = Proxies /\ Proxies \subseteq Tcp
  BY <1>0, <1>1, ProxiesFinite DEF Proxies, TypeOK
<1>3. \A h \in Servers \cup Tcp : Off(h)' <=> Off(h)
  BY DEF Off
<1>4. Cardinality(Past') = Cardinality(Past) + 1 /\ Cardinality(Past) \in Nat
  BY <1>0, PastIsFinite, OneMore, FS_CardinalityType DEF PastFinite
<1>5. OrderInv'
  BY <1>0, <1>1, <1>2, <1>3 DEF OrderInv
<1>6. PhaseInv'
  BY <1>0, <1>1, <1>4 DEF PhaseInv
<1>7. Together'
  BY <1>0 DEF Together
<1> QED BY <1>5, <1>6, <1>7 DEF LifecycleInv

(* A sequence without repetitions loses its head and nothing else. *)
LEMMA TailOf ==
  ASSUME NEW S, NEW q \in Seq(S), q # <<>>, \A j, k \in 1..Len(q) : q[j] = q[k] => j = k
  PROVE  /\ \A j, k \in 1..Len(Tail(q)) : Tail(q)[j] = Tail(q)[k] => j = k
         /\ {Tail(q)[k] : k \in 1..Len(Tail(q))} = {q[k] : k \in 1..Len(q)} \ {Head(q)}
         /\ Head(q) \in {q[k] : k \in 1..Len(q)}
<1>1. Len(q) \in Nat /\ Len(q) >= 1 /\ Len(Tail(q)) = Len(q) - 1 /\ Head(q) = q[1]
  OBVIOUS
<1>2. \A k \in 1..(Len(q) - 1) : Tail(q)[k] = q[k + 1] /\ k + 1 \in 1..Len(q)
  BY <1>1
<1>3. \A j, k \in 1..Len(Tail(q)) : Tail(q)[j] = Tail(q)[k] => j = k
  BY <1>1, <1>2
<1>4. ASSUME NEW k \in 1..Len(Tail(q))
      PROVE  Tail(q)[k] \in {q[j] : j \in 1..Len(q)} \ {Head(q)}
  <2>1. 1 \in 1..Len(q) /\ k + 1 \in 1..Len(q) /\ k + 1 # 1 /\ Tail(q)[k] = q[k + 1]
    BY <1>1, <1>2
  <2> QED BY <1>1, <2>1
<1>5. ASSUME NEW k \in 1..Len(q), q[k] # Head(q)
      PROVE  q[k] \in {Tail(q)[j] : j \in 1..Len(Tail(q))}
  <2>1. k - 1 \in 1..Len(Tail(q)) /\ Tail(q)[k - 1] = q[k]
    BY <1>1, <1>2, <1>5
  <2> QED BY <2>1, Zenon
<1>6. Head(q) \in {q[k] : k \in 1..Len(q)}
  BY <1>1
<1>7. {Tail(q)[k] : k \in 1..Len(Tail(q))} \subseteq {q[k] : k \in 1..Len(q)} \ {Head(q)}
  BY <1>4
<1>8. {q[k] : k \in 1..Len(q)} \ {Head(q)} \subseteq {Tail(q)[k] : k \in 1..Len(Tail(q))}
  BY <1>5
<1> QED BY <1>3, <1>6, <1>7, <1>8, Zenon

(* The order startListeners takes, of servers and of TCP proxies. *)
LEMMA OrderOf ==
  ASSUME NEW c \in TcpConfigs
  PROVE  LET q == ServerOrder \o c
         IN  /\ q # <<>>
             /\ \A j, k \in 1..Len(q) : q[j] = q[k] => j = k
             /\ {q[k] : k \in 1..Len(q)} = Servers \cup {c[k] : k \in 1..Len(c)}
<1> DEFINE n == Len(ServerOrder)
           m == Len(c)
           q == ServerOrder \o c
<1>1. /\ ServerOrder \in Seq(Servers) /\ c \in Seq(Tcp) /\ n \in Nat /\ n >= 2 /\ m \in Nat
      /\ Servers \cap Tcp = {} /\ {ServerOrder[k] : k \in 1..n} = Servers
      /\ \A j, k \in 1..m : c[j] = c[k] => j = k
  BY LifecycleAssumption
<1>2. \A j, k \in 1..n : ServerOrder[j] = ServerOrder[k] => j = k
  <2>1. ServerOrder \in Surjection(1..n, Servers)
    BY LifecycleAssumption DEF Surjection
  <2>2. IsFiniteSet(1..n) /\ Cardinality(1..n) = n
    <3> HIDE DEF n
    <3>1. 1 \in Int /\ n \in Int /\ ~(1 > n) /\ n - 1 + 1 = n
      BY <1>1
    <3> QED BY <3>1, FS_Interval
  <2>3. ServerOrder \in Injection(1..n, Servers)
    BY <2>1, <2>2, FS_Surjection, ServersFinite
  <2> QED BY <2>3, <1>1 DEF Injection, IsInjective
<1>3. /\ Len(q) = n + m
      /\ \A k \in 1..n : q[k] = ServerOrder[k] /\ k \in 1..(n + m)
      /\ \A k \in 1..m : q[n + k] = c[k] /\ n + k \in 1..(n + m)
  BY <1>1
<1>4. \A k \in 1..(n + m) : k \in 1..n \/ \E j \in 1..m : k = n + j
  <2>1. ASSUME NEW k \in 1..(n + m), k \notin 1..n PROVE k - n \in 1..m /\ k = n + (k - n)
    BY <1>1, <2>1
  <2> QED BY <2>1
<1> HIDE DEF q, n, m
<1>5. \A k \in 1..n : q[k] \in Servers
  BY <1>1, <1>3, Zenon
<1>6. \A k \in 1..m : q[n + k] \in Tcp
  BY <1>1, <1>3 DEF m
<1>7. ASSUME NEW j \in 1..(n + m), NEW k \in 1..(n + m), q[j] = q[k] PROVE j = k
  <2>1. CASE j \in 1..n /\ k \in 1..n
    BY <1>2, <1>3, <1>7, <2>1
  <2>2. CASE \E a, b \in 1..m : j = n + a /\ k = n + b
    <3>1. PICK a \in 1..m, b \in 1..m : j = n + a /\ k = n + b
      BY <2>2
    <3>2. c[a] = c[b]
      BY <1>3, <1>7, <3>1
    <3> QED BY <1>1, <3>1, <3>2
  <2>3. CASE \/ j \in 1..n /\ \E b \in 1..m : k = n + b
             \/ k \in 1..n /\ \E a \in 1..m : j = n + a
    BY <1>1, <1>5, <1>6, <1>7, <2>3, Zenon
  <2> QED BY <1>4, <2>1, <2>2, <2>3
<1>8. {q[k] : k \in 1..(n + m)} = Servers \cup {c[k] : k \in 1..m}
  <2>1. \A k \in 1..(n + m) : q[k] \in Servers \/ \E j \in 1..m : q[k] = c[j]
    BY <1>3, <1>4, <1>5
  <2>2. \A s \in Servers : \E k \in 1..(n + m) : s = q[k]
    BY <1>1, <1>3
  <2>3. \A j \in 1..m : \E k \in 1..(n + m) : c[j] = q[k]
    BY <1>3
  <2> QED BY <2>1, <2>2, <2>3
<1>9. q # <<>>
  BY <1>1, <1>3
<1> QED BY <1>3, <1>7, <1>8, <1>9, Zenon DEF q, m

----------------------------------------------------------------------------
(* As long as Start has received nothing. *)
LEMMA NothingReceived ==
  ASSUME TypeOK', Together', OrderInv', received' = 0, ~startDone', ready' => start' = "loop"
  PROVE  LifecycleInv'
<1>1. TypeOK' => PastFinite'
  BY PastIsFinite, PTL
<1>2. Cardinality(Past') \in Nat
  BY <1>1, FS_CardinalityType DEF PastFinite
<1> QED BY <1>2 DEF LifecycleInv, PhaseInv

(* Start opens one listener after the other. *)
LEMMA StartingOK ==
  ASSUME LifecycleInv, TypeOK', Starting
  PROVE  LifecycleInv'
<1> USE DEF mainVars, runVars, serveVars, tcpVars
<1>0. TypeOK /\ Together /\ OrderInv /\ PhaseInv
  BY DEF LifecycleInv
<1>f. /\ Proxies \subseteq Tcp /\ Servers \cap Tcp = {} /\ Servers # {} /\ toStart \in Seq(Servers \cup Tcp)
      /\ serve \in [Servers -> {"off", "select", "shutdown", "wait", "report", "gone"}]
      /\ accept \in [Tcp -> {"off", "accept", "report", "gone"}]
      /\ closer \in [Tcp -> {"off", "wait", "report", "last", "gone"}]
  BY <1>0, ProxiesFinite, LifecycleAssumption DEF TypeOK
<1>1. CASE waitForConfig
  <2>1. PICK c \in TcpConfigs : tcp' = c /\ toStart' = ServerOrder \o c
    BY <1>1 DEF waitForConfig
  <2>2. /\ start = "config" /\ start' = "listen"
        /\ UNCHANGED <<ready, startDone, received, serve, accept, closer>>
    BY <1>1 DEF waitForConfig
  <2>3. \A h \in Servers \cup Tcp : Off(h)'
    BY <1>0, <2>2 DEF OrderInv, Off
  <2>4. /\ Waiting' = Servers \cup Proxies' /\ Proxies' \subseteq Tcp
        /\ \A j, k \in 1..Len(toStart') : toStart'[j] = toStart'[k] => j = k
    <3>1. Proxies' \subseteq Tcp
      BY <2>1, LifecycleAssumption DEF Proxies
    <3> DEFINE q == ServerOrder \o c
    <3>2. /\ \A j, k \in 1..Len(q) : q[j] = q[k] => j = k
          /\ {q[k] : k \in 1..Len(q)} = Servers \cup {c[k] : k \in 1..Len(c)}
      BY OrderOf, Zenon
    <3>3. toStart' = q /\ tcp' = c
      BY <2>1
    <3> HIDE DEF q
    <3>4. Waiting' = {q[k] : k \in 1..Len(q)} /\ Proxies' = {c[k] : k \in 1..Len(c)}
      BY <3>3, Zenon DEF Waiting, Proxies
    <3>5. \A j, k \in 1..Len(toStart') : toStart'[j] = toStart'[k] => j = k
      BY <3>2, <3>3, Zenon
    <3> QED BY <3>1, <3>2, <3>4, <3>5, Zenon
  <2>5. OrderInv'
    BY <1>f, <2>2, <2>3, <2>4 DEF OrderInv, Off
  <2>6. Together'
    BY <1>0, <2>2 DEF Together
  <2>7. ~ready' /\ ~startDone' /\ received' = 0
    BY <1>0, <2>2 DEF PhaseInv
  <2> QED BY <2>5, <2>6, <2>7, NothingReceived
<1>2. CASE waitForConfigDone \/ ListenFails
  <2>1. /\ start' = "returned"
        /\ UNCHANGED <<toStart, tcp, ready, received, serve, accept, closer>>
    BY <1>2 DEF waitForConfigDone, ListenFails, Return
  <2>2. start \in {"config", "listen"}
    BY <1>2, Zenon DEF waitForConfigDone, ListenFails
  <2>3. /\ Past' = Past /\ Together' /\ OrderInv'
    BY <1>0, <2>1 DEF Past, Over, Ends, Proxies, Together, OrderInv
  <2>4. PhaseInv'
    BY <1>0, <2>1, <2>2, <2>3 DEF PhaseInv
  <2> QED BY <2>3, <2>4 DEF LifecycleInv
<1>3. CASE listenersStarted
  <2>1. /\ start = "listen" /\ toStart = <<>> /\ start' = "loop"
        /\ UNCHANGED <<toStart, tcp, startDone, received, serve, accept, closer>>
    BY <1>3 DEF listenersStarted
  <2>2. Waiting = {}
    BY <2>1 DEF Waiting
  <2>3. Proxies' = Proxies /\ \A h : Off(h)' <=> Off(h)
    BY <2>1 DEF Proxies, Off
  <2>4. Together' /\ OrderInv'
    BY <1>0, <2>1, <2>2, <2>3 DEF Together, OrderInv
  <2>5. ~startDone' /\ received' = 0
    BY <1>0, <2>1 DEF PhaseInv
  <2> QED BY <2>1, <2>4, <2>5, NothingReceived
<1>4. ASSUME NEW h \in Servers \cup Tcp, start = "listen", toStart # <<>>, Head(toStart) = h,
             toStart' = Tail(toStart), UNCHANGED <<start, tcp, ready, startDone, received>>,
             \A g \in Servers \cup Tcp : Off(g)' <=> (Off(g) /\ g # h), Together'
      PROVE  LifecycleInv'
  <2>1. /\ \A j, k \in 1..Len(toStart) : toStart[j] = toStart[k] => j = k
        /\ Waiting \subseteq Servers \cup Proxies
        /\ \A g \in Servers \cup Proxies : Off(g) <=> g \in Waiting
        /\ \A t \in Tcp \ Proxies : accept[t] = "off"
        /\ ~ready /\ received = 0 /\ ~startDone
    BY <1>0, <1>4 DEF OrderInv, PhaseInv
  <2>2. /\ \A j, k \in 1..Len(toStart') : toStart'[j] = toStart'[k] => j = k
        /\ Waiting' = Waiting \ {h} /\ h \in Waiting
    <3> DEFINE q == toStart
    <3>1. q \in Seq(Servers \cup Tcp) /\ q # <<>> /\ \A j, k \in 1..Len(q) : q[j] = q[k] => j = k
      BY <1>f, <1>4, <2>1
    <3>2. /\ \A j, k \in 1..Len(Tail(q)) : Tail(q)[j] = Tail(q)[k] => j = k
          /\ {Tail(q)[k] : k \in 1..Len(Tail(q))} = {q[k] : k \in 1..Len(q)} \ {Head(q)}
          /\ Head(q) \in {q[k] : k \in 1..Len(q)}
      <4> HIDE DEF q
      <4> QED BY <3>1, TailOf, Zenon
    <3>3. Waiting' = {Tail(q)[k] : k \in 1..Len(Tail(q))}
      BY <1>4 DEF Waiting
    <3>4. Waiting = {q[k] : k \in 1..Len(q)} /\ Head(q) = h /\ toStart' = Tail(q)
      BY <1>4 DEF Waiting
    <3> HIDE DEF q
    <3> QED BY <3>2, <3>3, <3>4, Zenon
  <2>3. Proxies' = Proxies
    BY <1>4 DEF Proxies
  <2>4. \A t \in Tcp \ Proxies : accept'[t] = "off"
    <3>1. ASSUME NEW t \in Tcp \ Proxies PROVE accept'[t] = "off"
      <4>1. t \notin Servers /\ Off(t) /\ t # h
        BY <1>f, <2>1, <2>2 DEF Off
      <4> QED BY <1>4, <4>1 DEF Off
    <3> QED BY <3>1
  <2>5. OrderInv'
    BY <1>f, <1>4, <2>1, <2>2, <2>3, <2>4 DEF OrderInv
  <2> QED BY <1>4, <2>1, <2>5, NothingReceived
<1>5. ASSUME NEW s \in Servers, startServer(s) PROVE LifecycleInv'
  <2>1. /\ start = "listen" /\ toStart # <<>> /\ Head(toStart) = s /\ toStart' = Tail(toStart)
        /\ serve' = [serve EXCEPT ![s] = "select"]
        /\ UNCHANGED <<start, tcp, ready, startDone, received, accept, closer>>
    BY <1>5 DEF startServer
  <2>2. \A g \in Servers \cup Tcp : Off(g)' <=> (Off(g) /\ g # s)
    BY <1>f, <2>1 DEF Off
  <2>3. Together'
    BY <1>0, <2>1 DEF Together
  <2> QED BY <1>4, <2>1, <2>2, <2>3
<1>6. ASSUME NEW t \in Tcp, startTcpProxy(t) PROVE LifecycleInv'
  <2>1. /\ start = "listen" /\ toStart # <<>> /\ Head(toStart) = t /\ toStart' = Tail(toStart)
        /\ accept' = [accept EXCEPT ![t] = "accept"] /\ closer' = [closer EXCEPT ![t] = "wait"]
        /\ UNCHANGED <<start, tcp, ready, startDone, received, serve>>
    BY <1>6 DEF startTcpProxy
  <2>2. \A g \in Servers \cup Tcp : Off(g)' <=> (Off(g) /\ g # t)
    BY <1>f, <2>1 DEF Off
  <2>3. Together'
    BY <1>0, <1>f, <2>1 DEF Together
  <2> QED BY <1>4, <2>1, <2>2, <2>3
<1> QED BY <1>1, <1>2, <1>3, <1>5, <1>6 DEF Starting

LEMMA ReceivingOK ==
  ASSUME LifecycleInv, TypeOK', Receive
  PROVE  LifecycleInv'
<1> USE DEF serveVars, tcpVars
<1>0. TypeOK /\ Together /\ OrderInv
  BY DEF LifecycleInv
<1>f. /\ Proxies \subseteq Tcp /\ Servers \cap Tcp = {} /\ out \in [Servers -> BOOLEAN]
      /\ serve \in [Servers -> {"off", "select", "shutdown", "wait", "report", "gone"}]
      /\ accept \in [Tcp -> {"off", "accept", "report", "gone"}]
      /\ closer \in [Tcp -> {"off", "wait", "report", "last", "gone"}]
  BY <1>0, ProxiesFinite, LifecycleAssumption DEF TypeOK
<1>p. \A t \in Tcp : accept[t] # "off" \/ closer[t] # "off" => t \in Proxies
  BY <1>0 DEF OrderInv, Together
<1>1. ASSUME NEW s \in Servers, serverEnded(s) PROVE LifecycleInv'
  <2> DEFINE x == <<s, "serve">>
  <2>1. /\ somethingEnded(out[s]) /\ serve[s] = "report" /\ serve' = [serve EXCEPT ![s] = "gone"]
        /\ UNCHANGED <<accept, closer>> /\ out[s] \in BOOLEAN
    BY <1>f, <1>1 DEF serverEnded
  <2>2. Ends' = Ends
    BY <1>0, <2>1, ReceiveType, ZenonT(40) DEF Ends, Proxies
  <2>3. x \in Ends /\ x \notin Past /\ Past' = Past \cup {x}
    BY <1>f, <2>1, <2>2 DEF Past, Over, Ends
  <2>4. \A r \in Servers : serve'[r] = "off" <=> serve[r] = "off"
    BY <1>f, <2>1
  <2> HIDE DEF x
  <2> QED BY <2>1, <2>3, <2>4, ReceiveOK
<1>2. ASSUME NEW t \in Tcp, acceptEnded(t) PROVE LifecycleInv'
  <2> DEFINE x == <<t, "accept">>
  <2>1. /\ somethingEnded(TRUE) /\ accept[t] = "report" /\ accept' = [accept EXCEPT ![t] = "gone"]
        /\ UNCHANGED <<serve, closer>>
    BY <1>2, Zenon DEF acceptEnded
  <2>2. Ends' = Ends
    BY <1>0, <2>1, ReceiveType, ZenonT(40) DEF Ends, Proxies
  <2>3. x \in Ends /\ x \notin Past /\ Past' = Past \cup {x}
    BY <1>f, <1>p, <2>1, <2>2 DEF Past, Over, Ends
  <2>4. \A u \in Tcp : accept'[u] = "off" <=> accept[u] = "off"
    BY <1>f, <2>1
  <2> HIDE DEF x
  <2> QED BY <2>1, <2>3, <2>4, ReceiveOK, Zenon
<1>3. ASSUME NEW t \in Tcp, closerEnded(t) PROVE LifecycleInv'
  <2>1. CASE closer[t] = "report"
    <3> DEFINE x == <<t, "report">>
    <3>1. /\ somethingEnded(TRUE) /\ closer' = [closer EXCEPT ![t] = "last"]
          /\ UNCHANGED <<serve, accept>>
      BY <1>3, <2>1, Zenon DEF closerEnded
    <3>2. Ends' = Ends
      BY <1>0, <3>1, ReceiveType, ZenonT(40) DEF Ends, Proxies
    <3>3. x \in Ends /\ x \notin Past /\ Past' = Past \cup {x}
      BY <1>f, <1>p, <2>1, <3>1, <3>2 DEF Past, Over, Ends
    <3>4. \A u \in Tcp : closer'[u] = "off" <=> closer[u] = "off"
      BY <1>f, <2>1, <3>1
    <3> HIDE DEF x
    <3> QED BY <3>1, <3>3, <3>4, ReceiveOK, Zenon
  <2>2. CASE closer[t] = "last"
    <3> DEFINE x == <<t, "last">>
    <3>1. /\ somethingEnded(FALSE) /\ closer' = [closer EXCEPT ![t] = "gone"]
          /\ UNCHANGED <<serve, accept>>
      BY <1>3, <2>2, Zenon DEF closerEnded
    <3>2. Ends' = Ends
      BY <1>0, <3>1, ReceiveType, ZenonT(40) DEF Ends, Proxies
    <3>3. x \in Ends /\ x \notin Past /\ Past' = Past \cup {x}
      BY <1>f, <1>p, <2>2, <3>1, <3>2 DEF Past, Over, Ends
    <3>4. \A u \in Tcp : closer'[u] = "off" <=> closer[u] = "off"
      BY <1>f, <2>2, <3>1
    <3> HIDE DEF x
    <3> QED BY <3>1, <3>3, <3>4, ReceiveOK, Zenon
  <2> QED BY <1>3, <2>1, <2>2, Zenon DEF closerEnded
<1> QED BY <1>1, <1>2, <1>3 DEF Receive

(* Every step keeps the invariant. *)
LEMMA LifecycleStep == LifecycleInv /\ [Next]_vars => LifecycleInv'
<1> SUFFICES ASSUME LifecycleInv, [Next]_vars PROVE LifecycleInv'
  OBVIOUS
<1> USE DEF mainVars, runVars, startVars, serveVars, tcpVars, notServe, notTcp
<1>0. TypeOK /\ Together /\ OrderInv /\ PhaseInv /\ TypeOK'
  BY TypeStep DEF LifecycleInv
<1>f. /\ serve \in [Servers -> {"off", "select", "shutdown", "wait", "report", "gone"}]
      /\ accept \in [Tcp -> {"off", "accept", "report", "gone"}]
      /\ closer \in [Tcp -> {"off", "wait", "report", "last", "gone"}]
  BY <1>0 DEF TypeOK
<1>1. CASE \/ mainSignalled \/ mainExits \/ Environment \/ RunDone \/ RunSend \/ reconfigured
           \/ QuicListens \/ UNCHANGED vars
  <2>1. UNCHANGED <<start, toStart, tcp, ready, startDone, received, serve, accept, closer>>
    BY <1>1 DEF mainSignalled, mainExits, Environment, Signal, RunReconfigure, RunDone, RunSend, reconfigured,
                QuicListens, vars
  <2> QED BY <1>0, <2>1, OthersOK
<1>2. CASE Starting
  BY <1>0, <1>2, StartingOK
<1>3. CASE Receive
  BY <1>0, <1>3, ReceivingOK
<1>4. CASE Stopping
  <2>1. /\ start \in {"loop", "sleep"} /\ start' \in {"loop", "sleep"}
        /\ UNCHANGED <<toStart, tcp, received, serve, accept, closer>>
    BY <1>4 DEF Stopping, shutdownSignalled, shutdownPropagated
  <2>2. ready' = FALSE
    BY <1>0, <1>4 DEF Stopping, shutdownSignalled, shutdownPropagated, PhaseInv, TypeOK
  <2>3. Past' = Past /\ Together' /\ Proxies' = Proxies /\ \A h : Off(h)' <=> Off(h)
    BY <1>0, <2>1 DEF Past, Over, Ends, Proxies, Together, Off
  <2>4. OrderInv' /\ PhaseInv'
    BY <1>0, <2>1, <2>2, <2>3 DEF OrderInv, PhaseInv
  <2> QED BY <1>0, <2>3, <2>4 DEF LifecycleInv
<1>5. ASSUME NEW s \in Servers, Server(s) \/ ServeFails(s) PROVE LifecycleInv'
  <2>1. /\ UNCHANGED <<start, toStart, tcp, ready, startDone, received, accept, closer>>
        /\ \/ serve' = serve
           \/ /\ serve[s] \notin {"off", "gone"}
              /\ \E v \in {"shutdown", "wait", "report"} : serve' = [serve EXCEPT ![s] = v]
    BY <1>5 DEF Server, ServeCloses, ServeFails, ServeReturns, innerSends, Shutdown, ShutdownReturns,
                serveReturns
  <2>2. \A r \in Servers : /\ serve'[r] = "off" <=> serve[r] = "off"
                           /\ serve[r] = "gone" => serve'[r] = "gone"
    BY <1>f, <2>1
  <2> QED BY <1>0, <2>1, <2>2, OthersOK
<1>6. ASSUME NEW t \in Tcp, TcpListener(t) \/ AcceptFails(t) PROVE LifecycleInv'
  <2>1. UNCHANGED <<start, toStart, tcp, ready, startDone, received, serve>>
    BY <1>6 DEF TcpListener, closeListener, AcceptFails
  <2>2. \/ accept[t] = "accept" /\ accept' = [accept EXCEPT ![t] = "report"] /\ closer' = closer
        \/ /\ closer[t] = "wait" /\ accept' = accept
           /\ \E v \in {"report", "last"} : closer' = [closer EXCEPT ![t] = v]
    BY <1>6 DEF TcpListener, closeListener, AcceptFails
  <2>3. \A u \in Tcp : /\ accept'[u] = "off" <=> accept[u] = "off"
                       /\ closer'[u] = "off" <=> closer[u] = "off"
                       /\ accept[u] = "gone" => accept'[u] = "gone"
                       /\ closer[u] = "gone" => closer'[u] = "gone"
                       /\ closer[u] = "last" => closer'[u] \in {"last", "gone"}
    BY <1>f, <2>2
  <2> QED BY <1>0, <2>1, <2>3, OthersOK, Zenon
<1> QED BY <1>1, <1>2, <1>3, <1>4, <1>5, <1>6 DEF Next, Failure

(* Start takes no end twice and opens each listener once. *)
THEOREM LifecycleInvCorrect == Spec => []LifecycleInv
<1>1. ASSUME Init PROVE TypeOK
  <2>1. toStart \in Seq(Servers \cup Tcp) /\ configChan \in 0..ChanCap /\ tcp \in TcpConfigs \cup {<<>>}
    BY <1>1, LifecycleAssumption DEF Init
  <2>2. /\ serve \in [Servers -> {"off", "select", "shutdown", "wait", "report", "gone"}]
        /\ inner \in [Servers -> {"off", "listen", "serve", "wrote", "send", "gone"}]
        /\ err \in [Servers -> Error] /\ sent \in [Servers -> Error]
    BY <1>1 DEF Init, Error
  <2>3. /\ accept \in [Tcp -> {"off", "accept", "report", "gone"}]
        /\ closer \in [Tcp -> {"off", "wait", "report", "last", "gone"}]
        /\ out \in [Servers -> BOOLEAN] /\ received \in Nat
    BY <1>1 DEF Init
  <2>4. /\ main \in {"signal", "wait", "exited"} /\ run \in {"select", "send", "ended"}
        /\ start \in {"config", "listen", "loop", "sleep", "returned"}
    BY <1>1 DEF Init
  <2>5. /\ sigChan \in BOOLEAN /\ ctxDone \in BOOLEAN /\ ready \in BOOLEAN /\ startDone \in BOOLEAN
        /\ shutdownInitiated \in BOOLEAN /\ failed \in BOOLEAN
    BY <1>1, Zenon DEF Init
  <2> QED BY <2>1, <2>2, <2>3, <2>4, <2>5, ZenonT(40) DEF TypeOK
<1>2. Init => Together /\ OrderInv
  BY DEF Init, Together, OrderInv, Off
<1>3. ASSUME Init PROVE PhaseInv
  <2>1. Cardinality(Past) \in Nat
    BY <1>1, <1>3, PastIsFinite, FS_CardinalityType DEF PastFinite
  <2> QED BY <1>3, <2>1 DEF Init, PhaseInv
<1>4. Init => LifecycleInv
  BY <1>1, <1>2, <1>3 DEF LifecycleInv
<1> QED BY <1>4, LifecycleStep, PTL DEF Spec

----------------------------------------------------------------------------
(* The refinement: what a step of a handler is in ProxyService. *)
LEMMA StateNext ==
  /\ \A s \in Servers :
       /\ serve'[s] = "select" /\ inner'[s] = "listen" => HandlerState'[s] = "opening"
       /\ serve'[s] = "select" /\ inner'[s] = "serve" => HandlerState'[s] = "open"
       /\ serve'[s] = "select" /\ inner'[s] \notin {"listen", "serve"} => HandlerState'[s] = "failed"
       /\ serve'[s] \in {"shutdown", "wait"} => HandlerState'[s] = "closing"
       /\ serve'[s] \in {"report", "gone"} => HandlerState'[s] = "ended"
  /\ \A t \in Tcp :
       /\ accept'[t] = "accept" /\ closer'[t] = "wait" => HandlerState'[t] = "open"
       /\ accept'[t] \in {"report", "gone"} /\ closer'[t] = "wait" => HandlerState'[t] = "failed"
       /\ accept'[t] = "accept" /\ closer'[t] # "wait" => HandlerState'[t] = "closing"
       /\ accept'[t] \in {"report", "gone"} /\ closer'[t] # "wait" => HandlerState'[t] = "ended"
<1>1. \A t \in Tcp : t \notin Servers
  BY LifecycleAssumption
<1> QED BY <1>1 DEF HandlerState

(* Handlers other than h do nothing. *)
OnlyHandler(h) ==
  /\ \A s \in Servers \ {h} : serve'[s] = serve[s] /\ inner'[s] = inner[s]
  /\ \A t \in Tcp \ {h} : accept'[t] = accept[t] /\ closer'[t] = closer[t]

(* A step of one handler changes only its state in ProxyService. *)
LEMMA OneHandler ==
  ASSUME NEW h \in Servers \cup Tcp, NEW v, OnlyHandler(h), HandlerState'[h] = v
  PROVE  /\ HandlerState' = [HandlerState EXCEPT ![h] = v]
         /\ v = HandlerState[h] => HandlerState' = HandlerState
<1>1. \A g \in Servers \cup Tcp : g # h => HandlerState'[g] = HandlerState[g]
  BY DEF OnlyHandler, HandlerState
<1>2. /\ HandlerState = [g \in Servers \cup Tcp |-> HandlerState[g]]
      /\ HandlerState' = [g \in Servers \cup Tcp |-> HandlerState'[g]]
  BY DEF HandlerState
<1> QED BY <1>1, <1>2

(* The configuration and what is started stay. *)
LEMMA UsedSame ==
  ASSUME UNCHANGED <<toStart, tcp>>, \A s \in Servers : serve'[s] = "off" <=> serve[s] = "off"
  PROVE  Used' = Used
BY DEF Used

(* Where Start is and its readiness decide the phase. *)
LEMMA PhaseSame ==
  ASSUME start' = start \/ (start \in {"loop", "sleep"} /\ start' \in {"loop", "sleep"}), ready' = ready
  PROVE  Phase' = Phase
BY DEF Phase

(* A step that ProxyService does not see. *)
LEMMA Stutters ==
  ASSUME Used' = Used, Phase' = Phase, HandlerState' = HandlerState
  PROVE  UNCHANGED Service!vars
BY DEF Service!vars

(* A step of one handler that ProxyService allows. *)
LEMMA Moves ==
  ASSUME NEW h \in Servers \cup Tcp, NEW v, Used' = Used, Phase' = Phase,
         HandlerState' = [HandlerState EXCEPT ![h] = v],
         \/ /\ v = IF h = Quic THEN "opening" ELSE "open"
            /\ Phase = "starting" /\ h \in Used /\ HandlerState[h] = "new"
         \/ v = "open" /\ HandlerState[h] = "opening"
         \/ v = "failed" /\ HandlerState[h] \in {"opening", "open"}
         \/ v = "closing" /\ Phase \in {"draining", "stopped"} /\ HandlerState[h] \in {"opening", "open", "failed"}
         \/ v = "ended" /\ HandlerState[h] \in {"failed", "closing"}
  PROVE  Service!Next
<1>1. Service!Open(h) \/ Service!OpenLate(h) \/ Service!Fail(h) \/ Service!Close(h) \/ Service!End(h)
  BY ZenonT(40) DEF Service!Open, Service!OpenLate, Service!Fail, Service!Close, Service!End
<1> QED BY <1>1 DEF Service!Next

(* startCtx is cancelled only when the proxy is no longer ready. *)
LEMMA CancelledPhase ==
  ASSUME LifecycleInv, startDone
  PROVE  Phase \in {"draining", "stopped"}
BY DEF LifecycleInv, PhaseInv, Phase, TypeOK

(* The steps of a server. *)
LEMMA ServerRefines ==
  ASSUME LifecycleInv, NEW s \in Servers, Server(s) \/ ServeFails(s)
  PROVE  Service!Next \/ UNCHANGED Service!vars
<1> USE DEF startVars, tcpVars, notServe
<1>0. /\ serve \in [Servers -> {"off", "select", "shutdown", "wait", "report", "gone"}]
      /\ inner \in [Servers -> {"off", "listen", "serve", "wrote", "send", "gone"}]
      /\ s \in Servers \cup Tcp /\ Servers \cap Tcp = {}
  BY LifecycleAssumption DEF LifecycleInv, TypeOK
<1>1. /\ UNCHANGED <<start, toStart, tcp, ready, accept, closer>>
      /\ \E v : serve' = serve \/ (serve[s] # "off" /\ v # "off" /\ serve' = [serve EXCEPT ![s] = v])
      /\ \E w : inner' = inner \/ inner' = [inner EXCEPT ![s] = w]
  BY DEF Server, ServeCloses, ServeFails, ServeReturns, innerSends, Shutdown, ShutdownReturns, serveReturns
<1>2. OnlyHandler(s) /\ \A r \in Servers : serve'[r] = "off" <=> serve[r] = "off"
  BY <1>0, <1>1, Zenon DEF OnlyHandler
<1>3. Used' = Used /\ Phase' = Phase
  BY <1>1, <1>2, UsedSame, PhaseSame
<1>4. CASE ServeFails(s)
  <2>1. serve[s] = "select" /\ inner[s] \in {"listen", "serve"} /\ serve'[s] = "select" /\ inner'[s] = "wrote"
    BY <1>0, <1>4 DEF ServeFails, ServeReturns
  <2>2. HandlerState[s] \in {"opening", "open"} /\ HandlerState'[s] = "failed"
    BY <2>1, ServerState, StateNext
  <2> QED BY <1>0, <1>2, <1>3, <2>2, OneHandler, Moves
<1>5. CASE ServeCloses(s) \/ innerSends(s) \/ ShutdownReturns(s)
  <2>1. \/ serve[s] \in {"shutdown", "wait"} /\ serve'[s] \in {"shutdown", "wait"}
        \/ serve'[s] = serve[s] /\ inner[s] = "wrote" /\ inner'[s] = "send"
    BY <1>0, <1>5 DEF ServeCloses, ServeReturns, innerSends, ShutdownReturns
  <2>2. HandlerState'[s] = HandlerState[s]
    BY <1>0, <2>1 DEF HandlerState
  <2> QED BY <1>0, <1>2, <1>3, <2>2, OneHandler, Stutters
<1>6. CASE Shutdown(s)
  <2>1. startDone /\ serve[s] = "select" /\ serve'[s] = "shutdown"
    BY <1>0, <1>6 DEF Shutdown
  <2>2. HandlerState[s] \in {"opening", "open", "failed"} /\ HandlerState'[s] = "closing"
    BY <2>1, ServerState, StateNext, Zenon
  <2> QED BY <1>0, <1>2, <1>3, <2>1, <2>2, OneHandler, Moves, CancelledPhase
<1>7. CASE serveReturns(s)
  <2>1. serve[s] \in {"wait", "select"} /\ inner[s] = "send" /\ serve'[s] = "report"
    BY <1>0, <1>7 DEF serveReturns
  <2>2. HandlerState[s] \in {"failed", "closing"} /\ HandlerState'[s] = "ended"
    BY <2>1, ServerState, StateNext
  <2> QED BY <1>0, <1>2, <1>3, <2>2, OneHandler, Moves
<1> QED BY <1>4, <1>5, <1>6, <1>7 DEF Server

(* The socket of QUIC is opened, perhaps by a server that is being shut down. *)
LEMMA QuicRefines ==
  ASSUME LifecycleInv, QuicListens
  PROVE  Service!Next \/ UNCHANGED Service!vars
<1> USE DEF startVars, tcpVars, notServe
<1>0. inner \in [Servers -> {"off", "listen", "serve", "wrote", "send", "gone"}] /\ Quic \in Servers \cup Tcp
  BY LifecycleAssumption DEF LifecycleInv, TypeOK
<1>1. /\ UNCHANGED <<start, toStart, tcp, ready, serve, accept, closer>> /\ Quic \in Servers
      /\ inner[Quic] = "listen" /\ serve[Quic] \in {"select", "shutdown"}
      /\ inner' = [inner EXCEPT ![Quic] = "serve"]
  BY LifecycleAssumption DEF QuicListens
<1>2. OnlyHandler(Quic) /\ inner'[Quic] = "serve" /\ serve'[Quic] = serve[Quic]
  BY <1>0, <1>1 DEF OnlyHandler
<1>3. Used' = Used /\ Phase' = Phase
  BY <1>1, UsedSame, PhaseSame
<1>4. CASE serve[Quic] = "select"
  <2>1. HandlerState[Quic] = "opening" /\ HandlerState'[Quic] = "open"
    BY <1>1, <1>2, <1>4, ServerState, StateNext
  <2> QED BY <1>0, <1>2, <1>3, <2>1, OneHandler, Moves
<1>5. CASE serve[Quic] = "shutdown"
  <2>1. HandlerState[Quic] = "closing" /\ HandlerState'[Quic] = "closing"
    BY <1>1, <1>2, <1>5, ServerState, StateNext
  <2> QED BY <1>0, <1>2, <1>3, <2>1, OneHandler, Stutters
<1> QED BY <1>1, <1>4, <1>5

(* The steps of a TCP listener. *)
LEMMA TcpRefines ==
  ASSUME LifecycleInv, NEW t \in Tcp, TcpListener(t) \/ AcceptFails(t)
  PROVE  Service!Next \/ UNCHANGED Service!vars
<1> USE DEF startVars, serveVars, notTcp
<1>0. /\ accept \in [Tcp -> {"off", "accept", "report", "gone"}]
      /\ closer \in [Tcp -> {"off", "wait", "report", "last", "gone"}]
      /\ t \in Servers \cup Tcp /\ Servers \cap Tcp = {}
      /\ accept[t] = "off" <=> closer[t] = "off"
  BY LifecycleAssumption DEF LifecycleInv, TypeOK, Together
<1>1. UNCHANGED <<start, toStart, tcp, ready, serve, inner>>
  BY DEF TcpListener, closeListener, AcceptFails
<1>2. Used' = Used /\ Phase' = Phase
  BY <1>1, UsedSame, PhaseSame
<1>3. CASE AcceptFails(t)
  <2>1. accept[t] = "accept" /\ accept' = [accept EXCEPT ![t] = "report"] /\ closer' = closer
    BY <1>3 DEF AcceptFails
  <2>2. OnlyHandler(t) /\ accept'[t] = "report" /\ closer'[t] = closer[t]
    BY <1>0, <1>1, <2>1 DEF OnlyHandler
  <2>3. \/ HandlerState[t] = "open" /\ HandlerState'[t] = "failed"
        \/ HandlerState[t] = "closing" /\ HandlerState'[t] = "ended"
    BY <2>1, <2>2, TcpState, StateNext
  <2> QED BY <1>0, <1>2, <2>2, <2>3, OneHandler, Moves
<1>4. CASE closeListener(t)
  <2>1. /\ closer[t] = "wait" /\ startDone /\ accept' = accept
        /\ \E c \in {"report", "last"} : closer' = [closer EXCEPT ![t] = c]
    BY <1>4, Zenon DEF closeListener
  <2>2. OnlyHandler(t) /\ closer'[t] \in {"report", "last"} /\ accept'[t] = accept[t] /\ accept[t] # "off"
    BY <1>0, <1>1, <2>1 DEF OnlyHandler
  <2>3. \/ HandlerState[t] = "open" /\ HandlerState'[t] = "closing"
        \/ HandlerState[t] = "failed" /\ HandlerState'[t] = "ended"
    BY <1>0, <2>1, <2>2, TcpState, StateNext, ZenonT(40)
  <2> QED BY <1>0, <1>2, <2>1, <2>2, <2>3, OneHandler, Moves, CancelledPhase
<1> QED BY <1>3, <1>4 DEF TcpListener

(* Start receives: readiness is withdrawn, and after the last one Start returns. *)
LEMMA EndRefines ==
  ASSUME LifecycleInv, NEW b \in BOOLEAN, somethingEnded(b), NEW h, NEW e, Offered(h, e),
         HandlerState' = HandlerState, \A s \in Servers : serve'[s] = "off" <=> serve[s] = "off"
  PROVE  Service!Next \/ UNCHANGED Service!vars
<1>0. TypeOK /\ Together /\ OrderInv /\ PhaseInv
  BY DEF LifecycleInv
<1>1. /\ ready' = FALSE /\ start = "loop" /\ start' \in {"loop", "returned"} /\ UNCHANGED <<toStart, tcp>>
      /\ start' = "returned" => handlerCount <= received + 1
  BY <1>0, ReceiveType, ZenonT(40)
<1>2. Used' = Used
  BY <1>1, UsedSame
<1>3. Phase = IF ready THEN "ready" ELSE "draining"
  BY <1>1 DEF Phase
<1>4. CASE start' = "loop"
  <2>1. Phase' = "draining"
    BY <1>1, <1>4 DEF Phase
  <2>2. CASE ready
    BY <1>2, <1>3, <2>1, <2>2 DEF Service!Next, Service!Drain
  <2>3. CASE ~ready
    BY <1>2, <1>3, <2>1, <2>3, Stutters
  <2> QED BY <2>2, <2>3
<1>5. CASE start' = "returned"
  <2>1. Phase' = "stopped"
    BY <1>5 DEF Phase
  <2>2. received \in Nat /\ handlerCount <= received + 1 /\ handlerCount \in Nat /\ handlerCount >= 2
    <3>1. Len(tcp) \in Nat /\ Len(ServerOrder) \in Nat /\ Len(ServerOrder) >= 2 /\ received \in Nat
      BY <1>0, ProxiesFinite, LifecycleAssumption, SMTT(30) DEF TypeOK
    <3> QED BY <1>1, <1>5, <3>1, SMTT(30) DEF handlerCount
  <2>3. ~ready
    BY <1>0, <2>2, SMTT(30) DEF PhaseInv
  <2>4. Used = Servers \cup Proxies
    BY <1>0, <1>1, LifecycleAssumption DEF Used, Proxies, OrderInv, Off
  <2>5. Service!AtWork = Working /\ Used \cap Tcp = Proxies
    <3>1. Proxies \subseteq Tcp
      BY <1>0, ProxiesFinite DEF TypeOK
    <3> QED BY <2>4, <3>1, LifecycleAssumption, Zenon DEF Service!AtWork, Working
  <2>6. Cardinality(Working) <= 2 * Cardinality(Proxies)
    <3>1. received <= Cardinality(Past)
      BY <1>0 DEF PhaseInv
    <3> QED BY <1>0, <2>2, <3>1, WorkBounded
  <2>7. Service!Stop
    <3>1. Phase = "draining"
      BY <1>3, <2>3
    <3>2. Cardinality(Service!AtWork) <= 2 * Cardinality(Used \cap Tcp)
      BY <2>5, <2>6
    <3>3. \A S : Service!Cardinality(S) = Cardinality(S)
      BY Zenon DEF Service!Cardinality, Cardinality
    <3> QED BY <1>2, <2>1, <3>1, <3>2, <3>3 DEF Service!Stop
  <2> QED BY <2>7 DEF Service!Next
<1> QED BY <1>1, <1>4, <1>5, SMTT(30)

(* Start receives an end, from any of the goroutines. *)
LEMMA ReceiveRefines ==
  ASSUME LifecycleInv, Receive
  PROVE  Service!Next \/ UNCHANGED Service!vars
<1> USE DEF serveVars, tcpVars
<1>0. TypeOK /\ Together /\ OrderInv
  BY DEF LifecycleInv
<1>f. /\ Servers \cap Tcp = {} /\ out \in [Servers -> BOOLEAN]
      /\ serve \in [Servers -> {"off", "select", "shutdown", "wait", "report", "gone"}]
      /\ accept \in [Tcp -> {"off", "accept", "report", "gone"}]
      /\ closer \in [Tcp -> {"off", "wait", "report", "last", "gone"}]
  BY <1>0, LifecycleAssumption DEF TypeOK
<1>p. \A t \in Tcp : accept[t] # "off" \/ closer[t] # "off" => t \in Proxies /\ accept[t] # "off"
  BY <1>0 DEF OrderInv, Together
<1>1. ASSUME NEW s \in Servers, serverEnded(s) PROVE Service!Next \/ UNCHANGED Service!vars
  <2>1. /\ somethingEnded(out[s]) /\ serve[s] = "report" /\ serve' = [serve EXCEPT ![s] = "gone"]
        /\ UNCHANGED <<inner, accept, closer>> /\ out[s] \in BOOLEAN
    BY <1>f, <1>1 DEF serverEnded
  <2>2. OnlyHandler(s) /\ serve'[s] = "gone" /\ \A r \in Servers : serve'[r] = "off" <=> serve[r] = "off"
    BY <1>f, <2>1 DEF OnlyHandler
  <2>3. HandlerState' = HandlerState
    <3>1. HandlerState[s] = "ended" /\ HandlerState'[s] = "ended"
      BY <2>1, <2>2, ServerState, StateNext, Zenon
    <3> QED BY <2>2, <3>1, OneHandler, SMTT(30)
  <2>4. Offered(s, "serve")
    BY <2>1 DEF Offered
  <2> QED BY <2>1, <2>2, <2>3, <2>4, EndRefines
<1>2. ASSUME NEW t \in Tcp, acceptEnded(t) PROVE Service!Next \/ UNCHANGED Service!vars
  <2>1. /\ somethingEnded(TRUE) /\ accept[t] = "report" /\ accept' = [accept EXCEPT ![t] = "gone"]
        /\ UNCHANGED <<serve, inner, closer>>
    BY <1>2, Zenon DEF acceptEnded
  <2>2. OnlyHandler(t) /\ accept'[t] = "gone" /\ closer'[t] = closer[t]
    BY <1>f, <2>1 DEF OnlyHandler
  <2>3. HandlerState'[t] = HandlerState[t]
    BY <2>1, <2>2, TcpState, StateNext
  <2>4. HandlerState' = HandlerState
    BY <2>2, <2>3, OneHandler
  <2>5. Offered(t, "accept")
    BY <1>p, <2>1 DEF Offered
  <2> QED BY <2>1, <2>4, <2>5, EndRefines, Zenon
<1>3. ASSUME NEW t \in Tcp, closerEnded(t) PROVE Service!Next \/ UNCHANGED Service!vars
  <2>1. PICK b \in BOOLEAN, v \in {"last", "gone"} :
          /\ somethingEnded(b) /\ closer' = [closer EXCEPT ![t] = v]
          /\ closer[t] = IF v = "last" THEN "report" ELSE "last"
          /\ UNCHANGED <<serve, inner, accept>>
    BY <1>3, Zenon DEF closerEnded
  <2>2. OnlyHandler(t) /\ accept'[t] = accept[t] /\ closer'[t] = v /\ t \in Proxies /\ accept[t] # "off"
    BY <1>f, <1>p, <2>1, SMTT(30) DEF OnlyHandler
  <2>3. HandlerState'[t] = HandlerState[t]
    BY <1>f, <2>1, <2>2, TcpState, StateNext
  <2>4. HandlerState' = HandlerState
    BY <2>2, <2>3, OneHandler
  <2>5. Offered(t, closer[t])
    BY <2>1, <2>2 DEF Offered
  <2> QED BY <2>1, <2>4, <2>5, EndRefines
<1> QED BY <1>1, <1>2, <1>3 DEF Receive

(* waitForConfig and startListeners. *)
LEMMA StartingRefines ==
  ASSUME LifecycleInv, Starting
  PROVE  Service!Next \/ UNCHANGED Service!vars
<1> USE DEF mainVars, runVars, serveVars, tcpVars
<1>0. TypeOK /\ Together /\ OrderInv /\ PhaseInv
  BY DEF LifecycleInv
<1>f. /\ Servers \cap Tcp = {} /\ Servers # {} /\ Proxies \subseteq Tcp
      /\ toStart \in Seq(Servers \cup Tcp)
      /\ serve \in [Servers -> {"off", "select", "shutdown", "wait", "report", "gone"}]
      /\ inner \in [Servers -> {"off", "listen", "serve", "wrote", "send", "gone"}]
      /\ accept \in [Tcp -> {"off", "accept", "report", "gone"}]
      /\ closer \in [Tcp -> {"off", "wait", "report", "last", "gone"}]
  BY <1>0, ProxiesFinite, LifecycleAssumption, Zenon DEF TypeOK
<1>1. CASE waitForConfig
  <2>1. PICK c \in TcpConfigs : tcp' = c /\ toStart' = ServerOrder \o c
    BY <1>1 DEF waitForConfig
  <2>2. /\ start = "config" /\ start' = "listen" /\ UNCHANGED <<serve, inner, accept, closer>>
    BY <1>1 DEF waitForConfig
  <2>3. HandlerState' = HandlerState /\ Phase = "starting" /\ Phase' = "starting"
    BY <2>2 DEF HandlerState, Phase
  <2>4. Used = {}
    BY <1>0, <2>2, Zenon DEF OrderInv, Off, Used
  <2>5. Used' \subseteq Servers \cup Tcp
    <3>1. {tcp'[k] : k \in 1..Len(tcp')} \subseteq Tcp
      BY <2>1, LifecycleAssumption
    <3> QED BY <3>1 DEF Used
  <2>6. Service!Configure
    BY <2>3, <2>4, <2>5 DEF Service!Configure
  <2> QED BY <2>6 DEF Service!Next
<1>2. CASE waitForConfigDone \/ ListenFails
  <2>1. /\ start \in {"config", "listen"} /\ start' = "returned"
        /\ UNCHANGED <<toStart, tcp, serve, inner, accept, closer>>
    BY <1>2 DEF waitForConfigDone, ListenFails, Return
  <2>2. HandlerState' = HandlerState /\ Phase = "starting" /\ Phase' = "stopped"
    BY <2>1 DEF HandlerState, Phase
  <2>3. Used' = Used
    BY <2>1, UsedSame
  <2> QED BY <2>2, <2>3 DEF Service!Next, Service!GiveUp
<1>3. CASE listenersStarted
  <2>1. /\ start = "listen" /\ toStart = <<>> /\ start' = "loop" /\ ready' = TRUE
        /\ UNCHANGED <<toStart, tcp, serve, inner, accept, closer>>
    BY <1>3 DEF listenersStarted
  <2>2. HandlerState' = HandlerState /\ Phase = "starting" /\ Phase' = "ready"
    BY <2>1 DEF HandlerState, Phase
  <2>3. Used' = Used
    BY <2>1, UsedSame
  <2>4. \A h \in Servers \cup Proxies : ~Off(h)
    BY <1>0, <2>1 DEF OrderInv, Waiting
  <2>5. Used = Servers \cup Proxies
    BY <1>f, <2>4 DEF Used, Proxies, Off
  <2>6. \A h \in Used : HandlerState[h] # "new"
    BY <1>0, <1>f, <2>4, <2>5 DEF HandlerState, Off
  <2>7. Service!Ready
    BY <1>f, <2>2, <2>3, <2>5, <2>6 DEF Service!Ready
  <2> QED BY <2>7 DEF Service!Next
<1>4. ASSUME NEW h \in Servers \cup Tcp, start = "listen", toStart # <<>>, Head(toStart) = h
      PROVE  h \in Servers \cup Proxies /\ Off(h) /\ Used = Servers \cup Proxies
  <2>1. h \in Waiting
    <3>1. 1 \in 1..Len(toStart) /\ toStart[1] = h
      BY <1>f, <1>4
    <3> QED BY <3>1 DEF Waiting
  <2> QED BY <1>0, <1>4, <2>1 DEF OrderInv, Used, Proxies
<1>5. ASSUME NEW s \in Servers, startServer(s) PROVE Service!Next \/ UNCHANGED Service!vars
  <2>1. /\ start = "listen" /\ toStart # <<>> /\ Head(toStart) = s
        /\ serve' = [serve EXCEPT ![s] = "select"] /\ UNCHANGED <<start, tcp, accept, closer>>
        /\ inner' = [inner EXCEPT ![s] = IF s = Quic THEN "listen" ELSE "serve"]
    BY <1>5 DEF startServer
  <2>2. s \in Used /\ serve[s] = "off" /\ Used = Servers \cup Proxies
    BY <1>4, <2>1 DEF Off
  <2>3. OnlyHandler(s) /\ serve'[s] = "select" /\ inner'[s] = IF s = Quic THEN "listen" ELSE "serve"
    BY <1>f, <2>1 DEF OnlyHandler
  <2>4. Used' = Used
    BY <2>1, <2>2, <2>3 DEF Used, Proxies
  <2>5. Phase = "starting" /\ Phase' = "starting"
    BY <2>1 DEF Phase
  <2>6. HandlerState[s] = "new" /\ HandlerState'[s] = IF s = Quic THEN "opening" ELSE "open"
    BY <2>2, <2>3, ServerState, StateNext
  <2> QED BY <2>2, <2>3, <2>4, <2>5, <2>6, OneHandler, Moves
<1>6. ASSUME NEW t \in Tcp, startTcpProxy(t) PROVE Service!Next \/ UNCHANGED Service!vars
  <2>1. /\ start = "listen" /\ toStart # <<>> /\ Head(toStart) = t /\ toStart' = Tail(toStart)
        /\ accept' = [accept EXCEPT ![t] = "accept"] /\ closer' = [closer EXCEPT ![t] = "wait"]
        /\ UNCHANGED <<start, tcp, serve, inner>>
    BY <1>6 DEF startTcpProxy
  <2>2. t \in Used /\ accept[t] = "off" /\ Used = Servers \cup Proxies
    BY <1>4, <1>f, <2>1 DEF Off
  <2>3. OnlyHandler(t) /\ accept'[t] = "accept" /\ closer'[t] = "wait"
    BY <1>f, <2>1 DEF OnlyHandler
  <2>4. Used' = Used
    <3>1. CASE Tail(toStart) # <<>>
      BY <2>1, <2>2, <3>1, SMTT(30) DEF Used, Proxies
    <3>2. CASE Tail(toStart) = <<>>
      <4>1. Waiting = {t}
        <5>1. Len(toStart) \in Nat /\ Len(Tail(toStart)) = Len(toStart) - 1 /\ toStart[1] = t
          BY <1>f, <2>1
        <5>2. Len(<<>>) = 0
          OBVIOUS
        <5>3. Len(Tail(toStart)) = 0
          BY <3>2, <5>2, Zenon
        <5>4. Len(toStart) = 1
          BY <5>1, <5>3
        <5> QED BY <5>1, <5>4 DEF Waiting
      <4>2. PICK s \in Servers : serve[s] # "off"
        BY <1>0, <1>f, <2>1, <4>1 DEF OrderInv, Off
      <4> QED BY <2>1, <2>2, <4>2 DEF Used, Proxies
    <3> QED BY <3>1, <3>2
  <2>5. Phase = "starting" /\ Phase' = "starting"
    BY <2>1 DEF Phase
  <2>6. HandlerState[t] = "new" /\ HandlerState'[t] = "open" /\ t # Quic
    BY <2>2, <2>3, TcpState, StateNext, LifecycleAssumption
  <2> QED BY <2>2, <2>3, <2>4, <2>5, <2>6, OneHandler, Moves
<1> QED BY <1>1, <1>2, <1>3, <1>5, <1>6 DEF Starting

(* Every step of the proxy is one of ProxyService, or none. *)
LEMMA ServiceStep == LifecycleInv /\ [Next]_vars => [Service!Next]_(Service!vars)
<1> SUFFICES ASSUME LifecycleInv, [Next]_vars PROVE Service!Next \/ UNCHANGED Service!vars
  OBVIOUS
<1> USE DEF mainVars, runVars, startVars, serveVars, tcpVars
<1>1. CASE \/ mainSignalled \/ mainExits \/ Environment \/ RunDone \/ RunSend \/ reconfigured
           \/ UNCHANGED vars
  <2>1. UNCHANGED <<start, toStart, tcp, ready, serve, inner, accept, closer>>
    BY <1>1 DEF mainSignalled, mainExits, Environment, Signal, RunReconfigure, RunDone, RunSend, reconfigured, vars
  <2>2. HandlerState' = HandlerState
    BY <2>1 DEF HandlerState
  <2> QED BY <2>1, <2>2, UsedSame, PhaseSame, Stutters, SMTT(30)
<1>2. CASE Stopping
  <2>1. /\ start \in {"loop", "sleep"} /\ start' \in {"loop", "sleep"}
        /\ UNCHANGED <<toStart, tcp, serve, inner, accept, closer>> /\ (ready' = ready \/ ready' = FALSE)
    BY <1>2 DEF Stopping, shutdownSignalled, shutdownPropagated
  <2>2. HandlerState' = HandlerState /\ Used' = Used
    BY <2>1, UsedSame DEF HandlerState
  <2>3. CASE ready' = ready
    BY <2>1, <2>2, <2>3, PhaseSame, Stutters
  <2>4. CASE ready' = FALSE /\ ready' # ready
    <3>1. ready
      BY <2>4, Zenon DEF LifecycleInv, TypeOK
    <3>2. Phase = "ready" /\ Phase' = "draining"
      BY <2>1, <2>4, <3>1 DEF Phase
    <3> QED BY <2>2, <3>2 DEF Service!Next, Service!Drain
  <2> QED BY <2>1, <2>3, <2>4, Zenon
<1>3. CASE Starting
  BY <1>3, StartingRefines
<1>4. CASE Receive
  BY <1>4, ReceiveRefines
<1>5. ASSUME NEW s \in Servers, Server(s) \/ ServeFails(s) PROVE Service!Next \/ UNCHANGED Service!vars
  BY <1>5, ServerRefines
<1>6. ASSUME NEW t \in Tcp, TcpListener(t) \/ AcceptFails(t) PROVE Service!Next \/ UNCHANGED Service!vars
  BY <1>6, TcpRefines
<1>7. CASE QuicListens
  BY <1>7, QuicRefines
<1> QED BY <1>1, <1>2, <1>3, <1>4, <1>5, <1>6, <1>7 DEF Next, Failure

(* Every variable keeps its type, and configChan its capacity. *)
THEOREM TypeCorrect == Spec => []TypeOK
BY LifecycleInvCorrect, PTL DEF LifecycleInv

(* Start and its listeners keep the promise of ProxyService, for any number of
   servers and TCP proxies: when it is ready every listener has been opened but
   QUIC's, which has been started and opens its socket by itself (ListenAndServe
   runs in a goroutine); no listener is closed while the probe says ready, and
   Start returns only when all handlers have ended, up to two for each TCP proxy. *)
THEOREM ServiceKeptCorrect == Spec => ServiceKept
<1>1. Init => Service!Init
  <2>1. Init => Phase = "starting" /\ Used = {}
    BY DEF Init, Phase, Used
  <2>2. Init => HandlerState = [h \in Servers \cup Tcp |-> "new"]
    BY DEF Init, HandlerState
  <2> QED BY <2>1, <2>2 DEF Service!Init
<1>2. LifecycleInv /\ [Next]_vars => [Service!Next]_(Service!vars)
  BY ServiceStep
<1> QED BY <1>1, <1>2, LifecycleInvCorrect, PTL DEF Spec, ServiceKept, Service!Spec

----------------------------------------------------------------------------
(* Without TCP proxies the count of Start is right. *)
EndsInv == tcp = <<>> => EndsAfterHandlers

(* A server that has ended stays so. *)
LEMMA EndedStays ==
  ASSUME TypeOK, [Next]_vars, start = "returned"
  PROVE  /\ UNCHANGED <<received, tcp>>
         /\ \A s \in Servers : serve[s] \in {"report", "gone"} => serve'[s] \in {"report", "gone"}
<1> USE DEF mainVars, runVars, startVars, serveVars, tcpVars, notServe, notTcp
<1>0. serve \in [Servers -> {"off", "select", "shutdown", "wait", "report", "gone"}]
  BY DEF TypeOK
<1>1. CASE \/ mainSignalled \/ mainExits \/ Environment \/ RunDone \/ RunSend \/ QuicListens
           \/ UNCHANGED vars
  BY <1>1 DEF mainSignalled, mainExits, Environment, Signal, RunReconfigure, RunDone, RunSend, QuicListens, vars
<1>2. CASE Starting
  BY <1>2 DEF Starting, waitForConfig, waitForConfigDone, ListenFails, listenersStarted,
              startServer, startTcpProxy
<1>3. CASE Receive \/ reconfigured \/ Stopping
  BY <1>3 DEF Receive, serverEnded, acceptEnded, closerEnded, somethingEnded, reconfigured,
              Stopping, shutdownSignalled, shutdownPropagated
<1>4. ASSUME NEW u \in Servers, Server(u) \/ ServeFails(u)
      PROVE  /\ UNCHANGED <<received, tcp>>
             /\ \A s \in Servers : serve[s] \in {"report", "gone"} => serve'[s] \in {"report", "gone"}
  BY <1>0, <1>4 DEF Server, ServeFails, ServeCloses, ServeReturns, innerSends, Shutdown,
                    ShutdownReturns, serveReturns
<1>5. CASE \E t \in Tcp : TcpListener(t) \/ AcceptFails(t)
  BY <1>5 DEF TcpListener, closeListener, AcceptFails
<1> QED BY <1>1, <1>2, <1>3, <1>4, <1>5 DEF Next, Failure

(* The receive that makes Start return finds every server ended. *)
LEMMA LastReceive ==
  ASSUME LifecycleInv, Receive, tcp' = <<>>, start' = "returned", NEW u \in Servers
  PROVE  serve'[u] \in {"report", "gone"}
<1> USE DEF serveVars, tcpVars
<1>0. /\ TypeOK /\ Together /\ received <= Cardinality(Past)
      /\ serve \in [Servers -> {"off", "select", "shutdown", "wait", "report", "gone"}]
      /\ \A t \in Tcp \ Proxies : accept[t] = "off" /\ closer[t] = "off"
  BY DEF LifecycleInv, TypeOK, PhaseInv, OrderInv, Together
<1>1. tcp = <<>>
  BY DEF Receive, serverEnded, acceptEnded, closerEnded, somethingEnded
<1>2. Proxies = {}
  <2>1. Len(<<>>) = 0 /\ 1..0 = {}
    OBVIOUS
  <2> QED BY <1>1, <2>1 DEF Proxies
<1>3. PICK s \in Servers : serverEnded(s)
  BY <1>0, <1>2 DEF Receive, acceptEnded, closerEnded
<1>4. /\ out[s] \in BOOLEAN /\ somethingEnded(out[s]) /\ serve[s] = "report"
      /\ serve' = [serve EXCEPT ![s] = "gone"]
  BY <1>3 DEF serverEnded, TypeOK, LifecycleInv
<1>5. handlerCount <= received + 1
  BY <1>0, <1>4, ReceiveType
<1>6. Offered(s, "serve")
  BY <1>4 DEF Offered
<1>7. IsFiniteSet(Working) /\ Cardinality(Working) <= 2 * Cardinality(Proxies)
  BY <1>0, <1>5, <1>6, WorkBounded
<1>8. Cardinality(Working) = 0
  BY <1>2, <1>7, FS_EmptySet, FS_CardinalityType
<1>9. Working = {}
  BY <1>7, <1>8, FS_EmptySet
<1>10. HandlerState[u] = "ended"
  BY <1>9 DEF Working
<1>11. serve[u] \in {"report", "gone"}
  BY <1>0, <1>10, ServerState
<1> QED BY <1>0, <1>4, <1>11

LEMMA EndsStep == LifecycleInv /\ EndsInv /\ [Next]_vars => EndsInv'
<1> SUFFICES ASSUME LifecycleInv, EndsInv, [Next]_vars, tcp' = <<>>, start' = "returned",
                    received' > 0, NEW u \in Servers
             PROVE  serve'[u] \in {"report", "gone"}
  BY DEF EndsInv, EndsAfterHandlers
<1>1. CASE start = "returned"
  BY <1>1, EndedStays DEF EndsInv, EndsAfterHandlers, LifecycleInv
<1>2. CASE Receive
  BY <1>2, LastReceive
<1>3. CASE start # "returned" /\ ~Receive
  <2> USE DEF mainVars, runVars, startVars, serveVars, tcpVars, notServe, notTcp
  <2>1. waitForConfigDone \/ ListenFails
    <3>1. CASE \/ mainSignalled \/ mainExits \/ Environment \/ RunDone \/ RunSend \/ QuicListens
               \/ UNCHANGED vars
      BY <1>3, <3>1 DEF mainSignalled, mainExits, Environment, Signal, RunReconfigure, RunDone,
                        RunSend, QuicListens, vars
    <3>2. CASE Starting
      BY <1>3, <3>2 DEF Starting, waitForConfig, listenersStarted, startServer, startTcpProxy
    <3>3. CASE reconfigured \/ Stopping
      BY <1>3, <3>3 DEF reconfigured, Stopping, shutdownSignalled, shutdownPropagated
    <3>4. CASE \E s \in Servers : Server(s) \/ ServeFails(s)
      BY <1>3, <3>4 DEF Server, ServeFails, ServeCloses, ServeReturns, innerSends, Shutdown,
                        ShutdownReturns, serveReturns
    <3>5. CASE \E t \in Tcp : TcpListener(t) \/ AcceptFails(t)
      BY <1>3, <3>5 DEF TcpListener, closeListener, AcceptFails
    <3> QED BY <1>3, <3>1, <3>2, <3>3, <3>4, <3>5 DEF Next, Failure
  <2>2. received' = received /\ start \in {"config", "listen"}
    BY <2>1 DEF waitForConfigDone, ListenFails
  <2> QED BY <2>2 DEF LifecycleInv, PhaseInv
<1> QED BY <1>1, <1>2, <1>3

(* When the configuration that Start runs has no TCP proxy, its loop ends only
   once every server has: the count of proxy.go:168 is off by the extra ends of
   TCP proxies and by nothing else.                                           *)
THEOREM EndsWithoutTcp == Spec => [](tcp = <<>> => EndsAfterHandlers)
<1>1. Init => EndsInv
  BY DEF Init, EndsInv, EndsAfterHandlers
<1>2. LifecycleInv /\ EndsInv /\ [Next]_vars => EndsInv'
  BY EndsStep
<1>3. EndsInv <=> (tcp = <<>> => EndsAfterHandlers)
  BY DEF EndsInv
<1> QED BY <1>1, <1>2, <1>3, LifecycleInvCorrect, PTL DEF Spec
====
