---- MODULE Streams ----
(***************************************************************************)
(* Connections the proxy holds open and copies in both directions: TCP     *)
(* connections (connectTcp, pkg/proxy/proxy_tcp.go) and WebSockets         *)
(* (handleWebSocket, modules/websocket/websocket.go).  A stream has two    *)
(* copying goroutines and one that waits for the end: connectTcp's third   *)
(* goroutine, or handleWebSocket itself.  Both kinds stop with startCtx,   *)
(* which requests see as ServerCtx.                                        *)
(***************************************************************************)
EXTENDS Naturals

CONSTANT
  Clients       \* each connects to a TCP proxy, or sends an HTTP request

VARIABLES
  serverDone,   \* startCtx is cancelled
  listening,    \* the listener of the TCP proxy is open
  tcp,          \* the clients that have connected to the TCP proxy
  main,         \* where the setup, and then the goroutine that waits, of a stream is
  ends,         \* the proxy's two connections of a stream
  copier,       \* the copying goroutines, each named by the end it reads
  connDone      \* the context of the stream is cancelled

streamVars == <<serverDone, listening, tcp, main, ends, copier, connDone>>

End == {"down", "up"}
Other(e) == IF e = "down" THEN "up" ELSE "down"

Writing == {"write", "control", "close"}

StreamsTypeOK ==
  /\ serverDone \in BOOLEAN /\ listening \in BOOLEAN /\ tcp \subseteq Clients
  /\ main \in [Clients -> {"idle", "dial", "greet", "watch", "wait", "ended"}]
  /\ ends \in [Clients -> [End -> {"none", "open", "closed"}]]
  /\ copier \in [Clients -> [End -> {"off", "read", "cleanup", "done"} \cup Writing]]
  /\ connDone \in [Clients -> BOOLEAN]

StreamsInit ==
  /\ serverDone = FALSE /\ listening = TRUE /\ tcp = {}
  /\ main = [s \in Clients |-> "idle"]
  /\ ends = [s \in Clients |-> [e \in End |-> "none"]]
  /\ copier = [s \in Clients |-> [e \in End |-> "off"]]
  /\ connDone = [s \in Clients |-> FALSE]

CloseBoth == [e \in End |-> "closed"]

(* Start cancels startCtx: a signal, or the failure of a server. *)
ServerShutdown ==
  /\ ~serverDone /\ serverDone' = TRUE
  /\ UNCHANGED <<listening, tcp, main, ends, copier, connDone>>

(* The goroutine of startTcpProxy that waits for ctx. *)
CloseListener ==
  /\ listening /\ serverDone /\ listening' = FALSE
  /\ UNCHANGED <<serverDone, tcp, main, ends, copier, connDone>>

(***************************************************************************)
(* Setting a stream up.  "greet" is the PROXY header of a TCP connection   *)
(* and the upgrade of a WebSocket.                                         *)
(***************************************************************************)
notSetup == <<serverDone, listening, tcp, connDone>>

(* The accept loop calls connectTcp itself: it takes no connection during a dial. *)
AcceptTCP(s) ==
  /\ listening /\ main[s] = "idle" /\ tcp' = tcp \cup {s}
  /\ \A t \in tcp : main[t] \notin {"dial", "greet"}
  /\ main' = [main EXCEPT ![s] = "dial"] /\ ends' = [ends EXCEPT ![s]["down"] = "open"]
  /\ UNCHANGED <<copier, serverDone, listening, connDone>>

(* The client's connection belongs to the HTTP server until the upgrade. *)
handleWebSocket(s) ==
  /\ main[s] = "idle"
  /\ main' = [main EXCEPT ![s] = "dial"]
  /\ UNCHANGED <<ends, copier, notSetup>>

Dialed(s) ==
  /\ main[s] = "dial"
  /\ main' = [main EXCEPT ![s] = "greet"] /\ ends' = [ends EXCEPT ![s]["up"] = "open"]
  /\ UNCHANGED <<copier, notSetup>>

(* connectTcp returns here and leaves the client's connection open. *)
DialFails(s) ==
  /\ main[s] = "dial"
  /\ main' = [main EXCEPT ![s] = "ended"]
  /\ UNCHANGED <<ends, copier, notSetup>>

startCopying(s) ==
  /\ main[s] = "greet"
  /\ main' = [main EXCEPT ![s] = "watch"] /\ ends' = [ends EXCEPT ![s]["down"] = "open"]
  /\ copier' = [copier EXCEPT ![s] = [e \in End |-> "read"]]
  /\ UNCHANGED notSetup

(* Mutant: only the upstream connection is closed. *)
HeaderFailsHalf(s) ==
  /\ main[s] = "greet"
  /\ main' = [main EXCEPT ![s] = "ended"] /\ ends' = [ends EXCEPT ![s]["up"] = "closed"]
  /\ UNCHANGED <<copier, notSetup>>

HeaderFails(s) ==
  /\ main[s] = "greet"
  /\ main' = [main EXCEPT ![s] = "ended"] /\ ends' = [ends EXCEPT ![s] = CloseBoth]
  /\ UNCHANGED <<copier, notSetup>>

(* handleWebSocket returns here and leaves the upstream connection open.  The library
   fails before it takes the client's connection from the HTTP server, or after
   that; then it closes the connection.                                           *)
UpgradeFails(s) ==
  /\ main[s] = "greet"
  /\ main' = [main EXCEPT ![s] = "ended"]
  /\ ends' = ends \/ ends' = [ends EXCEPT ![s]["down"] = "closed"]
  /\ UNCHANGED <<copier, notSetup>>

(* The upgrade failed when the client's connection was no longer the HTTP server's. *)
UpgradeLost(s) ==
  /\ s \notin tcp /\ main[s] = "ended" /\ ends[s]["down"] = "closed"
  /\ \A e \in End : copier[s][e] = "off"

(***************************************************************************)
(* Copying.  The handlers of ping, pong and close frames run inside        *)
(* ReadMessage, in the goroutine that reads; after a close frame           *)
(* ReadMessage returns an error.                                           *)
(***************************************************************************)
notCopy == <<serverDone, listening, tcp, main, ends, connDone>>

(* Mutant: the handlers of control frames answer on the connection they came from,
   with WriteMessage.                                                             *)
TargetOfReader(c, e) == IF c = "write" THEN Other(e) ELSE e

(* The connection the goroutine that reads e writes to. *)
Target(c, e) == Other(e)

CopierTo(s, e, c) == copier' = [copier EXCEPT ![s][e] = c]

(* A message of the peer at e: data, or a control frame of a WebSocket. *)
Receive(s, e) ==
  /\ copier[s][e] = "read" /\ ends[s][e] = "open"
  /\ \E c \in IF s \in tcp THEN {"write"} ELSE Writing : CopierTo(s, e, c)
  /\ UNCHANGED notCopy

(* The peer closes or breaks its connection. *)
PeerEnds(s, e) ==
  /\ copier[s][e] = "read"
  /\ CopierTo(s, e, "cleanup")
  /\ UNCHANGED notCopy

Written(s, e) ==
  /\ copier[s][e] \in Writing /\ ends[s][Target(copier[s][e], e)] = "open"
  /\ CopierTo(s, e, IF copier[s][e] = "close" THEN "cleanup" ELSE "read")
  /\ UNCHANGED notCopy

WriteFails(s, e) ==
  /\ copier[s][e] \in Writing
  /\ CopierTo(s, e, "cleanup")
  /\ UNCHANGED notCopy

(* A read or write on a connection that the proxy itself has closed returns. *)
Interrupted(s, e) ==
  /\ \/ copier[s][e] = "read" /\ ends[s][e] = "closed"
     \/ copier[s][e] \in Writing /\ ends[s][Target(copier[s][e], e)] = "closed"
  /\ CopierTo(s, e, "cleanup")
  /\ UNCHANGED notCopy

(* Mutant: the end of one direction is not told to anybody. *)
copierEndsSilently(s, e) ==
  /\ copier[s][e] = "cleanup"
  /\ CopierTo(s, e, "done")
  /\ UNCHANGED notCopy

(* A TCP copier closes both connections; that of a WebSocket only cancels. *)
copierEnds(s, e) ==
  /\ copier[s][e] = "cleanup"
  /\ CopierTo(s, e, "done")
  /\ connDone' = [connDone EXCEPT ![s] = TRUE]
  /\ ends' = IF s \in tcp THEN [ends EXCEPT ![s] = CloseBoth] ELSE ends
  /\ UNCHANGED <<serverDone, listening, tcp, main>>

(***************************************************************************)
(* Waiting for the end.                                                    *)
(***************************************************************************)

(* Mutant: nobody looks at the context of the server. *)
watchConnOnly(s) ==
  /\ main[s] = "watch" /\ connDone[s]
  /\ ends' = [ends EXCEPT ![s] = CloseBoth]
  /\ main' = [main EXCEPT ![s] = IF s \in tcp THEN "ended" ELSE "wait"]
  /\ UNCHANGED <<serverDone, listening, tcp, copier, connDone>>

watch(s) ==
  /\ main[s] = "watch" /\ (connDone[s] \/ serverDone)
  /\ ends' = [ends EXCEPT ![s] = CloseBoth]
  /\ main' = [main EXCEPT ![s] = IF s \in tcp THEN "ended" ELSE "wait"]
  /\ UNCHANGED <<serverDone, listening, tcp, copier, connDone>>

(* wg.Wait, and the deferred cancel. *)
webSocketReturns(s) ==
  /\ main[s] = "wait" /\ \A e \in End : copier[s][e] = "done"
  /\ main' = [main EXCEPT ![s] = "ended"] /\ connDone' = [connDone EXCEPT ![s] = TRUE]
  /\ UNCHANGED <<serverDone, listening, tcp, ends, copier>>
----------------------------------------------------------------------------
Setup(s) ==
  \/ Dialed(s) \/ DialFails(s) \/ startCopying(s)
  \/ IF s \in tcp THEN HeaderFails(s) ELSE UpgradeFails(s)

Peers(s) == \E e \in End : Receive(s, e) \/ PeerEnds(s, e) \/ Written(s, e) \/ WriteFails(s, e)

Copying(s, e) == Interrupted(s, e) \/ copierEnds(s, e)

Watching(s) == watch(s) \/ (s \notin tcp /\ webSocketReturns(s))

StreamsNext ==
  \/ ServerShutdown \/ CloseListener
  \/ \E s \in Clients : Setup(s) \/ Peers(s) \/ Watching(s) \/ \E e \in End : Copying(s, e)

(***************************************************************************)
(* Properties.                                                             *)
(***************************************************************************)

(* A WebSocket connection has at most one writer at a time, as the library
   demands, though data and control frames of both sides are copied in parallel:
   each goroutine only writes to the end it does not read, none is started before
   the upgrade is answered and none outlives handleWebSocket (wg.Wait), whose
   callers have the connection to themselves again.                            *)
OneWriter ==
  \A s \in Clients :
    /\ \A d, e \in End :
         /\ d # e /\ copier[s][d] \in Writing /\ copier[s][e] \in Writing
         => Target(copier[s][d], d) # Target(copier[s][e], e)
    /\ s \notin tcp /\ main[s] \notin {"watch", "wait"} =>
         \A e \in End : copier[s][e] \in {"off", "done"}

(* The goroutines of a stream are gone. *)
Ended(s) ==
  /\ main[s] \in {"idle", "ended"}
  /\ \A e \in End : copier[s][e] \in {"off", "done"}

(* A stream that had both its connections leaves neither open, whichever way it
   ends.  (A TCP connection whose upstream cannot be dialed, and an upstream
   whose client cannot be upgraded, are left open by the early returns.)       *)
NothingLeftOpen ==
  \A s \in Clients : Ended(s) =>
    \/ \E e \in End : ends[s][e] = "none"
    \/ UpgradeLost(s)
    \/ ends[s] = CloseBoth

(* On shutdown every stream comes to an end, blocked copies included: ServerCtx
   "is closed on shutdown", and "long-running connections (websockets) will
   initiate shutdown" (pkg/proxy/context.go).  So do TCP connections that are
   still accepted or dialed at that time.                                      *)
StreamsEnd == serverDone ~> \A s \in Clients : Ended(s)

(* When one direction ends, so does the other, even when it is blocked in a write
   to a peer that does not read.                                               *)
OneEndsBoth ==
  \A s \in Clients : \A e \in End :
    copier[s][e] = "cleanup" ~> (Ended(s) /\ ends[s] = CloseBoth)
====
