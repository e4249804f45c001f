---- MODULE ProxyService ----
(***************************************************************************)
(* What the proxy promises to main and to the readiness probe, without the *)
(* goroutines and channels that keep the promise.  It is ready only once   *)
(* every listener has been opened, but for the late ones, which open by    *)
(* themselves before or after that, or fail to.  It never becomes ready    *)
(* again, closes a listener on purpose only when it is no longer ready,    *)
(* and stops when its listeners have ended.  A TCP listener reports its    *)
(* end up to three times, so two handlers for each of them may still be at *)
(* work then.                                                              *)
(***************************************************************************)
EXTENDS Naturals, FiniteSets

CONSTANTS
  Handlers,     \* the HTTP servers and the TCP listeners
  Tcp,          \* the TCP listeners among them
  Late          \* those whose socket is opened by their own goroutine

VARIABLES
  phase,        \* starting, ready, draining or stopped
  used,         \* the handlers of the configuration the proxy started with
  handler       \* new, opening, open, failed (by itself), closing (by the proxy) or ended

vars == <<phase, used, handler>>

Init ==
  /\ phase = "starting" /\ used = {}
  /\ handler = [h \in Handlers |-> "new"]

Configure ==
  /\ phase = "starting" /\ used = {}
  /\ used' \in SUBSET Handlers
  /\ UNCHANGED <<phase, handler>>

Open(h) ==
  /\ phase = "starting" /\ h \in used /\ handler[h] = "new"
  /\ handler' = [handler EXCEPT ![h] = IF h \in Late THEN "opening" ELSE "open"]
  /\ UNCHANGED <<phase, used>>

OpenLate(h) ==
  /\ handler[h] = "opening"
  /\ handler' = [handler EXCEPT ![h] = "open"]
  /\ UNCHANGED <<phase, used>>

Ready ==
  /\ phase = "starting" /\ used # {}
  /\ \A h \in used : handler[h] # "new"
  /\ phase' = "ready"
  /\ UNCHANGED <<used, handler>>

(* A server stops accepting by itself, or cannot open its socket. *)
Fail(h) ==
  /\ handler[h] \in {"opening", "open"}
  /\ handler' = [handler EXCEPT ![h] = "failed"]
  /\ UNCHANGED <<phase, used>>

(* The proxy closes a listener, which may not be open yet or have failed meanwhile. *)
Close(h) ==
  /\ phase \in {"draining", "stopped"} /\ handler[h] \in {"opening", "open", "failed"}
  /\ handler' = [handler EXCEPT ![h] = "closing"]
  /\ UNCHANGED <<phase, used>>

(* The last request of a server is over, and its end is reported. *)
End(h) ==
  /\ handler[h] \in {"failed", "closing"}
  /\ handler' = [handler EXCEPT ![h] = "ended"]
  /\ UNCHANGED <<phase, used>>

Drain ==
  /\ phase = "ready"
  /\ phase' = "draining"
  /\ UNCHANGED <<used, handler>>

GiveUp ==
  /\ phase = "starting"
  /\ phase' = "stopped"
  /\ UNCHANGED <<used, handler>>

(* The handlers that are still at work when Start returns. *)
AtWork == {h \in used : handler[h] # "ended"}

Stop ==
  /\ phase = "draining"
  /\ Cardinality(AtWork) <= 2 * Cardinality(used \cap Tcp)
  /\ phase' = "stopped"
  /\ UNCHANGED <<used, handler>>

Next ==
  \/ Configure \/ Ready \/ Drain \/ GiveUp \/ Stop
  \/ \E h \in Handlers : Open(h) \/ OpenLate(h) \/ Fail(h) \/ Close(h) \/ End(h)

Spec == Init /\ [][Next]_vars
====
