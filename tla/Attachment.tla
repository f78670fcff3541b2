----------------------------- MODULE Attachment -----------------------------
(***************************************************************************)
(* Agents attached to the Workbench through a private socket:              *)
(* LocalListener (tools/forge_local.py) accepts a bounded number of them,  *)
(* a thread of each serves its lines (Server of tools/uconsole_mcp.py,     *)
(* ClientSession of tools/forge_client.py), and close ends it all while    *)
(* calls wait for the window's thread.  Workbench says what a call does;   *)
(* here the window only answers it, or close does.                         *)
(***************************************************************************)
EXTENDS Naturals, FiniteSets

CONSTANTS Clients,     \* connections ever made
          MaxClients   \* slots of the listener, 8 in the code

ListenerAssumption == MaxClients \in Nat

VARIABLES
  conn,       \* per connection: how far its thread is
  session,    \* the handshake of its Server: new, initialized, ready
  call,       \* its request to the window: none, pending, answered
  slots,      \* free slots
  workers,    \* LocalListener.clients and workers
  accepting,  \* the accept thread: alive, stalled longer than close waits, ended
  stalled,    \* history variable: it was stalled before
  closing,    \* how far close is
  joined,     \* the workers close waits for
  queueOpen   \* OwnerQueue accepts

vars == <<conn, session, call, slots, workers, accepting, stalled,
          closing, joined, queueOpen>>
thread == <<conn, session, call>>
listener == <<slots, workers, accepting, stalled>>
owner == <<closing, joined, queueOpen>>

TypeOK ==
  /\ conn \in [Clients -> {"none", "backlog", "accepted", "serving", "ending", "over"}]
  /\ session \in [Clients -> {"new", "initialized", "ready"}]
  /\ call \in [Clients -> {"none", "pending", "answered"}]
  /\ slots \in 0 .. MaxClients
  /\ workers \subseteq Clients /\ joined \subseteq Clients
  /\ accepting \in {"alive", "stalled", "ended"}
  /\ closing \in {"no", "queue", "listening", "stopped", "joined", "closed", "late", "stuck"}
  /\ stalled \in BOOLEAN /\ queueOpen \in BOOLEAN

Init ==
  /\ conn = [c \in Clients |-> "none"]
  /\ session = [c \in Clients |-> "new"]
  /\ call = [c \in Clients |-> "none"]
  /\ slots = MaxClients /\ workers = {} /\ accepting = "alive"
  /\ stalled = FALSE /\ closing = "no" /\ joined = {} /\ queueOpen = TRUE

Goto(c, p) == conn' = [conn EXCEPT ![c] = p]
Stopped == closing \in {"stopped", "joined", "closed", "late", "stuck"}

-----------------------------------------------------------------------------
(* The accept thread. *)

Connect(c) ==
  /\ conn[c] = "none" /\ ~Stopped
  /\ Goto(c, "backlog")
  /\ UNCHANGED <<session, call, listener, owner>>

\* A slot, or the connection is closed at once.
Accept(c) ==
  /\ accepting = "alive" /\ conn[c] = "backlog" /\ \A d \in Clients : conn[d] # "accepted"
  /\ IF slots > 0 THEN Goto(c, "accepted") /\ slots' = slots - 1
                  ELSE Goto(c, "over") /\ UNCHANGED slots
  /\ UNCHANGED <<session, call, workers, accepting, stalled, owner>>

\* The worker starts; when it cannot, the accept thread dies of it.
StartWorker(c) ==
  /\ accepting = "alive" /\ conn[c] = "accepted"
  /\ \/ Goto(c, "serving") /\ workers' = workers \cup {c} /\ UNCHANGED <<slots, accepting>>
     \/ Goto(c, "over") /\ slots' = slots + 1 /\ accepting' = "ended" /\ UNCHANGED workers
  /\ UNCHANGED <<session, call, stalled, owner>>

AcceptStops ==
  /\ accepting = "alive" /\ Stopped /\ \A d \in Clients : conn[d] # "accepted"
  /\ accepting' = "ended"
  /\ UNCHANGED <<thread, slots, workers, stalled, owner>>

\* The thread is not scheduled for longer than close waits, and comes back.
AcceptStalls ==
  /\ accepting = "alive" /\ ~stalled
  /\ accepting' = "stalled" /\ stalled' = TRUE
  /\ UNCHANGED <<thread, slots, workers, owner>>

AcceptResumes ==
  /\ accepting = "stalled"
  /\ accepting' = "alive"
  /\ UNCHANGED <<thread, slots, workers, stalled, owner>>

-----------------------------------------------------------------------------
(* One line after the other in the connection's thread: Server.serve. *)

Reading(c) == conn[c] = "serving" /\ call[c] = "none"

Initialize(c) ==
  /\ Reading(c) /\ session[c] = "new"
  /\ session' = [session EXCEPT ![c] = "initialized"]
  /\ UNCHANGED <<conn, call, listener, owner>>

Initialized(c) ==
  /\ Reading(c) /\ session[c] = "initialized"
  /\ session' = [session EXCEPT ![c] = "ready"]
  /\ UNCHANGED <<conn, call, listener, owner>>

(* tools/call of a valid, granted tool; every other line is answered (or, a  *)
(* notification, dropped) without a call.                                    *)
CallTool(c) ==
  /\ Reading(c) /\ session[c] = "ready"
  /\ call' = [call EXCEPT ![c] = IF queueOpen THEN "pending" ELSE "answered"]
  /\ UNCHANGED <<conn, session, listener, owner>>

\* The window's thread runs the call; while it is in close it runs none.
OwnerRuns(c) ==
  /\ closing = "no" /\ call[c] = "pending"
  /\ call' = [call EXCEPT ![c] = "answered"]
  /\ UNCHANGED <<conn, session, listener, owner>>

CallTimesOut(c) ==
  /\ call[c] = "pending"
  /\ call' = [call EXCEPT ![c] = "answered"]
  /\ UNCHANGED <<conn, session, listener, owner>>

\* The reply is written, or the peer is gone.
Reply(c) ==
  /\ conn[c] = "serving" /\ call[c] = "answered"
  /\ call' = [call EXCEPT ![c] = "none"]
  /\ \/ UNCHANGED conn
     \/ Goto(c, "ending")
  /\ UNCHANGED <<session, listener, owner>>

\* End of the stream, 60 idle seconds, or the socket shut down by close.
Disconnected(c) ==
  /\ Reading(c)
  /\ Goto(c, "ending")
  /\ UNCHANGED <<session, call, listener, owner>>

\* The session is closed, its jobs go on; the slot is free again.
EndServing(c) ==
  /\ conn[c] = "ending"
  /\ Goto(c, "over") /\ workers' = workers \ {c} /\ slots' = slots + 1
  /\ UNCHANGED <<session, call, accepting, stalled, owner>>

-----------------------------------------------------------------------------
(* close_attachment in the window's thread. *)

BeginClose ==
  /\ closing = "no"
  /\ closing' = "queue"
  /\ UNCHANGED <<thread, listener, joined, queueOpen>>

\* Mutant: the calls that wait are left to their timeouts.
CloseQueueLeavingPending ==
  /\ closing = "queue"
  /\ closing' = "listening" /\ queueOpen' = FALSE
  /\ UNCHANGED <<thread, listener, joined>>

\* OwnerQueue.close: nothing waits for this thread any more.
CloseQueue ==
  /\ closing = "queue"
  /\ closing' = "listening" /\ queueOpen' = FALSE
  /\ call' = [c \in Clients |-> IF call[c] = "pending" THEN "answered" ELSE call[c]]
  /\ UNCHANGED <<conn, session, listener, joined>>

StopListening ==
  /\ closing = "listening"
  /\ closing' = "stopped"
  /\ conn' = [c \in Clients |-> IF conn[c] = "backlog" THEN "over" ELSE conn[c]]
  /\ UNCHANGED <<session, call, listener, joined, queueOpen>>

\* thread.join(timeout=2), then the workers of that moment are shut down.
JoinAccept ==
  /\ closing = "stopped" /\ accepting # "alive"
  /\ closing' = "joined"
  /\ joined' = workers
  /\ UNCHANGED <<thread, listener, queueOpen>>

(* Five seconds for the workers: one that needs nobody else ends in them.    *)
(* A thread still alive makes close raise, and the controller stays.         *)
Stuck(c) == conn[c] = "serving" /\ call[c] = "pending"
JoinWorkers ==
  /\ closing = "joined"
  /\ \A c \in joined : conn[c] = "over" \/ Stuck(c)
  /\ closing' = CASE \E c \in joined : Stuck(c) -> "stuck"
                  [] accepting # "ended" -> "late"
                  [] OTHER -> "closed"
  /\ UNCHANGED <<thread, listener, joined, queueOpen>>

-----------------------------------------------------------------------------
Serve(c) ==
  \/ Initialize(c) \/ Initialized(c) \/ CallTool(c) \/ OwnerRuns(c) \/ CallTimesOut(c)
  \/ Reply(c) \/ Disconnected(c) \/ EndServing(c)

Close == BeginClose \/ CloseQueue \/ StopListening \/ JoinAccept \/ JoinWorkers

Next ==
  \/ \E c \in Clients : Connect(c) \/ Accept(c) \/ StartWorker(c) \/ Serve(c)
  \/ AcceptStops \/ AcceptStalls \/ AcceptResumes \/ Close

Spec == Init /\ [][Next]_vars

-----------------------------------------------------------------------------
(* Every slot is free, or held by exactly one connection: whatever worker    *)
(* cannot start, disconnects, idles out or is closed, none is lost for good. *)
SlotsConserved ==
  slots + Cardinality({c \in Clients : conn[c] \in {"accepted", "serving", "ending"}}) = MaxClients

(* The window destroys the controller only after a clean close: no session   *)
(* is left then, unless the accept thread was stalled for two seconds and    *)
(* took one more connection; and no session ever waits for the very thread   *)
(* that closes, which makes close fail ("stuck").                            *)
CloseIsClean ==
  /\ closing # "stuck"
  /\ closing = "closed" /\ ~stalled => workers = {} /\ \A c \in Clients : conn[c] \in {"none", "over"}

(* Connections come and go for good: the slots are never short of one, and   *)
(* closing leaves none.                                                      *)
ConnectionsEnd == SlotsConserved /\ CloseIsClean

=============================================================================
