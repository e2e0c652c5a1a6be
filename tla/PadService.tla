----------------------------- MODULE PadService ------------------------------
(***************************************************************************)
(* AtticPadService.kt: the UDP transport of the Android app.  The main      *)
(* thread starts and stops sessions; each session runs on a thread of its   *)
(* own.  Stopping interrupts that thread and waits for it, but only so      *)
(* long: the probe and the connect call are native and cannot be            *)
(* interrupted, so a thread may outlive the session it was started for.     *)
(***************************************************************************)
EXTENDS AppShared, FiniteSets

CONSTANT SessionThreads   \* bound: threads alive at once

VARIABLES
  service,   \* the fields of AtticPadService
  threads,   \* where each session thread is, and its interrupt flag
  joining    \* what the main thread is waiting for in stopSession

serviceVars == <<service, threads, joining>>

NoThread == 0

\* A reference to a thread is not the null reference.
ASSUME PadServiceAssumption == NoThread \notin SessionThreads

ServiceInit ==
  /\ service = [running |-> FALSE, thread |-> NoThread, status |-> "IDLE", locks |-> FALSE]
  /\ threads = [t \in SessionThreads |-> [at |-> "NONE", interrupted |-> FALSE]]
  /\ joining = "NONE"

MainFree == joining = "NONE"

-----------------------------------------------------------------------------
(* The main thread.                                                         *)

Interrupted(t) == IF t = NoThread THEN threads ELSE [threads EXCEPT ![t].interrupted = TRUE]

\* stopSession, as far as the join; startSession begins with it.
StopSession(then) ==
  /\ MainFree /\ Room
  /\ service' = [service EXCEPT !.running = FALSE]
  /\ threads' = Interrupted(service.thread)
  /\ joining' = then
  /\ NothingPosted

\* Uninterruptible native calls are what a join can time out on.
Native(t) == threads[t].at \in {"PROBE", "CONNECT"}
StillRuns == {t \in SessionThreads : threads[t].at # "NONE" /\ ~Native(t)}
JoinReturns == service.thread \notin StillRuns

Stopped ==
  /\ joining = "STOP" /\ JoinReturns
  /\ service' = [service EXCEPT !.thread = NoThread, !.locks = FALSE]
  /\ joining' = "NONE"
  /\ UNCHANGED threads /\ NothingPosted

Started ==
  /\ joining = "START" /\ JoinReturns
  /\ \E t \in SessionThreads :
       /\ threads[t].at = "NONE"
       /\ threads' = [threads EXCEPT ![t] = [at |-> "CREATE", interrupted |-> FALSE]]
       /\ service' = [service EXCEPT !.thread = t, !.locks = TRUE, !.running = TRUE]
  /\ joining' = "NONE"
  /\ NothingPosted

-----------------------------------------------------------------------------
(* sessionLoop, on a thread t.                                              *)

Goes(t, to) == threads' = [threads EXCEPT ![t].at = to]

Publish(state) == service' = [service EXCEPT !.status = state] /\ Post("UDP", state)

At(t, place) == threads[t].at = place

\* No socket: the thread ends where it stands, before its finally block.
CreateFails(t) == At(t, "CREATE") /\ Publish("CLOSED") /\ Goes(t, "NONE") /\ UNCHANGED joining

Creates(t) == At(t, "CREATE") /\ Publish("HANDSHAKING") /\ Goes(t, "PROBE") /\ UNCHANGED joining

\* A secret that is too long, an ANNOUNCE that asks for one, a failed connect.
GivesUp(t) ==
  /\ At(t, "CREATE") \/ At(t, "PROBE") \/ At(t, "CONNECT")
  /\ Publish("CLOSED") /\ Goes(t, "FINALLY") /\ UNCHANGED joining

Probed(t) == At(t, "PROBE") /\ Goes(t, "CONNECT") /\ NothingPosted /\ UNCHANGED <<service, joining>>
Connects(t) == At(t, "CONNECT") /\ Goes(t, "PUMP") /\ NothingPosted /\ UNCHANGED <<service, joining>>

\* Mutant: the volatile flag alone, which the next session sets again.
LoopsOnRunning(t) == service.running

LoopsOn(t) == service.running /\ ~threads[t].interrupted

\* One turn of the loop; a status is published when something changed, or a
\* quarter of a second has passed.
Pumps(t) ==
  /\ At(t, "PUMP") /\ LoopsOn(t)
  /\ \/ Room /\ Publish("ACTIVE") /\ UNCHANGED threads
     \/ service.status = "ACTIVE" /\ NothingPosted /\ UNCHANGED <<service, threads>>
     \/ Publish("CLOSED") /\ Goes(t, "FINALLY")
  /\ UNCHANGED joining

LeavesLoop(t) ==
  /\ At(t, "PUMP") /\ ~LoopsOn(t)
  /\ Goes(t, "FINALLY") /\ NothingPosted /\ UNCHANGED <<service, joining>>

\* The finally block: the native client, which says BYE, and the locks of
\* whoever holds them now.
Finally(t) ==
  /\ At(t, "FINALLY") /\ Goes(t, "NONE") /\ UNCHANGED joining
  /\ IF service.status # "CLOSED"
       THEN /\ service' = [service EXCEPT !.locks = FALSE, !.status = "CLOSED"]
            /\ Post("UDP", "CLOSED")
       ELSE /\ service' = [service EXCEPT !.locks = FALSE]
            /\ NothingPosted

SessionThread(t) ==
  \/ CreateFails(t) \/ Creates(t) \/ GivesUp(t) \/ Probed(t) \/ Connects(t)
  \/ Pumps(t) \/ LeavesLoop(t) \/ Finally(t)
=============================================================================
