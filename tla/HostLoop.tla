------------------------------ MODULE HostLoop ------------------------------
(***************************************************************************)
(* One lap of the program around the server library: the main loop of the  *)
(* Linux host (linux/main.c) and of the Windows host (windows/main.c), with*)
(* what each runs inside it, the web interface's one connection            *)
(* (webui.h) and the Windows tray menu.  Everything runs on one thread, so *)
(* whatever waits, everybody waits: a lap takes one datagram from the      *)
(* socket, and the tick that closes silent sessions runs before that       *)
(* datagram is handed over.                                                *)
(*                                                                         *)
(* Time passes in units of 250 ms.  Every client whose session is alive    *)
(* sends once in each unit; what a session does with a datagram is only    *)
(* that it was heard (Session models the rest).                            *)
(***************************************************************************)
EXTENDS Naturals, Sequences, FiniteSets

CONSTANTS
  Clients,        \* connected clients, all of which keep sending
  Hosts,          \* the hosts examined: "linux", "windows"
  MaxQueue,       \* bound: datagrams the socket's buffer holds
  SlowInARow,     \* bound: slow connections and menus before the socket's queue is empty again
  MenuUnits,      \* bound: how long a person keeps the tray menu open
  MaxGeneration   \* bound: secrets generated

IdleTimeout     == 12   \* APAD_IDLE_TIMEOUT_MS, 3000 ms
RequestDeadline == 8    \* UI_REQUEST_DEADLINE_MS, 2000 ms
ReadTimeout     == 2    \* UI_IO_TIMEOUT_MS, 500 ms

ASSUME HostLoopAssumption ==
  /\ Hosts \subseteq {"linux", "windows"} /\ MenuUnits \in Nat
  /\ MaxQueue \in Nat \ {0} /\ SlowInARow \in Nat /\ MaxGeneration \in Nat

VARIABLES
  host,         \* which of the two programs this is
  lapStep,      \* where the loop is
  queue,        \* datagrams in the socket's buffer, by sender
  received,     \* what apad_udp_recv returned in this lap: a sender or Nobody
  silence,      \* client -> units since a datagram of it was handed over
  alive,        \* clients whose session the server keeps
  spent,        \* units the current web request, or the menu, has taken so far
  slow,         \* slow connections and menus since the queue was last empty
  wantPair, wantUnpair,   \* the flags the signal handler sets
  asking,       \* history: a USR1 since begin_pairing was last entered
  window,       \* the pairing window: open, and the generation of its secret
  shown,        \* g_last_shown_pairing_gen
  exiting       \* g_should_exit

loopVars == <<host, lapStep, queue, received, silence, alive, spent, slow, wantPair,
              wantUnpair, asking, window, shown, exiting>>

Nobody == "nobody"
pairing  == <<window, shown>>
requests == <<host, wantPair, wantUnpair, asking, exiting>>
traffic  == <<queue, received, silence, alive>>

-----------------------------------------------------------------------------
(* Time *)

\* One unit passes, wherever the loop waits: every live client sends, in some
\* order, and what the buffer cannot hold is lost.
Orders == {order \in [1..Cardinality(alive) -> alive] :
             \A i, j \in DOMAIN order : i # j => order[i] # order[j]}
Queued(order) == LET all == queue \o order
                 IN  SubSeq(all, 1, IF Len(all) < MaxQueue THEN Len(all) ELSE MaxQueue)
Longer(n) == IF n < IdleTimeout THEN n + 1 ELSE n

Elapse ==
  /\ \E order \in Orders : queue' = Queued(order)
  /\ silence' = [c \in Clients |-> Longer(silence[c])]
  /\ UNCHANGED <<received, alive>>

-----------------------------------------------------------------------------
(* The lap *)

Goes(from, to) == lapStep = from /\ lapStep' = to

\* apad_udp_recv, at most 20 ms; the clock of the lap is read behind it.
Recv ==
  /\ lapStep = "recv" /\ ~exiting
  /\ \/ /\ queue # << >>
        /\ received' = Head(queue) /\ queue' = Tail(queue)
        /\ lapStep' = "tick"
        /\ UNCHANGED <<silence, alive, slow>>
     \/ /\ queue = << >>
        /\ received' = Nobody
        /\ lapStep' = "tick"
        /\ slow' = 0
        /\ UNCHANGED <<queue, silence, alive>>
     \/ /\ queue = << >>
        /\ Elapse
        /\ UNCHANGED <<lapStep, slow>>
  /\ UNCHANGED <<spent, requests, pairing>>

\* apad_server_tick: silent sessions end, the pairing window may expire.
TickLap ==
  /\ Goes("tick", IF host = "linux" THEN "pair" ELSE "datagram")
  /\ alive' = {c \in alive : silence[c] < IdleTimeout}
  /\ window' \in {window, [window EXCEPT !.open = FALSE]}
  /\ UNCHANGED <<queue, received, silence, spent, slow, requests, shown>>

\* The SIGUSR1 flag is cleared before the call it asks for.
\* Mutant: behind it.
ClearingStepLate == "opening"
ClearingStep     == "pair"
Cleared == wantPair' = (wantPair /\ lapStep # ClearingStep)

PairLap ==
  \/ /\ Goes("pair", IF wantPair THEN "begin" ELSE "unpair")
     /\ Cleared
     /\ UNCHANGED <<host, wantUnpair, asking, exiting, traffic, spent, slow, pairing>>
  \/ /\ Goes("begin", "opening")
     /\ asking' = FALSE
     /\ UNCHANGED <<host, wantPair, wantUnpair, exiting, traffic, spent, slow, pairing>>

\* apad_server_begin_pairing: a new secret, or no entropy and nothing changes.
Opens ==
  window' \in {window} \cup {w \in {[open |-> TRUE, generation |-> window.generation + 1]} :
                               window.generation < MaxGeneration}
OpenLap ==
  /\ Goes("opening", "unpair")
  /\ Opens
  /\ Cleared
  /\ UNCHANGED <<host, wantUnpair, asking, exiting, traffic, spent, slow, shown>>

\* SIGUSR2
UnpairLap ==
  /\ Goes("unpair", "show")
  /\ wantUnpair' = FALSE
  /\ window' = [window EXCEPT !.open = @ /\ ~wantUnpair]
  /\ UNCHANGED <<host, wantPair, asking, exiting, traffic, spent, slow, shown>>

\* poll_pairing_display: every lap, because a secret may have been rotated by
\* a datagram or asked for by the web page.
\* Mutant: only the first secret is printed.
DisplaysFirst == window.open /\ shown = 0
Displays      == window.open /\ window.generation # shown
ShowLap ==
  /\ Goes("show", "datagram")
  /\ shown' = IF Displays THEN window.generation ELSE shown
  /\ UNCHANGED <<window, requests, traffic, spent, slow>>

\* apad_server_on_datagram: a session that still exists is heard; a failed
\* guess may rotate the secret.
Rotated == {w \in {[window EXCEPT !.generation = @ + 1]} :
              window.open /\ window.generation < MaxGeneration}
DatagramLap ==
  /\ Goes("datagram", "web")
  /\ silence' = [c \in Clients |-> IF c = received /\ c \in alive THEN 0 ELSE silence[c]]
  /\ window' \in {window} \cup Rotated
  /\ received' = Nobody
  /\ UNCHANGED <<queue, alive, spent, slow, requests, shown>>

-----------------------------------------------------------------------------
(* webui_poll: one connection, served to its end *)

AfterWeb == IF host = "windows" THEN "tray" ELSE "recv"

WebIdle ==
  /\ Goes("web", AfterWeb)
  /\ UNCHANGED <<traffic, spent, slow, requests, pairing>>

WebAccepts ==
  /\ Goes("web", "read")
  /\ spent' = 0
  /\ UNCHANGED <<traffic, slow, requests, pairing>>

\* The clock is looked at before each recv(), which itself waits no longer
\* than its own timeout.
\* Mutant: only the single recv() is bounded.
OverdueNever == FALSE
Overdue      == spent > RequestDeadline

\* A unit passes inside one recv(): a connection that trickles goes on, one
\* that has sent nothing for the whole timeout is answered with 400.
Trickles ==
  /\ lapStep = "read" /\ ~Overdue
  /\ spent = 0 => slow < SlowInARow
  /\ slow' = IF spent = 0 THEN slow + 1 ELSE slow
  /\ spent' = IF spent < IdleTimeout THEN spent + 1 ELSE spent
  /\ Elapse
  /\ UNCHANGED <<lapStep, requests, pairing>>

\* The second half of a recv() that started before the deadline.
LastRead ==
  /\ lapStep = "read" /\ spent = RequestDeadline + 1
  /\ spent' = 0
  /\ lapStep' = AfterWeb
  /\ Elapse
  /\ UNCHANGED <<slow, requests, pairing>>

\* 400, 408, or the request is dispatched: it may open or cancel pairing.
\* The answer fits the socket's buffer: sending it does not wait.
WebAnswers ==
  /\ Goes("read", AfterWeb)
  /\ \/ UNCHANGED window
     \/ ~Overdue /\ Opens
     \/ ~Overdue /\ window' = [window EXCEPT !.open = FALSE]
  /\ spent' = 0
  /\ UNCHANGED <<requests, traffic, slow, shown>>

-----------------------------------------------------------------------------
(* tray_pump, Windows only *)

TrayIdle ==
  /\ Goes("tray", "recv")
  /\ UNCHANGED <<traffic, spent, slow, requests, pairing>>

\* A right click: TrackPopupMenu runs its own message loop until the menu is
\* closed.
MenuOpens ==
  /\ Goes("tray", "menu") /\ slow < SlowInARow
  /\ spent' = 0
  /\ slow' = slow + 1
  /\ UNCHANGED <<traffic, requests, pairing>>

MenuStaysOpen ==
  /\ lapStep = "menu" /\ spent < MenuUnits
  /\ spent' = spent + 1
  /\ Elapse
  /\ UNCHANGED <<lapStep, slow, requests, pairing>>

\* The command is dispatched by the pump that opened the menu.
MenuCloses ==
  /\ Goes("menu", "tray")
  /\ \/ UNCHANGED <<window, exiting>>
     \/ Opens /\ UNCHANGED exiting
     \/ window' = [window EXCEPT !.open = FALSE] /\ UNCHANGED exiting
     \/ exiting' = TRUE /\ UNCHANGED window
  /\ spent' = 0
  /\ UNCHANGED <<host, wantPair, wantUnpair, asking, traffic, slow, shown>>

-----------------------------------------------------------------------------
(* Signals and the console handler arrive between any two steps. *)

SignalPair ==
  /\ host = "linux" /\ lapStep # "over"
  /\ wantPair' = TRUE /\ asking' = TRUE
  /\ UNCHANGED <<host, lapStep, wantUnpair, exiting, traffic, spent, slow, pairing>>

SignalUnpair ==
  /\ host = "linux" /\ lapStep # "over"
  /\ wantUnpair' = TRUE
  /\ UNCHANGED <<host, lapStep, wantPair, asking, exiting, traffic, spent, slow, pairing>>

SignalExit ==
  /\ lapStep # "over"
  /\ exiting' = TRUE
  /\ UNCHANGED <<host, lapStep, wantPair, wantUnpair, asking, traffic, spent, slow, pairing>>

\* The loop is left at its top; sessions are torn down with the server.
Over ==
  /\ Goes("recv", "over") /\ exiting
  /\ alive' = {} /\ queue' = << >>
  /\ UNCHANGED <<received, silence, spent, slow, requests, pairing>>

-----------------------------------------------------------------------------
HostLoopInit ==
  /\ host \in Hosts
  /\ lapStep = "recv"
  /\ queue = << >> /\ received = Nobody
  /\ silence = [c \in Clients |-> 0]
  /\ alive = Clients
  /\ spent = 0 /\ slow = 0
  /\ wantPair = FALSE /\ wantUnpair = FALSE /\ asking = FALSE /\ exiting = FALSE
  /\ window = [open |-> FALSE, generation |-> 0]
  /\ shown = 0

HostLoopNext ==
  \/ Recv \/ TickLap \/ PairLap \/ OpenLap \/ UnpairLap \/ ShowLap \/ DatagramLap
  \/ WebIdle \/ WebAccepts \/ Trickles \/ LastRead \/ WebAnswers
  \/ TrayIdle \/ MenuOpens \/ MenuStaysOpen \/ MenuCloses
  \/ SignalPair \/ SignalUnpair \/ SignalExit \/ Over

HostLoopSpec == HostLoopInit /\ [][HostLoopNext]_loopVars

-----------------------------------------------------------------------------
(* Properties *)

\* A client that keeps sending keeps its session: whatever the loop waits for,
\* it is back before the 3000 ms are over, although the tick runs ahead of the
\* datagrams that queued up meanwhile (webui.h UI_REQUEST_DEADLINE_MS; for the
\* tray, windows/main.c "never blocks").
KeptAlive == lapStep # "over" => alive = Clients

\* A SIGUSR1 is never lost, also not one that arrives while an earlier one is
\* being served (linux/main.c: "The flag is cleared before the call").
PairRequestKept == asking => wantPair \/ lapStep = "begin"

\* A headless operator has been shown the secret clients are asked for before
\* the next datagram is handled, whoever asked for it and whatever rotated it
\* (poll_pairing_display).
SecretOnScreen == lapStep = "datagram" /\ host = "linux" /\ window.open => shown = window.generation

\* Nothing an operator asks of a host without a screen of its own is lost, and
\* the answer is on the terminal in time.
OperatorIsServed == PairRequestKept /\ SecretOnScreen
=============================================================================
