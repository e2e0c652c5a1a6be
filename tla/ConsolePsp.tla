----------------------------- MODULE ConsolePsp -------------------------------
(***************************************************************************)
(* The PSP client (clients/psp/source): its frame loop and four screens, the *)
(* thread that brings the radio up, and the callbacks that say the console   *)
(* sleeps and wakes.  The frame loop looks at what the other two left behind *)
(* once a frame, and at the radio itself on some paths only.                 *)
(*                                                                         *)
(* A frame that finds a power event is two steps here, the event's handling  *)
(* and the update after it.  Frames are not counted: the boot window may be  *)
(* open in any, the disconnect chord has been held long enough in any, and   *)
(* the wait for RESUME_COMPLETE may be given up in any.                      *)
(***************************************************************************)
EXTENDS Console

VARIABLES
  radio,   \* g_st, g_thread_busy and g_stack_inited; up: the association
  power    \* the callbacks' counters against what was seen of them

pspVars == <<consoleVars, radio, power>>

PspKeys == {"NONE", "HELD", "CHORD", "SELECT", "CROSS", "CIRCLE", "START", "SHOULDER"}

RadioDown ==
  [busy |-> FALSE, ready |-> FALSE, failed |-> FALSE, joinfail |-> FALSE,
   inited |-> FALSE, up |-> FALSE, slot |-> NoNetwork]

-----------------------------------------------------------------------------
(* net_psp.c *)

CannotStart(r) == r.busy \/ r.ready

\* apad_psp_net_start; the thread may not be created.
StartOutcomes(r, slot) ==
  IF CannotStart(r) THEN {r}
  ELSE LET fresh == [r EXCEPT !.slot = slot, !.failed = FALSE, !.joinfail = FALSE]
       IN  {[fresh EXCEPT !.busy = TRUE], [fresh EXCEPT !.failed = TRUE]}

\* apad_psp_net_restart: a bring-up that does not stop in time is left alone.
TornDown(r) ==
  [r EXCEPT !.busy = FALSE, !.ready = FALSE, !.failed = FALSE, !.joinfail = FALSE,
            !.inited = FALSE, !.up = FALSE]
RestartOutcomes(r) ==
  (IF r.busy THEN {r} ELSE {}) \cup StartOutcomes(TornDown(r), r.slot)

NetFails(how) == radio' = [radio EXCEPT !.busy = FALSE, !.failed = TRUE, !.joinfail = (how = "JOIN")]

\* net_run: the stack, then the join, which may fail, time out or end.
NetRun ==
  /\ radio.busy
  /\ \/ ~radio.inited /\ NetFails("STACK")
     \/ ~radio.inited /\ radio' = [radio EXCEPT !.inited = TRUE]
     \/ radio.inited /\ NetFails("JOIN")
     \/ radio.inited /\ NetFails("STATE")
     \/ radio.inited /\ radio' = [radio EXCEPT !.busy = FALSE, !.ready = TRUE, !.up = TRUE]
  /\ worked' = IF radio'.ready THEN worked \cup {radio.slot} ELSE worked
  /\ UNCHANGED <<app, engine, record, left, power>>

\* The access point goes away.
LinkDrops ==
  /\ radio.up
  /\ radio' = [radio EXCEPT !.up = FALSE]
  /\ UNCHANGED <<consoleVars, power>>

-----------------------------------------------------------------------------
(* config_psp.c: the connection and the server are saved apart, and a record  *)
(* with neither reads as no file.  A write is taken to succeed.               *)

Loaded(field, slot) == record = [server |-> field, network |-> slot]
SlotSaved == [record EXCEPT !.network = radio.slot]
ServerSaved(a) == IF a.connected THEN record ELSE [record EXCEPT !.server = a.field]

-----------------------------------------------------------------------------
(* screen_connect.c *)

NetGet(a) == [a EXCEPT !.net_ready = radio.ready]

\* begin_rejoin
RejoinFrom(a, r) ==
  /\ radio' \in StartOutcomes(r, r.slot)
  /\ app' = [a EXCEPT !.sub = "NETWAIT", !.attempt = 0, !.rejoining = TRUE]

\* connect_enter: where to begin follows the radio itself.
EnterConnect(a, r, e) ==
  LET b == [a EXCEPT !.screen = "CONNECT", !.armed = FALSE, !.connected = FALSE,
                     !.have_secret = FALSE, !.confirm = FALSE, !.pin = FALSE,
                     !.attempt = 0, !.rejoining = FALSE, !.return = "CONNECT"]
  IN  /\ engine' = IF a.have_secret THEN WithoutSecret(e) ELSE e
      /\ \/ r.up /\ app' = [b EXCEPT !.sub = "IDLE"] /\ radio' = r
         \/ ~r.up /\ b.net_ready /\ RejoinFrom(b, r)
         \/ ~r.up /\ ~b.net_ready /\ app' = [b EXCEPT !.sub = "NETWAIT"] /\ radio' = r

\* The main loop, when an update handler names another screen.
Shows(a, screen) ==
  IF screen = "CONNECT" THEN EnterConnect(a, radio, engine)
  ELSE /\ app' = [a EXCEPT !.screen = screen, !.armed = FALSE,
                           !.sub = IF screen = "SELFTEST" THEN "ARM" ELSE "IDLE",
                           !.pin = FALSE, !.attempt = 0, !.rejoining = FALSE]
       /\ UNCHANGED <<radio, engine>>

Stays(a) == app' = a /\ UNCHANGED <<radio, engine>>

\* field_type on the address; what was typed for another server is forgotten.
FieldType(a) ==
  /\ \E field \in Addresses : app' = [a EXCEPT !.field = field, !.have_secret = FALSE]
  /\ engine' = IF a.have_secret THEN WithoutSecret(engine) ELSE engine

\* field_type on the PIN, then whether anything is left of it.
PinType(a) == \E typed \in BOOLEAN : Stays([a EXCEPT !.pin = typed])

\* do_connect's first half: no address, or a server that wants a PIN first.
NothingToDial(a) == a.field = NoAddress
AsksForPin(a, answer) == a.attempt = 0 /\ answer = "PAIRED" /\ ~a.have_secret /\ engine.exists

\* do_connect's second half; without an engine every call is refused.
Returned(a, rc) ==
  LET b == [Disarmed(a) EXCEPT !.attempt = 0]
  IN  CASE rc = "STATE" /\ a.attempt < 2 ->
             Stays([Disarmed(a) EXCEPT !.attempt = @ + 1, !.sub = "CONNECT_ARM"])
        [] rc = "OK" -> Shows(b, "SESSION")
        [] rc = "AUTH" ->
             /\ app' = [b EXCEPT !.sub = "PIN", !.pin = FALSE, !.have_secret = FALSE]
             /\ engine' = WithoutSecret(engine)
             /\ UNCHANGED radio
        [] OTHER ->
             IF radio.up THEN Stays([b EXCEPT !.sub = "IDLE"])
             ELSE RejoinFrom(b, radio) /\ UNCHANGED engine

DoConnect(a) ==
  IF NothingToDial(a) THEN Stays(a)
  ELSE \E answer \in ProbeAnswers :
         IF AsksForPin(a, answer) THEN Stays([a EXCEPT !.pin = FALSE, !.sub = "PIN"])
         ELSE \E rc \in IF engine.exists THEN ConnectReturns ELSE {"OTHER"} : Returned(a, rc)

\* The frame that finds the radio ready makes the engine, if it can.
NetwaitReady(a) ==
  /\ record' = SlotSaved
  /\ \/ /\ ~engine.exists
        /\ Shows(a, "FATAL")
     \/ /\ engine' = IF engine.exists THEN engine ELSE NewEngine
        /\ UNCHANGED radio
        /\ app' = IF a.want_reconnect /\ a.field # NoAddress
                  THEN [a EXCEPT !.want_reconnect = FALSE, !.attempt = 0, !.sub = "CONNECT_ARM",
                                 !.rejoining = FALSE]
                  ELSE [a EXCEPT !.sub = "IDLE", !.rejoining = FALSE]

TypesPin(a, key) ==
  CASE key = "CROSS" -> PinType(a)
    [] key = "CIRCLE" -> IF a.pin THEN PinType(a) ELSE Stays([a EXCEPT !.sub = "IDLE"])
    [] key = "START" /\ a.pin ->
         /\ app' = [a EXCEPT !.pin = FALSE, !.have_secret = TRUE, !.sub = "CONNECT_ARM"]
         /\ engine' = [engine EXCEPT !.secret = {a.field}]
         /\ UNCHANGED radio
    [] OTHER -> Stays(a)

EditsAddress(a, key) ==
  CASE key \in {"CROSS", "CIRCLE"} -> FieldType(a) /\ UNCHANGED radio
    [] key = "START" -> Stays([a EXCEPT !.sub = "CONNECT_ARM"])
    [] OTHER -> Stays(a)

PicksSlot(a, key) ==
  /\ app' = a /\ UNCHANGED engine
  /\ IF key \in {"SHOULDER", "CROSS"}
     THEN \E slot \in Networks : radio' \in StartOutcomes(radio, slot)
     ELSE UNCHANGED radio

\* connect_update
ConnectUpdate(a, key) ==
  LET b == NetGet(a)
  IN  IF key \in {"CHORD", "SELECT"}
      THEN Shows([a EXCEPT !.return = "CONNECT"], "SELFTEST") /\ UNCHANGED record
      ELSE CASE radio.failed /\ ~radio.joinfail -> Shows(b, "FATAL") /\ UNCHANGED record
             [] radio.failed /\ radio.joinfail /\ b.sub = "NETWAIT" -> PicksSlot(b, key) /\ UNCHANGED record
             [] OTHER ->
                  CASE b.sub = "NETWAIT" /\ b.net_ready -> NetwaitReady(b)
                    [] b.sub = "NETWAIT" /\ ~b.net_ready -> Stays(b) /\ UNCHANGED record
                    [] b.sub = "CONNECT_ARM" -> Stays([b EXCEPT !.sub = "CONNECT"]) /\ UNCHANGED record
                    [] b.sub = "CONNECT" -> DoConnect(b) /\ UNCHANGED record
                    [] b.sub = "PIN" -> TypesPin(b, key) /\ UNCHANGED record
                    [] OTHER -> EditsAddress(b, key) /\ UNCHANGED record
-----------------------------------------------------------------------------
(* screen_session.c, screen_selftest.c, screen_fatal.c *)

\* session_update: one pump, then the disconnect the user confirms.
PumpsActive(a) == [a EXCEPT !.connected = TRUE]
SessionLive(a, key) ==
  LET b == PumpsActive(a)
  IN  /\ record' = ServerSaved(a)
      /\ IF a.confirm /\ key = "CROSS" THEN Shows(b, "CONNECT")
         ELSE \E confirm \in BOOLEAN :
                /\ a.confirm => confirm = (key # "CIRCLE")
                /\ ~a.confirm /\ confirm => key = "HELD"
                /\ Stays([b EXCEPT !.confirm = confirm])
SessionUpdate(a, key) ==
  \/ SessionLive(a, key) /\ worked' = worked \cup {a.field}
  \/ Shows(a, "CONNECT") /\ UNCHANGED <<record, worked>>

\* selftest_update: one frame to say so, one that takes a second, the result.
SelftestUpdate(a, key) ==
  CASE a.sub = "ARM" -> Stays([a EXCEPT !.sub = "RUN"])
    [] a.sub = "RUN" -> Stays(Disarmed([a EXCEPT !.sub = "DONE"]))
    [] OTHER -> IF Pressed(key) THEN Shows(a, a.return) ELSE Stays(a)

FatalUpdate(a, key) ==
  IF key = "SELECT" THEN Shows([a EXCEPT !.return = "FATAL"], "SELFTEST") ELSE Stays(a)

-----------------------------------------------------------------------------
(* power_psp.c and main.c *)

\* power_cb: the console goes to sleep, and comes back; its radio is lost.
PowerCallback ==
  \/ /\ ~power.asleep
     /\ power' = [power EXCEPT !.pending = @ \cup {"SUSPENDING"}, !.asleep = TRUE]
     /\ UNCHANGED <<consoleVars, radio>>
  \/ /\ power.asleep
     /\ \E said \in SUBSET {"RESUMING", "RESUME_COMPLETE"} :
          power' = [power EXCEPT !.pending = @ \cup said, !.asleep = FALSE]
     /\ radio' = [radio EXCEPT !.up = FALSE]
     /\ UNCHANGED consoleVars

\* power_apply, and the connect screen entered anew.
PowerApply(resumed) ==
  LET gone == [app EXCEPT !.want_reconnect = @ \/ app.connected, !.connected = FALSE,
                          !.have_secret = FALSE, !.pin = FALSE]
      Then(r) ==
        LET b == IF resumed THEN [gone EXCEPT !.net_ready = r.ready] ELSE gone
        IN  IF app.screen \in {"SELFTEST", "FATAL"}
            THEN app' = b /\ radio' = r /\ engine' = NoEngine
            ELSE EnterConnect(b, r, NoEngine)
  IN  \E r \in IF resumed THEN RestartOutcomes(radio) ELSE {radio} : Then(r)

\* apad_psp_power_poll, at the head of a frame.
PowerPoll ==
  /\ power.pending # {} \/ power.awaiting
  /\ LET heard == power.pending \cap {"SUSPENDING", "RESUMING"} # {}
         complete == "RESUME_COMPLETE" \in power.pending
     IN  \E gives_up \in BOOLEAN :
           /\ gives_up => ~complete /\ (power.awaiting \/ heard)
           /\ power' = [power EXCEPT !.pending = {},
                                     !.awaiting = (@ \/ heard) /\ ~complete /\ ~gives_up]
           /\ IF complete \/ gives_up \/ "SUSPENDING" \in power.pending
              THEN PowerApply(complete \/ gives_up)
              ELSE UNCHANGED <<app, engine, radio>>
  /\ UNCHANGED <<record, worked, left>>

\* One frame of main's loop.
PspFrame ==
  /\ power.pending = {}
  /\ \E key \in PspKeys :
       LET a == Sampled(app, key)
       IN  /\ Counts(a, key) \/ key = "CHORD"
           /\ CASE a.screen = "CONNECT" -> ConnectUpdate(a, key) /\ UNCHANGED worked
                [] a.screen = "SESSION" -> SessionUpdate(a, key)
                [] a.screen = "SELFTEST" -> SelftestUpdate(a, key) /\ UNCHANGED <<record, worked>>
                [] OTHER -> FatalUpdate(a, key) /\ UNCHANGED <<record, worked>>
           /\ left' = \/ a.screen = "SESSION" /\ a.confirm /\ key = "CROSS" /\ ~a.want_reconnect
                      \/ left /\ ~Pressed(key)
  /\ UNCHANGED power

\* main: the file, the modules and the first bring-up, then the connect screen.
PspInit ==
  /\ \E field \in Addresses, saved \in Networks \cup {NoNetwork}, slot \in Networks :
       /\ saved # NoNetwork => slot = saved
       /\ app = [screen |-> "CONNECT", sub |-> "NETWAIT", armed |-> TRUE, field |-> field,
                 have_secret |-> FALSE, pin |-> FALSE, connected |-> FALSE, want_reconnect |-> FALSE,
                 attempt |-> 0, confirm |-> FALSE, return |-> "CONNECT",
                 rejoining |-> FALSE, net_ready |-> FALSE]
       /\ Loaded(field, saved)
       /\ worked = {field, saved}
       /\ radio \in {[RadioDown EXCEPT !.failed = TRUE]} \cup StartOutcomes(RadioDown, slot)
  /\ engine = NoEngine
  /\ power = [pending |-> {}, asleep |-> FALSE, awaiting |-> FALSE]
  /\ left = FALSE

PspNext == NetRun \/ LinkDrops \/ PowerCallback \/ PowerPoll \/ PspFrame

PspSpec == PspInit /\ [][PspNext]_pspVars

-----------------------------------------------------------------------------
(* What the comments say of the connect screen.                              *)

\* main.c:536: the engine is made on the first frame that finds the radio
\* ready, so an idle connect screen over a live radio can connect.
EngineExists ==
  app.screen = "CONNECT" /\ app.sub = "IDLE" /\ radio.up /\ power.pending = {} /\ ~power.awaiting
    => engine.exists

\* screen_connect.c:117: a screen that says it is rejoining has the radio
\* being brought back up, or an answer from it.
RejoinReallyRejoins ==
  app.rejoining => radio.busy \/ radio.failed \/ radio.up
=============================================================================
