----------------------------- MODULE Console3ds -------------------------------
(***************************************************************************)
(* The 3DS client (clients/3ds/source): its frame loop, its screens, and the *)
(* hooks the system calls when the program is suspended, restored or ended.  *)
(* The camera is on or off here; Camera3ds is what happens while it is on.   *)
(*                                                                         *)
(* A countdown may end in any frame, and so may the boot window and the      *)
(* pause after a scan.  The tabs of the session's screen, which choose what   *)
(* is sent and change no other state, are left out.                          *)
(***************************************************************************)
EXTENDS Console

VARIABLES
  held3ds,    \* what the program holds of the console: camera, decoder, gyroscope
  unwatched   \* history: nobody has pressed anything since the start or the session

vars3ds == <<consoleVars, held3ds, unwatched>>

Touches3ds == {"TYPE", "DISCONNECT", "SELFTEST"}
Keys3ds == Touches3ds \cup {"NONE", "HELD", "CHORD", "SELECT", "A", "B", "X", "Y"}

-----------------------------------------------------------------------------
(* main.c: moving between screens                                           *)

\* connect_enter
ConnectEntered3ds(a) ==
  CASE a.want_connect -> [a EXCEPT !.want_connect = FALSE, !.boot = FALSE, !.discover = FALSE,
                                   !.countdown = FALSE, !.sub = "CONNECT_ARM"]
    [] ~a.want_connect /\ a.boot -> [a EXCEPT !.sub = "BOOT"]
    [] ~a.want_connect /\ ~a.boot /\ a.discover -> [a EXCEPT !.sub = "DISCOVER_ARM"]
    [] ~a.want_connect /\ ~a.boot /\ ~a.discover /\ a.countdown -> [a EXCEPT !.sub = "COUNTDOWN"]
    [] OTHER -> [a EXCEPT !.sub = "IDLE"]

FirstSub == [SESSION |-> "LIVE", QRSCAN |-> "QR_ARM", SELFTEST |-> "ARM", FATAL |-> "IDLE"]

Entered3ds(a, screen) ==
  LET b == [a EXCEPT !.screen = screen, !.armed = FALSE, !.auto = FALSE]
  IN  IF screen = "CONNECT" THEN ConnectEntered3ds(b) ELSE [b EXCEPT !.sub = FirstSub[screen]]

Becomes3ds(a) == app' = a /\ UNCHANGED <<engine, record, worked, held3ds>>
Over(a) == [a EXCEPT !.screen = "OVER", !.armed = FALSE]

\* What main lets go of after its loop.
Leaves3ds(a) ==
  /\ app' = [Over(a) EXCEPT !.have_secret = FALSE]
  /\ held3ds' = [held3ds EXCEPT !.camera = FALSE, !.gyro = FALSE]
  /\ engine' = NoEngine
  /\ UNCHANGED <<record, worked>>

-----------------------------------------------------------------------------
(* screen_connect.c                                                         *)

\* field_type
FieldTypeKeeps3ds(a) ==
  /\ \E field \in Addresses : app' = [a EXCEPT !.field = field, !.found = FALSE]
  /\ UNCHANGED <<engine, record, worked, held3ds>>
FieldType3ds(a) ==
  /\ \E field \in Addresses : app' = [a EXCEPT !.field = field, !.found = FALSE, !.have_secret = FALSE]
  /\ engine' = IF a.have_secret THEN WithoutSecret(engine) ELSE engine
  /\ UNCHANGED <<record, worked, held3ds>>

\* handle_ui: what a press does to an idle screen, or to one counting down.
HandleUi3ds(a, key) ==
  LET b == [a EXCEPT !.countdown = FALSE, !.sub = "IDLE"]
  IN  CASE key = "SELECT" -> Becomes3ds(Entered3ds([b EXCEPT !.return = "CONNECT"], "SELFTEST"))
        [] key = "B" -> Leaves3ds(b)
        [] key = "A" -> Becomes3ds([b EXCEPT !.auto = FALSE, !.sub = "CONNECT_ARM"])
        [] key = "X" -> Becomes3ds(Entered3ds(b, "QRSCAN"))
        [] key = "TYPE" -> FieldType3ds(b)
        [] OTHER -> Becomes3ds(b)   \* a touch beside the fields

Acts3ds(key) == key \in Touches3ds \cup {"SELECT", "A", "B", "X"}

\* CS_BOOT: the self-test, the user, or the end of the window.
BootUpdate3ds(a, key) ==
  LET b == [a EXCEPT !.boot = FALSE]
  IN  CASE key \in {"CHORD", "SELECT"} ->
             Becomes3ds(Entered3ds([b EXCEPT !.return = "CONNECT"], "SELFTEST"))
        [] key \in Touches3ds \cup {"A", "B"} -> Becomes3ds([b EXCEPT !.discover = FALSE, !.sub = "IDLE"])
        [] OTHER ->
             \/ Becomes3ds(a)
             \/ Becomes3ds([b EXCEPT !.sub = IF a.discover THEN "DISCOVER_ARM" ELSE "IDLE"])

\* app_discover and its three outcomes.
Discover3ds(a) ==
  LET b == [Disarmed(a) EXCEPT !.discover = FALSE]
  IN  \/ \E server \in ServerAddresses :
           Becomes3ds([b EXCEPT !.field = server, !.found = TRUE, !.countdown = TRUE, !.sub = "COUNTDOWN"])
      \/ Becomes3ds([b EXCEPT !.countdown = TRUE, !.sub = "COUNTDOWN"])
      \/ a.field = NoAddress /\ Becomes3ds([b EXCEPT !.sub = "IDLE"])

\* do_connect
NeedsKey(a, answer) == ~a.found /\ answer = "PAIRED" /\ ~a.have_secret
DoConnect3ds(a) ==
  LET b == [Disarmed(a) EXCEPT !.sub = "IDLE"]
      Abandons(refused) == Becomes3ds([b EXCEPT !.auto = FALSE, !.refused = refused])
  IN  IF a.field = NoAddress THEN Abandons(FALSE)
      ELSE \E answer \in ProbeAnswers, rc \in ConnectReturns :
             CASE NeedsKey(a, answer) -> Abandons(TRUE)
               [] ~NeedsKey(a, answer) /\ rc = "OK" ->
                    Becomes3ds(Entered3ds([b EXCEPT !.refused = FALSE], "SESSION"))
               [] ~NeedsKey(a, answer) /\ rc = "AUTH" -> Abandons(TRUE)
               [] OTHER ->
                    Becomes3ds(IF a.auto THEN [b EXCEPT !.countdown = TRUE, !.sub = "COUNTDOWN"] ELSE b)

\* connect_update
ConnectUpdate3ds(a, key) ==
  CASE a.sub = "BOOT" -> BootUpdate3ds(a, key)
    [] a.sub = "DISCOVER_ARM" -> Becomes3ds([a EXCEPT !.sub = "DISCOVER"])
    [] a.sub = "DISCOVER" -> Discover3ds(a)
    [] a.sub = "COUNTDOWN" ->
         IF Acts3ds(key) THEN HandleUi3ds(a, key)
         ELSE \/ Becomes3ds(a)
              \/ Becomes3ds([a EXCEPT !.countdown = FALSE, !.auto = TRUE, !.sub = "CONNECT_ARM"])
    [] a.sub = "CONNECT_ARM" -> Becomes3ds([a EXCEPT !.sub = "CONNECT"])
    [] a.sub = "CONNECT" -> DoConnect3ds(a)
    [] OTHER -> IF Acts3ds(key) THEN HandleUi3ds(a, key) ELSE Becomes3ds(a)

-----------------------------------------------------------------------------
(* screen_qrscan.c                                                          *)

Holding(a, camera, decoder) ==
  /\ app' = a
  /\ held3ds' = [held3ds EXCEPT !.camera = camera, !.decoder = decoder]
  /\ UNCHANGED <<engine, record, worked>>

\* leave
LeaveScan(a, screen) == Holding(Entered3ds(a, screen), FALSE, FALSE)

\* QR_ARM: the decoder, then the camera, either of which may be refused.
ArmScan(a) ==
  \/ Holding([Disarmed(a) EXCEPT !.sub = "QR_FAILED"], held3ds.camera, FALSE)
  \/ Holding([Disarmed(a) EXCEPT !.sub = "QR_SCAN"], TRUE, TRUE)

\* accept_uri: an address, and its secret if it has one the library takes.
AcceptUri(a, server, paired) ==
  /\ app' = [Disarmed(a) EXCEPT !.sub = "QR_FOUND", !.field = server, !.found = FALSE,
                                !.have_secret = paired, !.want_connect = TRUE]
  /\ engine' = [engine EXCEPT !.secret = IF paired THEN {server} ELSE NoSecret]
  /\ held3ds' = [held3ds EXCEPT !.camera = FALSE, !.decoder = FALSE]
  /\ UNCHANGED <<record, worked>>

ScanUpdate(a, key) ==
  IF ~held3ds.camera THEN Becomes3ds([a EXCEPT !.sub = "QR_ARM"])
  ELSE CASE key = "B" -> LeaveScan(a, "CONNECT")
         [] key = "SELECT" -> LeaveScan([a EXCEPT !.return = "CONNECT"], "SELFTEST")
         [] key = "Y" -> \E on \in BOOLEAN : Holding(Disarmed(a), on, held3ds.decoder)
         [] OTHER -> \/ Becomes3ds(a)
                     \/ \E server \in ServerAddresses, paired \in BOOLEAN : AcceptUri(a, server, paired)

\* qrscan_update
QrscanUpdate(a, key) ==
  CASE a.sub = "QR_ARM" -> ArmScan(a)
    [] a.sub = "QR_SCAN" -> ScanUpdate(a, key)
    [] a.sub = "QR_FOUND" ->
         \/ Becomes3ds(Entered3ds(a, "CONNECT"))
         \/ ~Pressed(key) /\ Becomes3ds(a)
    [] OTHER -> IF key \in Touches3ds \cup {"A", "B"} THEN LeaveScan(a, "CONNECT") ELSE Becomes3ds(a)

-----------------------------------------------------------------------------
(* screen_session.c, screen_selftest.c, screen_fatal.c                       *)

LeaveToConnect(a, voluntary) == Becomes3ds(Entered3ds(LeftBy(a, voluntary), "CONNECT"))

\* apad3ds_config_load
Loaded3ds(field) == record = [server |-> field, network |-> NoNetwork]

\* apad3ds_config_save: written, not written, or lost to two failed renames.
ConfigSaved(a) == {[record EXCEPT !.server = s] : s \in {a.field, record.server, NoAddress}}

\* session_update: what the user confirmed, or one pump.
SessionUpdate3ds(a, key) ==
  CASE Confirmed(a, key, "CONFIRM_SELFTEST") ->
         Becomes3ds(Entered3ds([a EXCEPT !.connected = FALSE, !.countdown = TRUE, !.return = "CONNECT"],
                               "SELFTEST"))
    [] Confirmed(a, key, "CONFIRM_DISCONNECT") -> LeaveToConnect(a, TRUE)
    [] OTHER ->
         \/ LeaveToConnect(a, FALSE)
         \/ /\ app' = [a EXCEPT !.connected = TRUE, !.sub = SubAfter(a, key)]
            /\ IF a.connected THEN UNCHANGED record ELSE record' \in ConfigSaved(a)
            /\ worked' = worked \cup {a.field}
            /\ UNCHANGED <<engine, held3ds>>

\* selftest_update
SelftestUpdate3ds(a, key) ==
  CASE a.sub = "ARM" -> Becomes3ds([a EXCEPT !.sub = "RUN"])
    [] a.sub = "RUN" -> Becomes3ds(Disarmed([a EXCEPT !.sub = "DONE"]))
    [] OTHER -> Becomes3ds(IF Pressed(key) THEN Entered3ds(a, a.return) ELSE a)

\* fatal_update
FatalUpdate3ds(a, key) ==
  CASE key = "SELECT" -> Becomes3ds(Entered3ds([a EXCEPT !.return = "FATAL"], "SELFTEST"))
    [] key \in Touches3ds \cup {"B"} -> Leaves3ds(a)
    [] OTHER -> Becomes3ds(a)

-----------------------------------------------------------------------------
(* main.c: the hooks and the loop                                           *)

\* apt_hook_cb, called while no screen is updated.  ONSUSPEND and ONEXIT let
\* the camera and the gyroscope go, ONRESTORE asks for the gyroscope again.
Suspend ==
  /\ ~held3ds.asleep /\ app.screen # "OVER"
  /\ held3ds' = [held3ds EXCEPT !.asleep = TRUE, !.camera = FALSE, !.gyro = FALSE]
  /\ UNCHANGED <<consoleVars, unwatched>>
Restore ==
  /\ held3ds.asleep /\ app.screen # "OVER"
  /\ \E granted \in BOOLEAN :
       held3ds' = [held3ds EXCEPT !.asleep = FALSE, !.gyro = held3ds.have_gyro /\ (@ \/ granted)]
  /\ UNCHANGED <<consoleVars, unwatched>>

\* aptMainLoop says the program is to end: asleep or awake, on any screen.
AptExit ==
  /\ app.screen # "OVER"
  /\ Leaves3ds(app)
  /\ left' = FALSE /\ unwatched' = FALSE

ScreenUpdate(a, key) ==
  CASE a.screen = "CONNECT" -> ConnectUpdate3ds(a, key)
    [] a.screen = "QRSCAN" -> QrscanUpdate(a, key)
    [] a.screen = "SESSION" -> SessionUpdate3ds(a, key)
    [] a.screen = "SELFTEST" -> SelftestUpdate3ds(a, key)
    [] OTHER -> FatalUpdate3ds(a, key)

\* One frame of main's loop.
Frame3ds ==
  /\ ~held3ds.asleep /\ app.screen # "OVER"
  /\ \E key \in Keys3ds :
       LET a == Sampled(app, key)
           lost == app.screen = "SESSION" /\ app'.screen = "CONNECT"
       IN  /\ Counts(a, key) \/ key = "CHORD"
           /\ ScreenUpdate(a, key)
           /\ left' = ((left /\ ~Pressed(key)) \/ (lost /\ Confirmed(a, key, "CONFIRM_DISCONNECT")))
           /\ unwatched' = ((unwatched /\ ~Pressed(key)) \/ (lost /\ ~Confirmed(a, key, "CONFIRM_DISCONNECT")))

\* bring_up, and the screen it leaves the program on.
Init3ds ==
  /\ \E field \in Addresses, ready, gyro \in BOOLEAN :
       LET a == [screen |-> "FATAL", sub |-> "IDLE", armed |-> FALSE, auto |-> FALSE, field |-> field,
                 found |-> FALSE, have_secret |-> FALSE, want_connect |-> FALSE, boot |-> TRUE,
                 discover |-> TRUE, countdown |-> FALSE, return |-> "CONNECT", refused |-> FALSE,
                 connected |-> FALSE]
       IN  /\ app = IF ready THEN Entered3ds(a, "CONNECT") ELSE Entered3ds(a, "FATAL")
           /\ engine = IF ready THEN NewEngine ELSE NoEngine
           /\ Loaded3ds(field)
           /\ worked = {field}
           /\ held3ds = [camera |-> FALSE, decoder |-> FALSE, gyro |-> gyro, have_gyro |-> gyro,
                         asleep |-> FALSE]
  /\ left = FALSE
  /\ unwatched = TRUE

Next3ds == Suspend \/ Restore \/ AptExit \/ Frame3ds

Spec3ds == Init3ds /\ [][Next3ds]_vars3ds

-----------------------------------------------------------------------------
(* Safety.                                                                   *)

\* A client nobody is watching never settles on doing nothing: with an address
\* it has not been refused at it counts down to another attempt, whatever
\* failed, unless somebody has pressed a key since.
UnattendedKeepsTrying ==
  unwatched /\ app.screen = "CONNECT" /\ app.sub = "IDLE" => app.field = NoAddress \/ app.refused

\* The camera belongs to the scanning screen alone and the gyroscope to a
\* program that runs: neither outlives the screen, a suspension or the end,
\* on whichever path the screen is left.
NothingHeldElsewhere ==
  /\ held3ds.camera => app.screen = "QRSCAN"
  /\ held3ds.decoder => app.screen \in {"QRSCAN", "OVER"}
  /\ held3ds.asleep \/ app.screen = "OVER" => ~held3ds.camera /\ ~held3ds.gyro
=============================================================================
