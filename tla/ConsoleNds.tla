----------------------------- MODULE ConsoleNds -------------------------------
(***************************************************************************)
(* The DS and DSi client (clients/nds/source): its frame loop, the screen    *)
(* that finds a network before anything else can happen, the connect screen  *)
(* with libnds's on-screen keyboard, and the DSi's scanning screen, which    *)
(* lends the bottom screen's memory to the camera.                           *)
(*                                                                         *)
(* What the access points advertise, and what the radio's driver answers     *)
(* while it associates, is the environment's choice, as are the frames in    *)
(* which a countdown, the boot window or a search runs out.                  *)
(***************************************************************************)
EXTENDS Console

VARIABLES
  wifi,     \* wifi_nds.c: the stage, the network meant, whether it is associated
  lens      \* the camera, its decoder and the bottom screen it draws into

ndsVars == <<consoleVars, wifi, lens>>

TouchesNds == {"TOUCH", "SCAN", "DISCONNECT", "SELFTEST"}
NdsKeys == TouchesNds \cup {"NONE", "HELD", "CHORD", "SELECT", "A", "B", "X", "SWITCH", "EDIT"}

-----------------------------------------------------------------------------
(* wifi_nds.c                                                               *)

Scanning(w) == [w EXCEPT !.stage = "SCANNING", !.rejected = FALSE]
Autoconnecting(w) == [w EXCEPT !.stage = "ASSOCIATING", !.rejected = FALSE, !.target = NoNetwork]
Associating(w, network) == [w EXCEPT !.stage = "ASSOCIATING", !.rejected = FALSE, !.target = network]
Aborted(w) == [w EXCEPT !.stage = "IDLE", !.rejected = FALSE, !.target = NoNetwork, !.up = FALSE]

\* apad_nds_wifi_poll: only an association under way can change the stage.
Polled(w) ==
  IF w.stage # "ASSOCIATING" THEN {w}
  ELSE {w, [w EXCEPT !.stage = "READY", !.up = TRUE],
        [w EXCEPT !.stage = "FAILED", !.rejected = TRUE], [w EXCEPT !.stage = "FAILED"]}

WifiDrops ==
  /\ wifi.up
  /\ wifi' = [wifi EXCEPT !.up = FALSE]
  /\ UNCHANGED <<consoleVars, lens>>

-----------------------------------------------------------------------------
(* Entering a screen.                                                       *)

\* saved_usable and boot_ladder: the saved network, the console's own
\* connections, the list.
SavedUsable(w) == record.network # NoNetwork /\ w.usable
Climbs(a, w, done) ==
  CASE done < 1 /\ SavedUsable(w) -> app' = [a EXCEPT !.sub = "SAVED_ARM"] /\ wifi' = w
    [] ~(done < 1 /\ SavedUsable(w)) /\ done < 2 /\ w.wfc -> app' = [a EXCEPT !.sub = "AUTO_ARM"] /\ wifi' = w
    [] OTHER -> app' = [a EXCEPT !.sub = "LIST"] /\ wifi' = Scanning(w)

\* wifi_enter; what the screen keeps to itself is reset when it is left.
EnterWifi(a, w) ==
  LET b == [a EXCEPT !.keyboard = FALSE]
  IN  IF a.boot THEN app' = [b EXCEPT !.sub = "BOOT"] /\ wifi' = w ELSE Climbs(b, w, 0)

\* connect_enter
ConnectEnteredNds(a) ==
  CASE a.want_connect -> [a EXCEPT !.want_connect = FALSE, !.discover = FALSE, !.countdown = FALSE,
                                   !.sub = "CONNECT_ARM", !.keyboard = FALSE]
    [] ~a.want_connect /\ a.discover -> [a EXCEPT !.sub = "DISCOVER_ARM", !.keyboard = FALSE]
    [] ~a.want_connect /\ ~a.discover /\ a.countdown -> [a EXCEPT !.sub = "COUNTDOWN", !.keyboard = FALSE]
    [] OTHER -> [a EXCEPT !.sub = "IDLE", !.keyboard = TRUE]

FirstSubNds == [SESSION |-> "LIVE", QRSCAN |-> "QR_ARM", SELFTEST |-> "ARM", FATAL |-> "IDLE"]

\* The main loop, when an update handler names another screen.
BecomesNds(a, w) == app' = a /\ wifi' = w
ShowsNds(a, w, screen) ==
  LET b == [a EXCEPT !.screen = screen, !.armed = FALSE, !.auto = FALSE, !.saved_tried = FALSE,
                     !.auto_retried = FALSE, !.picker_rejoined = FALSE, !.pending = NoNetwork,
                     !.sel = NoNetwork]
  IN  CASE screen = "WIFI" -> EnterWifi(b, w)
        [] screen = "CONNECT" -> BecomesNds(ConnectEnteredNds(b), w)
        [] OTHER -> BecomesNds([b EXCEPT !.sub = FirstSubNds[screen]], w)

\* B on the connect screen or on the last one: main returns.
LeavesNds(a) == BecomesNds([a EXCEPT !.screen = "OVER", !.have_secret = FALSE, !.armed = FALSE], wifi)

-----------------------------------------------------------------------------
(* screen_wifi.c                                                            *)

\* wifi_ready, which app_client_start may fail: only now is a network saved.
WifiReady(a, w) ==
  LET saves == a.pending # NoNetwork /\ w.mounted
      b == [a EXCEPT !.ssid = IF w.target # NoNetwork THEN w.target ELSE @,
                     !.pending = NoNetwork, !.keyboard = FALSE]
      v == [w EXCEPT !.usable = @ \/ saves]
  IN  /\ record' = IF saves THEN [record EXCEPT !.network = a.pending] ELSE record
      /\ worked' = worked \cup {w.target}
      /\ \/ ShowsNds(b, v, "CONNECT") /\ engine' = (IF engine.exists THEN engine ELSE NewEngine)
         \/ ~engine.exists /\ ShowsNds(b, v, "FATAL") /\ UNCHANGED engine

\* begin_join, if it saved the network before it is known to work.
JoinSaves(a, network, w) ==
  /\ BecomesNds([a EXCEPT !.sub = "JOIN", !.pending = network, !.keyboard = FALSE], Associating(w, network))
  /\ record' = [record EXCEPT !.network = IF w.mounted THEN network ELSE @]
  /\ UNCHANGED <<engine, worked>>
\* begin_join: refused by the driver, or under way.
BeginJoin(a, network, w) ==
  /\ \/ BecomesNds([a EXCEPT !.sub = "LIST"], Scanning(w))
     \/ BecomesNds([a EXCEPT !.sub = "JOIN", !.pending = network, !.keyboard = FALSE], Associating(w, network))
  /\ UNCHANGED <<engine, record, worked>>

Rests == UNCHANGED <<engine, record, worked>>

\* WS_SAVED_ARM and WS_SAVED: try it, and give up when it fails, when the user
\* says so, or when it is still not to be found.
SavedUpdate(a, key, w, gives_up) ==
  CASE a.sub = "SAVED_ARM" ->
         LET b == [a EXCEPT !.saved_tried = TRUE]
         IN  /\ Rests
             /\ \/ Climbs(b, w, 1)
                \/ BecomesNds([b EXCEPT !.sub = "SAVED"], Associating(w, record.network))
    [] a.sub = "SAVED" /\ w.stage = "READY" -> WifiReady(a, w)
    [] OTHER ->
         /\ Rests
         /\ IF w.stage = "FAILED" \/ key = "B" \/ gives_up THEN Climbs(a, Aborted(w), 1) ELSE BecomesNds(a, w)

\* WS_AUTO_ARM and WS_AUTO: an outright refusal is tried once more.
AutoUpdate(a, key, w) ==
  CASE a.sub = "AUTO_ARM" -> Rests /\ BecomesNds([a EXCEPT !.sub = "AUTO"], Autoconnecting(w))
    [] a.sub = "AUTO" /\ w.stage = "READY" -> WifiReady(a, w)
    [] OTHER ->
         /\ Rests
         /\ CASE w.stage = "FAILED" /\ w.rejected /\ ~a.auto_retried ->
                   BecomesNds([a EXCEPT !.auto_retried = TRUE], Autoconnecting(w))
              [] w.stage # "FAILED" /\ key # "B" -> BecomesNds(a, w)
              [] OTHER -> Climbs(a, Aborted(w), 2)

\* WS_SCAN: a network used before is joined again by itself, once, if it is
\* open; otherwise the user picks one, and its key if it has one.
ListUpdate(a, key, w) ==
  \/ /\ ~a.saved_tried /\ ~a.picker_rejoined /\ a.ssid # NoNetwork
     /\ BeginJoin([a EXCEPT !.picker_rejoined = TRUE], a.ssid, w)
  \/ IF key \in TouchesNds
     THEN \/ \E network \in Networks : BeginJoin(a, network, w)
          \/ /\ Rests
             /\ \/ \E network \in Networks :
                     BecomesNds([a EXCEPT !.sub = "KEY", !.sel = network, !.keyboard = TRUE], w)
                \/ BecomesNds(a, Scanning(w))
     ELSE Rests /\ BecomesNds(a, w)

\* WS_KEY: a key that no such network can have is not tried.
KeyUpdate(a, key, w) ==
  CASE key = "B" -> Rests /\ BecomesNds([a EXCEPT !.sub = "LIST", !.keyboard = FALSE], w)
    [] key \in {"A", "TOUCH"} -> BeginJoin(a, a.sel, w) \/ (Rests /\ BecomesNds(a, w))
    [] OTHER -> Rests /\ BecomesNds(a, w)

\* WS_JOIN
JoinUpdate(a, w) ==
  CASE w.stage = "READY" -> WifiReady(a, w)
    [] w.stage = "FAILED" ->
         Rests /\ BecomesNds([a EXCEPT !.sub = "LIST", !.pending = NoNetwork], Scanning(Aborted(w)))
    [] OTHER -> Rests /\ BecomesNds(a, w)

\* WS_BOOT: the self-test, or the end of the window.
BootUpdateNds(a, key, w, gives_up) ==
  /\ Rests
  /\ LET b == [a EXCEPT !.boot = FALSE]
     IN  CASE key = "CHORD" -> ShowsNds([b EXCEPT !.return = "WIFI"], w, "SELFTEST")
           [] key # "CHORD" /\ (key \in TouchesNds \cup {"A", "B"} \/ gives_up) -> Climbs(b, w, 0)
           [] OTHER -> BecomesNds(a, w)

\* wifi_update
WifiUpdate(a, key) ==
  IF key = "SELECT"
  THEN Rests /\ ShowsNds([a EXCEPT !.return = "WIFI", !.boot = FALSE], wifi, "SELFTEST")
  ELSE \E w \in Polled(wifi), gives_up \in BOOLEAN :
         CASE a.sub = "BOOT" -> BootUpdateNds(a, key, w, gives_up)
           [] a.sub \in {"SAVED_ARM", "SAVED"} -> SavedUpdate(a, key, w, gives_up)
           [] a.sub \in {"AUTO_ARM", "AUTO"} -> AutoUpdate(a, key, w)
           [] a.sub = "LIST" -> ListUpdate(a, key, w)
           [] a.sub = "KEY" -> KeyUpdate(a, key, w)
           [] OTHER -> JoinUpdate(a, w)

-----------------------------------------------------------------------------
(* screen_connect.c                                                         *)

GoesTo(a, screen) == ShowsNds(a, wifi, screen) /\ Rests
StaysOn(a) == BecomesNds(a, wifi) /\ Rests
DialsBy(a) == StaysOn([a EXCEPT !.auto = FALSE, !.sub = "CONNECT_ARM", !.keyboard = FALSE])
AsksPin(a) == StaysOn([a EXCEPT !.sub = "PIN", !.keyboard = TRUE])

\* field_edited as it would be if it left the secret alone.
FieldEditedKeeps(a) ==
  /\ \E field \in Addresses : BecomesNds([a EXCEPT !.field = field, !.found = FALSE], wifi)
  /\ UNCHANGED <<engine, record, worked>>
\* field_edited: what was typed for another server is forgotten.
FieldEdited(a) ==
  /\ \E field \in Addresses :
       BecomesNds([a EXCEPT !.field = field, !.found = FALSE, !.have_secret = FALSE], wifi)
  /\ engine' = IF a.have_secret THEN WithoutSecret(engine) ELSE engine
  /\ UNCHANGED <<record, worked>>
\* handle_ui; an act ends a countdown, and brings the keyboard back if the
\* screen is idle afterwards.
Acts(a, key) ==
  \/ key \in {"SELECT", "A", "B", "X", "SWITCH", "TOUCH", "SCAN", "DISCONNECT", "SELFTEST"}
  \/ key = "EDIT" /\ a.keyboard
HandleUiNds(a, key) ==
  LET counting == a.sub = "COUNTDOWN"
      b == [a EXCEPT !.countdown = FALSE]
      idle == [b EXCEPT !.sub = "IDLE", !.keyboard = @ \/ counting]
  IN  CASE key = "SELECT" -> GoesTo([b EXCEPT !.return = "CONNECT"], "SELFTEST")
        [] key = "B" -> LeavesNds(b) /\ engine' = NoEngine /\ UNCHANGED <<record, worked>>
        [] key = "A" -> DialsBy(b)
        [] key = "X" -> AsksPin(b)
        [] key = "SCAN" -> IF wifi.dsi THEN GoesTo([b EXCEPT !.keyboard = FALSE], "QRSCAN") ELSE AsksPin(b)
        [] key = "EDIT" -> FieldEdited(idle) \/ StaysOn(idle)
        [] OTHER -> StaysOn(idle)

\* app_discover and its three outcomes.
DiscoverNds(a) ==
  LET b == [Disarmed(a) EXCEPT !.discover = FALSE]
  IN  \/ \E server \in ServerAddresses :
           StaysOn([b EXCEPT !.field = server, !.found = TRUE, !.countdown = TRUE, !.sub = "COUNTDOWN"])
      \/ StaysOn([b EXCEPT !.countdown = TRUE, !.sub = "COUNTDOWN"])
      \/ a.field = NoAddress /\ StaysOn([b EXCEPT !.sub = "IDLE", !.keyboard = TRUE])

\* do_connect: the probe, unless it can tell nothing new, and the handshake.
Dials(a, rc) ==
  CASE rc = "OK" -> GoesTo(a, "SESSION")
    [] rc = "AUTH" -> AsksPin([a EXCEPT !.auto = FALSE])
    [] rc \in {"STATE", "OTHER"} /\ a.auto ->
         StaysOn([a EXCEPT !.countdown = TRUE, !.sub = "COUNTDOWN"])
    [] OTHER -> StaysOn(a)
DoConnectNds(a) ==
  LET b == [Disarmed(a) EXCEPT !.sub = "IDLE"]
  IN  IF a.field = NoAddress THEN StaysOn([b EXCEPT !.auto = FALSE])
      ELSE IF a.found /\ a.have_secret THEN \E rc \in ConnectReturns : Dials(b, rc)
      ELSE \E answer \in ProbeAnswers :
             CASE answer = "SILENT" /\ ~wifi.up -> GoesTo(b, "WIFI")
               [] answer = "SILENT" /\ wifi.up -> \E rc \in ConnectReturns : Dials(b, rc)
               [] answer = "PAIRED" /\ ~a.have_secret -> AsksPin([b EXCEPT !.found = TRUE, !.auto = FALSE])
               [] OTHER -> \E rc \in ConnectReturns : Dials([b EXCEPT !.found = TRUE], rc)

\* do_pin_apply: the secret, then the handshake it was typed for, which the
\* same frame runs.  A PIN that fits the field fits the library.
PinApply(a) ==
  LET b == [Disarmed(a) EXCEPT !.have_secret = TRUE, !.sub = "CONNECT"]
  IN  /\ app' = b /\ wifi' = wifi
      /\ engine' = [engine EXCEPT !.secret = {a.field}]
      /\ UNCHANGED <<record, worked>>

PinUpdate(a, key) ==
  CASE key = "B" -> StaysOn([a EXCEPT !.sub = "IDLE"])
    [] key \in {"A", "TOUCH"} -> StaysOn(a) \/ StaysOn([a EXCEPT !.sub = "PIN_ARM", !.keyboard = FALSE])
    [] OTHER -> StaysOn(a)

\* connect_update
ConnectUpdateNds(a, key) ==
  CASE a.sub = "DISCOVER_ARM" -> StaysOn([a EXCEPT !.sub = "DISCOVER"])
    [] a.sub = "DISCOVER" -> DiscoverNds(a)
    [] a.sub = "COUNTDOWN" ->
         IF Acts(a, key) THEN HandleUiNds(a, key)
         ELSE \/ StaysOn(a)
              \/ StaysOn([a EXCEPT !.countdown = FALSE, !.auto = TRUE, !.sub = "CONNECT_ARM",
                                  !.keyboard = FALSE])
    [] a.sub = "CONNECT_ARM" -> StaysOn([a EXCEPT !.sub = "CONNECT"])
    [] a.sub = "CONNECT" -> DoConnectNds(a)
    [] a.sub = "PIN" -> PinUpdate(a, key)
    [] a.sub = "PIN_ARM" -> StaysOn([a EXCEPT !.sub = "PIN_APPLY"])
    [] a.sub = "PIN_APPLY" -> PinApply(a)
    [] OTHER -> IF Acts(a, key) THEN HandleUiNds(a, key) ELSE StaysOn(a)

-----------------------------------------------------------------------------
(* screen_qrscan.c and camera_nds.c: the camera writes into the memory of the *)
(* bottom screen, which is locked against drawing first and unlocked last.     *)

LensFree == [camera |-> FALSE, locked |-> FALSE, decoder |-> FALSE]

\* release_camera and the decoder's end; and without the unlocking.
LetGoLocked == lens' = [LensFree EXCEPT !.locked = lens.locked]
LetGo == lens' = LensFree

\* QR_ARM: decoder, screen, camera.
ArmScanNds(a) ==
  /\ \/ StaysOn([Disarmed(a) EXCEPT !.sub = "QR_FAILED"]) /\ LetGo
     \/ /\ StaysOn([Disarmed(a) EXCEPT !.sub = "QR_SCAN"])
        /\ lens' = [camera |-> TRUE, locked |-> TRUE, decoder |-> TRUE]

\* accept_uri
AcceptUriNds(a, server, paired) ==
  /\ BecomesNds([Disarmed(a) EXCEPT !.sub = "QR_FOUND", !.field = server, !.found = FALSE,
                                 !.have_secret = paired, !.want_connect = TRUE], wifi)
  /\ engine' = [engine EXCEPT !.secret = IF paired THEN {server} ELSE NoSecret]
  /\ UNCHANGED <<record, worked>>
  /\ LetGo

\* qrscan_update
QrscanUpdateNds(a, key) ==
  CASE a.sub = "QR_ARM" -> ArmScanNds(a)
    [] a.sub = "QR_SCAN" /\ key = "B" -> GoesTo(a, "CONNECT") /\ LetGo
    [] a.sub = "QR_SCAN" /\ key = "SELECT" -> GoesTo([a EXCEPT !.return = "CONNECT"], "SELFTEST") /\ LetGo
    [] a.sub = "QR_SCAN" /\ key \notin {"B", "SELECT"} ->
         \/ StaysOn(a) /\ UNCHANGED lens
         \/ \E server \in ServerAddresses, paired \in BOOLEAN : AcceptUriNds(a, server, paired)
    [] a.sub = "QR_FOUND" ->
         /\ GoesTo(a, "CONNECT") \/ (~Pressed(key) /\ StaysOn(a))
         /\ UNCHANGED lens
    [] OTHER -> IF key \in TouchesNds \cup {"A", "B"} THEN GoesTo(a, "CONNECT") /\ LetGo
                ELSE StaysOn(a) /\ UNCHANGED lens

-----------------------------------------------------------------------------
(* screen_session.c, config_nds.c, screen_selftest.c, screen_fatal.c         *)

\* apad_nds_config_mount and apad_nds_config_load: nothing without a card, and a
\* network whose security is not known, or whose key does not read, is a name
\* to pick from the list again.
LoadedNds(card, field, saved, usable) ==
  /\ ~card => field = NoAddress /\ saved = NoNetwork
  /\ usable => saved # NoNetwork
  /\ record = [server |-> field, network |-> saved]

\* apad_nds_config_save_address: without a card nothing is remembered.
AddressSaved(a) ==
  IF a.connected \/ ~wifi.mounted THEN record ELSE [record EXCEPT !.server = a.field]

\* session_update: what the user confirmed, or one pump.
SessionUpdateNds(a, key) ==
  CASE Confirmed(a, key, "CONFIRM_SELFTEST") ->
         GoesTo([a EXCEPT !.connected = FALSE, !.countdown = TRUE, !.return = "CONNECT"], "SELFTEST")
    [] Confirmed(a, key, "CONFIRM_DISCONNECT") -> GoesTo(LeftBy(a, TRUE), "CONNECT")
    [] OTHER ->
         \/ GoesTo(LeftBy(a, FALSE), "CONNECT")
         \/ /\ BecomesNds([a EXCEPT !.connected = TRUE, !.sub = SubAfter(a, key)], wifi)
            /\ record' = AddressSaved(a)
            /\ worked' = worked \cup {a.field}
            /\ UNCHANGED engine

SelftestUpdateNds(a, key) ==
  CASE a.sub = "ARM" -> StaysOn([a EXCEPT !.sub = "RUN"])
    [] a.sub = "RUN" -> StaysOn(Disarmed([a EXCEPT !.sub = "DONE"]))
    [] OTHER -> IF Pressed(key) THEN GoesTo(a, a.return) ELSE StaysOn(a)

FatalUpdateNds(a, key) ==
  CASE key = "SELECT" -> GoesTo([a EXCEPT !.return = "FATAL"], "SELFTEST")
    [] key \in {"B", "TOUCH"} -> LeavesNds(a) /\ engine' = NoEngine /\ UNCHANGED <<record, worked>>
    [] OTHER -> StaysOn(a)

-----------------------------------------------------------------------------
(* main.c                                                                   *)

\* One frame of main's loop.  The keyboard is libnds's: what it types does not
\* wait for the keys to be released.
NdsFrame ==
  /\ app.screen # "OVER"
  /\ \E key \in NdsKeys :
       LET a == Sampled(app, key)
       IN  /\ Counts(a, key) \/ key \in {"CHORD", "EDIT"}
           /\ CASE a.screen = "WIFI" -> WifiUpdate(a, key) /\ UNCHANGED lens
                [] a.screen = "CONNECT" -> ConnectUpdateNds(a, key) /\ UNCHANGED lens
                [] a.screen = "QRSCAN" -> QrscanUpdateNds(a, key)
                [] a.screen = "SESSION" -> SessionUpdateNds(a, key) /\ UNCHANGED lens
                [] a.screen = "SELFTEST" -> SelftestUpdateNds(a, key) /\ UNCHANGED lens
                [] OTHER -> FatalUpdateNds(a, key) /\ UNCHANGED lens
           /\ left' = \/ left /\ ~Pressed(key)
                      \/ a.screen = "SESSION" /\ Confirmed(a, key, "CONFIRM_DISCONNECT")

\* bring_up and apad_nds_config_load.
NdsInit ==
  /\ \E field \in Addresses, saved \in Networks \cup {NoNetwork}, ready, dsi, card, wfc, usable \in BOOLEAN :
       LET a == [screen |-> "FATAL", sub |-> "IDLE", armed |-> FALSE, auto |-> FALSE, field |-> field,
                 found |-> FALSE, have_secret |-> FALSE, want_connect |-> FALSE, boot |-> TRUE,
                 discover |-> TRUE, countdown |-> FALSE, return |-> "CONNECT", connected |-> FALSE,
                 ssid |-> saved, saved_tried |-> FALSE, auto_retried |-> FALSE,
                 picker_rejoined |-> FALSE, pending |-> NoNetwork, sel |-> NoNetwork, keyboard |-> FALSE]
       IN  /\ LoadedNds(card, field, saved, usable)
           /\ app = [a EXCEPT !.screen = IF ready THEN "WIFI" ELSE "FATAL", !.sub = IF ready THEN "BOOT" ELSE "IDLE"]
           /\ worked = {field, saved}
           /\ wifi = [stage |-> IF ready THEN "IDLE" ELSE "FAILED", rejected |-> FALSE,
                      target |-> NoNetwork, up |-> FALSE, dsi |-> dsi, mounted |-> card,
                      wfc |-> wfc, usable |-> usable]
  /\ engine = NoEngine
  /\ lens = LensFree
  /\ left = FALSE

NdsNext == WifiDrops \/ NdsFrame

NdsSpec == NdsInit /\ [][NdsNext]_ndsVars

-----------------------------------------------------------------------------
(* Safety.                                                                   *)

\* The camera's transfers land in the bottom screen's own memory, so they run
\* only while nothing else may draw there, and both end with the scanning
\* screen, whichever way it is left.
LensOnlyWhileLocked ==
  /\ lens.camera => lens.locked
  /\ lens # LensFree => app.screen = "QRSCAN"

\* screen_connect.c:202: every failure lands back in editing, so an idle
\* connect screen, which says "enter address", has its keyboard.
IdleCanBeTyped ==
  app.screen = "CONNECT" /\ app.sub = "IDLE" => app.keyboard

\* screen_connect.c:8: a dropped session costs a glance: nobody has to be
\* standing at the console for it to connect again.  Here, a client that came
\* back from rejoining the network does not stop at an idle screen.
RejoinGoesOn ==
  [][app.screen = "WIFI" /\ app'.screen = "CONNECT" /\ app.found => app'.sub # "IDLE"]_ndsVars
=============================================================================
