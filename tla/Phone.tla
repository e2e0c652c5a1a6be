-------------------------------- MODULE Phone --------------------------------
(***************************************************************************)
(* MainActivity.kt over its two transports: one overlay that belongs to the *)
(* UDP session of PadService or to the Bluetooth one of BtHid, whichever is *)
(* open, and the screens in between.  Every operation here runs on the main *)
(* thread, which does nothing while stopSession waits; the transports'      *)
(* threads go on all the time and are heard through the posted callbacks.   *)
(*                                                                         *)
(* Whether a host answers the phone's own attempts to reach it is the       *)
(* environment's choice, so the remembered address and the attempt that is  *)
(* pending are left out.                                                    *)
(***************************************************************************)
EXTENDS PadService, BtHid

VARIABLE ui   \* the fields of MainActivity

vars == <<service, threads, joining, bt, stream, btkbm, host, stray, posted, ui>>

Screens == {"UDP", "BLUETOOTH"}
Panels == {"NONE", "PERMISSION", "PAIRING"}

PhoneInit ==
  ui = [mode |-> "PAD", open |-> "NONE", screen |-> "UDP", panel |-> "NONE", resumed |-> TRUE,
        dialog |-> FALSE, permitted |-> FALSE, asked |-> FALSE, known |-> FALSE,
        button |-> FALSE, wanted |-> FALSE, pairing |-> FALSE]

Init == ServiceInit /\ BtInit /\ posted = <<>> /\ PhoneInit

-----------------------------------------------------------------------------
(* What the handlers are made of, on p = [ui, kbm].                         *)

Phone == [ui |-> ui, kbm |-> btkbm]
Becomes(p) == ui' = p.ui /\ btkbm' = p.kbm

\* applyKbmActivity reads activeTransport?.kbm.
WithActivity(p) == IF p.ui.open = "BT" THEN [p EXCEPT !.kbm = ApplyKbmActivity(@, p.ui.mode)] ELSE p

EnterSession(p, transport) ==
  WithActivity([p EXCEPT !.ui.open = transport, !.ui.wanted = FALSE])

\* Mutant: the transport is let go of before the facilities are.
ExitSessionUnreleased(p) == [p EXCEPT !.ui.mode = "PAD", !.ui.open = "NONE"]

ExitSession(p) == [WithActivity([p EXCEPT !.ui.mode = "PAD"]) EXCEPT !.ui.open = "NONE"]

\* refreshBtPermissionStep, registering and scanning included.
PermissionStep(p) ==
  [p EXCEPT !.ui.panel = IF p.ui.permitted THEN "PAIRING" ELSE "PERMISSION",
            !.ui.asked = @ \/ p.ui.permitted,
            !.ui.wanted = p.ui.permitted]

\* showBtSetupScreen: permissions that are missing are asked for, by a dialog
\* of the system that takes the app's place in front.
BtSetupScreen(p) ==
  PermissionStep([p EXCEPT !.ui.screen = "BLUETOOTH",
                           !.ui.dialog = ~p.ui.permitted,
                           !.ui.resumed = @ /\ p.ui.permitted])
CloseBtSession(p) == BtSetupScreen(ExitSession(p))

-----------------------------------------------------------------------------
(* What the transports posted.                                              *)

\* Mutant: a session that became ACTIVE is shown, whatever is open.
MayEnterAlways == TRUE

MayEnter == ui.open \in {"NONE", "UDP"}

OnStatus(state) ==
  CASE state = "ACTIVE" -> IF MayEnter THEN EnterSession(Phone, "UDP") ELSE Phone
    [] state = "HANDSHAKING" -> Phone
    [] OTHER -> IF ui.open = "UDP" THEN ExitSession(Phone) ELSE Phone

\* Every status the transport posts is one of a registered app, and shows the
\* button that opens a session.
OnBtStatus(connected) ==
  LET seen == [Phone EXCEPT !.ui.known = connected, !.ui.button = TRUE]
  IN  CASE connected /\ ~ui.known /\ ui.open = "NONE" -> EnterSession(seen, "BT")
        [] ~connected /\ ui.known /\ ui.open = "BT" -> CloseBtSession(seen)
        [] OTHER -> seen

RunsPosted ==
  /\ MainFree /\ posted # <<>>
  /\ Becomes(IF Head(posted).from = "UDP" THEN OnStatus(Head(posted).status)
                                          ELSE OnBtStatus(Head(posted).status))
  /\ posted' = Tail(posted)
  /\ UNCHANGED <<service, threads, joining, bt, stream, host, stray>>

-----------------------------------------------------------------------------
(* What the user and the system do.                                         *)

OnMain(p) ==
  /\ MainFree /\ Becomes(p) /\ NothingPosted
  /\ UNCHANGED <<service, threads, joining, bt, stream, host, stray>>

OnSetupScreen == ui.resumed /\ ui.open = "NONE" /\ ui.screen = "BLUETOOTH"
OnPairingPanel == OnSetupScreen /\ ui.panel = "PAIRING"

UsesBluetooth == ui.resumed /\ ui.open = "NONE" /\ ui.screen = "UDP" /\ OnMain(BtSetupScreen(Phone))

UsesNetwork ==
  OnSetupScreen /\ OnMain([Phone EXCEPT !.ui.screen = "UDP", !.ui.wanted = FALSE])

\* The button of the pairing panel, there once the app is registered, whether or
\* not a host is connected.
OpensBtSession == OnPairingPanel /\ ui.button /\ OnMain(EnterSession(Phone, "BT"))

LeavesBtSession == ui.resumed /\ ui.open = "BT" /\ OnMain(CloseBtSession(Phone))

SelectMode ==
  /\ ui.resumed /\ ui.open # "NONE"
  /\ \E mode \in Modes \ {ui.mode} : OnMain(WithActivity([Phone EXCEPT !.ui.mode = mode]))

\* A finger goes down on, or comes off, a facility of the mode shown.
Touches ==
  /\ ui.resumed /\ ui.open = "BT"
  /\ \E f \in ActiveIn(ui.mode) \cap AppFacilities :
       OnMain([Phone EXCEPT !.kbm = Touched(@, f, ~btkbm[f].held)])

\* A tap on a device that is near: the scan gives way to the bond.
Pairs ==
  /\ OnPairingPanel /\ ~ui.pairing
  /\ OnMain([Phone EXCEPT !.ui.wanted = FALSE, !.ui.pairing = TRUE])

\* Mutant: the scan resumes on whatever is showing by then.
BondedScans == [Phone EXCEPT !.ui.pairing = FALSE, !.ui.wanted = ui.permitted]

Bonded ==
  [Phone EXCEPT !.ui.pairing = FALSE,
                !.ui.wanted = @ \/ (ui.permitted /\ ui.screen = "BLUETOOTH" /\ ui.open = "NONE")]

BondResolves == ui.pairing /\ OnMain(Bonded)

\* The answer arrives before the app is in front again.
PermissionsAnswered ==
  /\ ui.dialog
  /\ \E granted \in BOOLEAN :
       OnMain(PermissionStep([Phone EXCEPT !.ui.dialog = FALSE, !.ui.permitted = granted]))

\* In the system's settings; taking one back ends the process.
Permits ==
  /\ ~ui.resumed /\ ~ui.dialog /\ ~ui.permitted
  /\ OnMain([Phone EXCEPT !.ui.permitted = TRUE])

Pauses == ui.resumed /\ OnMain([Phone EXCEPT !.ui.resumed = FALSE, !.ui.wanted = FALSE])

\* The panels are asked whether they are visible, not the screen they are in.
Resumes ==
  /\ ~ui.resumed /\ ~ui.dialog
  /\ LET shown == [Phone EXCEPT !.ui.resumed = TRUE]
     IN  OnMain(CASE ui.panel = "PERMISSION" -> PermissionStep(shown)
                  [] ui.panel = "PAIRING" -> [shown EXCEPT !.ui.wanted = ui.permitted]
                  [] OTHER -> shown)

\* connectTo, from the connect screen; Disconnect, from the session's menu.
ConnectTo == ui.resumed /\ ui.open = "NONE" /\ ui.screen = "UDP" /\ StopSession("START")
Disconnects == ui.resumed /\ ui.open = "UDP" /\ StopSession("STOP")

User ==
  \/ UsesBluetooth \/ UsesNetwork \/ OpensBtSession \/ LeavesBtSession
  \/ SelectMode \/ Touches \/ Pairs \/ BondResolves
  \/ Permits \/ PermissionsAnswered \/ Pauses \/ Resumes

-----------------------------------------------------------------------------

Service ==
  /\ ConnectTo \/ Disconnects \/ Stopped \/ Started \/ \E t \in SessionThreads : SessionThread(t)
  /\ UNCHANGED <<bt, stream, btkbm, host, stray, ui>>

Bluetooth ==
  /\ ui.asked /\ (Executor \/ Streaming)
  /\ UNCHANGED <<service, threads, joining, ui>>

Next == RunsPosted \/ User \/ Service \/ Bluetooth

Spec == Init /\ [][Next]_vars

-----------------------------------------------------------------------------
(* Properties.                                                              *)

\* Only the thread of the session that was started last ever pumps: one that
\* outlived its join in a native call is interrupted, and finds out before its
\* first turn (sessionLoop, AtticPadService.kt 349-493).
OnePump ==
  \A t \in SessionThreads : At(t, "PUMP") /\ LoopsOn(t) => t = service.thread

\* What the PC holds down and no finger does is lifted by a report that is
\* still due, through every change of mode, transport, protocol and screen,
\* unless the stack refused a report or GET_REPORT took one (KbmSnapshot.kt
\* 77-103, BtHidController.kt 1659-1737).
NothingForgotten == stray = 0 => \A f \in AppFacilities : ~Forgotten(f)

\* The Bluetooth transport's facilities are live exactly as the mode on the
\* screen asks while its session is open, and dead when it is not
\* (enterSession, exitSession, selectMode; MainActivity.kt 814-860, 1132-1171).
ActivityFollowsMode ==
  \A f \in AppFacilities :
    btkbm[f].active <=> ui.open = "BT" /\ f \in ActiveIn(ui.mode)

\* A session on the screen is never swapped for the other transport's
\* (onStatus, onBtStatus; MainActivity.kt 2295-2335, 2633-2654).
NeverSwapped ==
  [][~(ui.open = "UDP" /\ ui'.open = "BT") /\ ~(ui.open = "BT" /\ ui'.open = "UDP")]_vars

\* While the app is in front the radio starts to scan only for the Bluetooth
\* setup screen, however late a bond resolves or a permission lands
\* (resumeBtDiscoveryIfPanelShowing, MainActivity.kt 2045-2052).
ScanStartsOnSetupScreen ==
  [][ui.resumed /\ ~ui.wanted /\ ui'.wanted => ui'.screen = "BLUETOOTH" /\ ui'.open = "NONE"]_vars

\* The comment of onResume (MainActivity.kt 605-607): the setup panel is brought
\* up to date "only while that screen is actually the one showing".
ScanOnlyOnPanel == ui.wanted => ui.screen = "BLUETOOTH" /\ ui.open = "NONE"

\* The comment of onBtStatus (MainActivity.kt 2330): "Disconnection always
\* returns to the Bluetooth setup screen".  A session that was opened with no
\* host (ui.known is FALSE) waits for one and is not meant.
DisconnectIsSeen == ui.known /\ ~bt.connected /\ posted = <<>> => ui.open # "BT"

\* The Bluetooth keyboard, mouse and remote are in the state the screen shows:
\* live as the mode says, holding down what fingers hold.
BluetoothFollowsScreen == NothingForgotten /\ ActivityFollowsMode
=============================================================================
