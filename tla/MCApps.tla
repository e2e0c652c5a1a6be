------------------------------- MODULE MCApps --------------------------------
(***************************************************************************)
(* Programs that share no state, in one run: every initial state starts one *)
(* of them and holds the others in an initial state of theirs.              *)
(*                                                                         *)
(* The phone's two transports share only the screen, so their product is    *)
(* looked at in three slices: two session threads and no Bluetooth,         *)
(* Bluetooth and no UDP session, and both of them with one session thread,  *)
(* no mode but PAD, and a stream that neither sends nor publishes.          *)
(* The consoles share their vocabulary and nothing else: each has a slice,  *)
(* and in every other slice the console is off.  The 3DS's capture thread   *)
(* has a slice of its own.                                                  *)
(***************************************************************************)
EXTENDS Phone, Codec, ConsolePsp, Console3ds, ConsoleNds, Camera3ds

MCThreads == 1..2

VARIABLE slice

Slices == {"UDP", "BLUETOOTH", "BOTH", "CODEC", "TEXTS", "CAMERA"}
Consoles == {"PSP", "3DS", "NDS"}

OnlyUdp == ~ui'.permitted
OnlyBluetooth == joining' = "NONE"
Both ==
  /\ threads'[2].at = "NONE" /\ ui'.mode = "PAD" /\ stray' = 0
  /\ ~bt'.boot /\ stream'.at \in {"NONE", "TOP"}

CodecHeld == CodecInit /\ message.type = "DISCOVER" /\ message.key = NoLinkKey
TextsHeld == meant = [kind |-> "FIELD", bytes |-> <<>>] /\ text = <<>> /\ read = Nothing

consolesVars == <<consoleVars, radio, power, held3ds, unwatched, wifi, lens>>

PspOff == radio = RadioDown /\ power = [pending |-> {}, asleep |-> FALSE, awaiting |-> FALSE]
ThreeDsOff ==
  /\ held3ds = [camera |-> FALSE, decoder |-> FALSE, gyro |-> FALSE, have_gyro |-> FALSE, asleep |-> FALSE]
  /\ unwatched = FALSE
NdsOff == wifi = [up |-> FALSE] /\ lens = LensFree
NoConsole ==
  /\ app = [screen |-> "OVER", field |-> NoAddress, have_secret |-> FALSE] /\ engine = NoEngine
  /\ record = [server |-> NoAddress, network |-> NoNetwork] /\ worked = {} /\ left = FALSE
  /\ PspOff /\ ThreeDsOff /\ NdsOff

MCInit ==
  /\ slice \in Slices \cup Consoles
  /\ Init
  /\ IF slice = "CODEC" THEN CodecInit ELSE CodecHeld
  /\ IF slice = "TEXTS" THEN TextsInit ELSE TextsHeld
  /\ CASE slice = "PSP" -> PspInit /\ ThreeDsOff /\ NdsOff
       [] slice = "3DS" -> Init3ds /\ PspOff /\ NdsOff
       [] slice = "NDS" -> NdsInit /\ PspOff /\ ThreeDsOff
       [] OTHER -> NoConsole
  /\ CameraInit /\ (camMode = "G" \/ slice = "CAMERA")

PhoneNext ==
  /\ slice \in {"UDP", "BLUETOOTH", "BOTH"}
  /\ Next /\ UNCHANGED <<slice, codecVars, textVars, consolesVars, cameraVars>>
  /\ slice = "UDP" => OnlyUdp
  /\ slice = "BLUETOOTH" => OnlyBluetooth
  /\ slice = "BOTH" => Both

ConsoleNext ==
  /\ UNCHANGED <<slice, vars, codecVars, textVars, cameraVars>>
  /\ \/ slice = "PSP" /\ PspNext /\ UNCHANGED <<held3ds, unwatched, wifi, lens>>
     \/ slice = "3DS" /\ Next3ds /\ UNCHANGED <<radio, power, wifi, lens>>
     \/ slice = "NDS" /\ NdsNext /\ UNCHANGED <<radio, power, held3ds, unwatched>>

allVars == <<slice, vars, codecVars, textVars, consolesVars, cameraVars>>

\* A datagram that is read, a text that is read or kept in its field, a program that has ended, or a camera whose
\* bounds are used up, is where it stops.
Ended ==
  \/ slice = "CODEC" /\ outcome.at \notin {"SENT", "TAMPERED"}
  \/ slice \in Consoles /\ app.screen = "OVER"
  \/ slice = "TEXTS" /\ (read # Nothing \/ meant.kind = "FIELD")
  \/ slice = "CAMERA"

MCNext ==
  \/ PhoneNext
  \/ slice = "CODEC" /\ CodecNext /\ UNCHANGED <<slice, vars, textVars, consolesVars, cameraVars>>
  \/ slice = "TEXTS" /\ TextsNext /\ UNCHANGED <<slice, vars, codecVars, consolesVars, cameraVars>>
  \/ ConsoleNext
  \/ slice = "CAMERA" /\ CameraNext /\ UNCHANGED <<slice, vars, codecVars, textVars, consolesVars>>
  \/ Ended /\ UNCHANGED allVars

MCSpec == MCInit /\ [][MCNext]_allVars

-----------------------------------------------------------------------------

\* A console client left to itself does what its user last asked for: it keeps
\* trying while nobody has told it to stop (the 3DS, leave_to_connect and
\* do_connect), and one told to disconnect stays disconnected (all three).
DoesAsLastTold == DisconnectStays /\ (slice = "3DS" => UnattendedKeepsTrying)

\* What the camera's screen takes it gives back, whichever way the screen is
\* left: camera, decoder and gyroscope on the 3DS, camera, decoder and the
\* bottom screen's memory on the DSi.
ConsoleLetsGo == (slice = "3DS" => NothingHeldElsewhere) /\ LensOnlyWhileLocked

\* What a console client remembers of its user's wishes: which server a secret
\* is for, which server and network have worked, and what was asked for last.
ConsolesRemember == KeyOfThisServer /\ RemembersWhatWorked /\ DoesAsLastTold

\* Whatever screens its user walks through, a console client keeps what it is to
\* keep and lets go of the rest.
ConsolesKeepFaith == ConsolesRemember /\ ConsoleLetsGo

\* What one end says the other end reads: the datagrams of codec.c, and its names,
\* messages and pairing URIs.
ReadsAsWritten == ReadAsSent /\ TextsReadBack
=============================================================================
