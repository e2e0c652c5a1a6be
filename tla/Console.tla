------------------------------- MODULE Console --------------------------------
(***************************************************************************)
(* What the three console programs (clients/3ds, clients/nds, clients/psp)  *)
(* have in common: one thread that draws a frame, samples the keys and runs *)
(* the update handler of the screen it is on; and the client library's      *)
(* handle, of which they see a secret they gave it and what its calls       *)
(* return.  A server's answers, and time, are the environment's choice.     *)
(***************************************************************************)
EXTENDS Integers, Sequences, FiniteSets

CONSTANTS
  ServerAddresses,   \* what can be typed, scanned, discovered or saved
  NoAddress,         \* an empty address field
  Networks,          \* the networks in reach
  NoNetwork

ASSUME ConsoleAssumption == NoAddress \notin ServerAddresses /\ NoNetwork \notin Networks

VARIABLES
  app,      \* app_ctx and the statics of the screens
  engine,   \* the apad_client: does it exist, and whose secret does it hold
  record,   \* the configuration file: a server and a network
  worked,   \* history: servers with an ACTIVE session, networks joined
  left      \* history: the user said disconnect, and has pressed nothing since

consoleVars == <<app, engine, record, worked, left>>

Addresses == ServerAddresses \cup {NoAddress}

\* A secret is the address it was given for, as a set of at most one.
NoSecret == {}
NoEngine == [exists |-> FALSE, secret |-> NoSecret]
NewEngine == [exists |-> TRUE, secret |-> NoSecret]

-----------------------------------------------------------------------------
(* The keys of one frame: "NONE" when nothing is held, "HELD" when what is  *)
(* held is not news, and otherwise what the fresh press means to a screen.  *)
(* A press counts only once everything was released since the last change   *)
(* of screens (app_pressed, app_disarm).                                    *)

Sampled(a, key) == [a EXCEPT !.armed = @ \/ key = "NONE"]
Counts(a, key) == key \in {"NONE", "HELD"} \/ a.armed
Disarmed(a) == [a EXCEPT !.armed = FALSE]
Pressed(key) == key \notin {"NONE", "HELD"}

WithoutSecret(e) == [e EXCEPT !.secret = NoSecret]

\* apad_client_probe: no answer, or one that says whether pairing is required.
ProbeAnswers == {"SILENT", "OPEN", "PAIRED"}

\* apad_client_connect, of which ERR_STATE is a handshake already over.
ConnectReturns == {"OK", "AUTH", "STATE", "OTHER"}

\* leave_to_connect, on the consoles with a countdown.
LeftByAny(a, voluntary) == [a EXCEPT !.connected = FALSE, !.countdown = TRUE]
LeftBy(a, voluntary) ==
  [a EXCEPT !.connected = FALSE, !.countdown = ~voluntary, !.discover = @ /\ ~voluntary]

\* The session screen's confirmation a touch asks for, and what B makes of one.
SubAfter(a, key) ==
  CASE a.sub = "LIVE" /\ key = "DISCONNECT" -> "CONFIRM_DISCONNECT"
    [] a.sub = "LIVE" /\ key = "SELFTEST" -> "CONFIRM_SELFTEST"
    [] key = "B" -> "LIVE"
    [] OTHER -> a.sub
Confirmed(a, key, what) == a.sub = what /\ key = "A"

-----------------------------------------------------------------------------
(* Safety.                                                                   *)

\* The screen believes in a secret exactly when the library holds one, and a
\* secret is only ever used with the server it was scanned from or typed for:
\* whatever changes the address, or loses the library's copy, forgets it.
KeyOfThisServer ==
  /\ app.have_secret <=> engine.secret # NoSecret
  /\ app.have_secret => engine.secret = {app.field}

\* The file that decides where the next start goes holds nothing that has not
\* worked: a server is saved from a session that is live, a network once it
\* is joined, whatever fails, drops or is edited in between.
RemembersWhatWorked ==
  {record.server, record.network} \subseteq worked \cup {NoAddress, NoNetwork}

\* A user who chose to disconnect is left alone: no countdown, no resume and
\* no rejoin connects again until a key is pressed.
DisconnectStays == ~(left /\ app.screen = "SESSION")
=============================================================================
