-------------------------------- MODULE BtHid --------------------------------
(***************************************************************************)
(* BtHidController.kt: the phone as a Bluetooth keyboard, mouse and media   *)
(* remote.  Three threads share its fields: the Bluetooth stack's executor, *)
(* which runs the callbacks, the thread that streams a report of each kind  *)
(* every 16 ms, and the main thread.  A turn of the stream is three steps:  *)
(* read the snapshot, send, and now and then publish a status copied from   *)
(* the last one.                                                            *)
(*                                                                         *)
(* A reconnect takes longer than one turn of the stream, so at most one     *)
(* stream thread is alive; whether a report says anything but zeroes is all *)
(* that is kept of it.  An app that is registered stays so: Bluetooth that  *)
(* is switched off, or the profile's service going away, is left out.      *)
(***************************************************************************)
EXTENDS AppShared

CONSTANT MaxStray   \* bound: reports the stack refuses, GET_REPORTs the host asks

VARIABLES
  bt,       \* the fields of BtHidController
  stream,   \* the stream thread: where it is and what it has read
  btkbm,    \* BluetoothTransport.kbm
  host,     \* external: what the PC takes to be held down
  stray     \* reports refused and snapshots taken by GET_REPORT so far

btVars == <<bt, stream, btkbm, host, stray>>

Released == [f \in AppFacilities |-> FALSE]
NoReports == [f \in {} |-> FALSE]

BtInit ==
  /\ bt = [registered |-> FALSE, connected |-> FALSE, boot |-> FALSE, streaming |-> FALSE,
           last_idle |-> FALSE, status |-> FALSE]
  /\ stream = [at |-> "NONE", reports |-> NoReports, copied |-> FALSE]
  /\ btkbm = SnapshotInit
  /\ host = Released
  /\ stray = 0

\* status.copy(connectedName = ...) by the executor: what another thread may
\* publish in between costs at most the report rate.
PublishConnected(up) == Post("BT", up)

-----------------------------------------------------------------------------
(* The executor.                                                            *)

AppRegistered ==
  /\ ~bt.registered /\ Room
  /\ bt' = [bt EXCEPT !.registered = TRUE]
  /\ Post("BT", bt.status)
  /\ UNCHANGED <<stream, btkbm, host, stray>>

HostConnects ==
  /\ bt.registered /\ ~bt.connected /\ stream.at = "NONE" /\ Room
  /\ bt' = [bt EXCEPT !.connected = TRUE, !.boot = FALSE, !.status = TRUE, !.streaming = TRUE]
  /\ stream' = [stream EXCEPT !.at = "TOP"]
  /\ PublishConnected(TRUE)
  /\ UNCHANGED <<btkbm, host, stray>>

\* A host that loses its keyboard lets its keys go.
HostDisconnects ==
  /\ bt.connected /\ Room
  /\ bt' = [bt EXCEPT !.connected = FALSE, !.streaming = FALSE, !.status = FALSE]
  /\ host' = Released
  /\ PublishConnected(FALSE)
  /\ UNCHANGED <<stream, btkbm, stray>>

SetProtocol ==
  /\ bt.connected /\ Room
  /\ bt' = [bt EXCEPT !.boot = ~@]
  /\ Post("BT", bt.status)
  /\ UNCHANGED <<stream, btkbm, host, stray>>

\* The answer names one report, but the snapshot is read, and drained, whole.
GetReport ==
  /\ bt.connected /\ stray < MaxStray
  /\ \E f \in AppFacilities :
       host' = [host EXCEPT ![f] = btkbm[f].held]
  /\ btkbm' = Drained(btkbm)
  /\ stray' = stray + 1
  /\ UNCHANGED <<bt, stream>> /\ NothingPosted

-----------------------------------------------------------------------------
(* The stream thread.                                                       *)

StreamEnds ==
  /\ stream.at = "TOP" /\ ~bt.streaming
  /\ stream' = [stream EXCEPT !.at = "NONE"]
  /\ UNCHANGED <<bt, btkbm, host, stray>> /\ NothingPosted

\* Nothing leaves while the host asked for boot protocol.
StreamReads ==
  /\ stream.at = "TOP" /\ bt.streaming /\ ~bt.boot
  /\ stream' = [stream EXCEPT !.at = "SEND", !.reports = Read(btkbm)]
  /\ btkbm' = Drained(btkbm)
  /\ UNCHANGED <<bt, host, stray>> /\ NothingPosted

\* Mutant: an idle mouse is silent at once, its last button-up included.
MouseSaysIdle(moves) == stream.reports["MOUSE"] \/ moves

\* The mouse falls silent after its first all-zero report.
MouseSays(moves) == stream.reports["MOUSE"] \/ moves \/ ~bt.last_idle

Offered(moves) == {f \in DOMAIN stream.reports : f = "MOUSE" => MouseSays(moves)}

StreamSends ==
  /\ stream.at = "SEND"
  /\ \E moves \in BOOLEAN, refused \in SUBSET DOMAIN stream.reports :
       /\ refused \subseteq Offered(moves)
       /\ stray' = stray + (IF refused = {} \/ ~bt.connected THEN 0 ELSE 1) /\ stray' <= MaxStray
       /\ host' = IF bt.connected
                    THEN [f \in AppFacilities |->
                           IF f \in Offered(moves) \ refused THEN stream.reports[f] ELSE host[f]]
                    ELSE host
       /\ bt' = IF "MOUSE" \in DOMAIN stream.reports
                  THEN [bt EXCEPT !.last_idle = ~(stream.reports["MOUSE"] \/ moves)] ELSE bt
  /\ stream' = [stream EXCEPT !.at = "TOP", !.reports = NoReports]
  /\ UNCHANGED btkbm /\ NothingPosted

\* Once a second: status.copy(reportsPerSec = ...), read here, ...
StreamCopies ==
  /\ stream.at = "TOP" /\ bt.streaming /\ Room
  /\ stream' = [stream EXCEPT !.at = "PUBLISH", !.copied = bt.status]
  /\ UNCHANGED <<bt, btkbm, host, stray>> /\ NothingPosted

\* ... and written here.
StreamPublishes ==
  /\ stream.at = "PUBLISH"
  /\ stream' = [stream EXCEPT !.at = "TOP", !.copied = FALSE]
  /\ bt' = [bt EXCEPT !.status = stream.copied]
  /\ Post("BT", stream.copied)
  /\ UNCHANGED <<btkbm, host, stray>>

Executor == AppRegistered \/ HostConnects \/ HostDisconnects \/ SetProtocol \/ GetReport

Streaming == StreamEnds \/ StreamReads \/ StreamSends \/ StreamCopies \/ StreamPublishes

-----------------------------------------------------------------------------

\* A facility is forgotten when the host holds something of it down and no
\* report that would lift it is due any more.
Forgotten(f) ==
  /\ host[f] /\ ~btkbm[f].held
  /\ f \notin Have(btkbm) \/ (f = "MOUSE" /\ bt.last_idle)
  /\ stream.at # "SEND"
=============================================================================
