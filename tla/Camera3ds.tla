----------------------------- MODULE Camera3ds -----------------------------
(***************************************************************************)
(* clients/3ds/source/camera_3ds.c: the capture thread behind the QR       *)
(* scanner, the screen that starts, polls and stops it, and the camera     *)
(* port that fills memory on its own.  A picture is two halves, each       *)
(* carrying the number of the transfer that wrote it; the port, the thread *)
(* and the screen move them one half at a time, so that whoever copies too  *)
(* early or too late shows a picture put together from two.  A transfer    *)
(* that was armed late may itself hold two exposures of the sensor (the    *)
(* file's header, on the unarmed window): which it holds is not modelled.  *)
(*                                                                         *)
(* Mode "G" has one DMA buffer and copies before it arms the next          *)
(* transfer; mode "H" has two and arms the other one first.                *)
(***************************************************************************)
EXTENDS Naturals

CONSTANTS
  ReadyCap,       \* CAM_READY_TIMEOUT_NS, in units of time
  MaxTransfers,   \* bound: transfers the port starts while the scanner is open
  MaxRefusals,    \* bound: SetReceiving refused and bring-ups failing
  MaxOpens        \* bound: times the scanner is started

ASSUME Camera3dsAssumption ==
  {ReadyCap, MaxTransfers, MaxRefusals, MaxOpens} \subseteq Nat

VARIABLES
  scanner,     \* the main thread: where it is in the calls below
  camMode,     \* s_mode
  thread,      \* the capture thread: where it is
  memory,      \* the buffers are allocated
  cancel,      \* EV_CANCEL
  receive,     \* EV_RECV: "none" if no handle, "armed", or "signalled"
  bufferError, \* EV_ERR
  port,        \* the camera: capturing, and the half of a transfer written so far
  loose,       \* it may still be writing for a thread that has stopped waiting for it
  cur,         \* s_dma_cur
  dma,         \* s_dma: buffer -> its two halves
  full,        \* the buffer being published
  pub, pubSeq, \* s_pub, s_pub_seq
  stage, seenSeq, \* s_stage, s_seen_seq
  luma,        \* s_luma, if s_luma_valid
  lock,        \* s_lock: who holds it
  waited,      \* how long the running start() has taken
  transfers, refusals, opens

threadVars == <<thread, receive, bufferError, cur, full, pub, pubSeq>>
screenVars == <<scanner, camMode, memory, cancel, stage, seenSeq, luma, waited, opens>>
portVars   == <<port, loose, dma, transfers>>
cameraVars == <<threadVars, screenVars, portVars, lock, refusals>>

Blank == <<0, 0>>
NoPicture == <<>>
Idle == [capturing |-> FALSE, half |-> 0]

-----------------------------------------------------------------------------
(* The port (external): it fills the armed buffer, then signals.  Without  *)
(* one it overflows and stops.                                             *)

Fills ==
  /\ port.capturing /\ ~loose /\ receive = "armed"
  /\ port.half = 0 => transfers < MaxTransfers
  /\ LET number == IF port.half = 0 THEN transfers + 1 ELSE transfers
     IN  /\ dma' = [dma EXCEPT ![cur][port.half + 1] = number]
         /\ transfers' = number
  /\ port' = [port EXCEPT !.half = 1 - @]
  /\ receive' = IF port.half = 1 THEN "signalled" ELSE receive
  /\ UNCHANGED <<thread, bufferError, cur, full, pub, pubSeq, screenVars, loose, lock, refusals>>

Overflows ==
  /\ port.capturing /\ ~loose /\ receive # "armed"
  /\ port' = Idle
  /\ bufferError' = TRUE
  /\ UNCHANGED <<thread, receive, cur, full, pub, pubSeq, screenVars, loose, dma, transfers, lock, refusals>>

\* A transfer nobody waits for ends on its own.
Settles ==
  /\ loose /\ loose' = FALSE
  /\ port' = Idle
  /\ UNCHANGED <<threadVars, screenVars, dma, transfers, lock, refusals>>

-----------------------------------------------------------------------------
(* The capture thread *)

Steps(from, to) == thread = from /\ thread' = to

\* arm_receive: SetReceiving may be refused, and is tried again by the loop.
\* A receive that is armed anew starts at the top of a picture.
ArmReceive ==
  /\ \/ receive' = "armed" /\ UNCHANGED refusals
     \/ receive' = "none" /\ refusals < MaxRefusals /\ refusals' = refusals + 1

\* cam_bring_up ends with a receive armed and capture started anew, or any call
\* of it failed; it may also never return.
BringUp ==
  \/ /\ Steps("bringup", "loop")
     /\ receive' = "armed"
     /\ port' = [capturing |-> TRUE, half |-> 0] /\ loose' = FALSE
     /\ UNCHANGED refusals
  \/ /\ Steps("bringup", "failing")
     /\ refusals < MaxRefusals /\ refusals' = refusals + 1
     /\ receive' \in {"none", "armed"}
     /\ UNCHANGED <<port, loose>>

\* The events in the order svcWaitSynchronizationN prefers them.
Cancelled == Steps("loop", "stopping") /\ cancel /\ UNCHANGED <<receive, refusals, port, loose>>
Retries   == Steps("loop", "loop") /\ ~cancel /\ receive = "none" /\ ArmReceive
             /\ UNCHANGED <<port, loose>>

\* Mutant: mode H arms the buffer it is about to copy.
FlipNot(buffer) == buffer
Flip(buffer) == IF camMode = "H" THEN 1 - buffer ELSE buffer

\* EV_RECV: mode H arms the other buffer, then both copy.
Received ==
  /\ Steps("loop", "publish")
  /\ ~cancel /\ receive = "signalled"
  /\ full' = cur
  /\ cur' = Flip(cur)
  /\ IF camMode = "H" THEN ArmReceive ELSE receive' = "none" /\ UNCHANGED refusals
  /\ UNCHANGED <<bufferError, pub, pubSeq, screenVars, portVars, lock>>

\* publish: one half at a time under the lock; mode G arms behind it.
PublishTop ==
  /\ Steps("publish", "publishing")
  /\ lock = "free" /\ lock' = "thread"
  /\ pub' = [pub EXCEPT ![1] = dma[full][1]]
  /\ UNCHANGED <<receive, bufferError, cur, full, pubSeq, screenVars, portVars, refusals>>
PublishRest ==
  /\ Steps("publishing", IF camMode = "H" THEN "loop" ELSE "arm")
  /\ lock' = "free"
  /\ pub' = [pub EXCEPT ![2] = dma[full][2]]
  /\ pubSeq' = pubSeq + 1
  /\ UNCHANGED <<receive, bufferError, cur, full, screenVars, portVars, refusals>>
ArmsAgain ==
  /\ Steps("arm", "loop")
  /\ ArmReceive
  /\ UNCHANGED <<bufferError, cur, full, pub, pubSeq, screenVars, portVars, lock>>

\* EV_ERR: what was received is given up, and capture restarted.
Recovers ==
  /\ Steps("loop", "loop")
  /\ ~cancel /\ receive \notin {"none", "signalled"} /\ bufferError
  /\ bufferError' = FALSE
  /\ ArmReceive
  /\ port' = [capturing |-> TRUE, half |-> 0]
  /\ UNCHANGED <<cur, full, pub, pubSeq, screenVars, loose, dma, transfers, lock>>

\* cam_tear_down waits until the port is idle, or until CAMU_IsBusy itself
\* fails, whether or not CAMU_StopCapture stopped anything.
Drains      == port' = Idle /\ loose' = FALSE
StopsAsking == port' = [port EXCEPT !.half = 0] /\ loose' = port.capturing
TearDown ==
  /\ \/ Steps("stopping", "done") \/ Steps("failing", "failed")
  /\ Drains \/ StopsAsking
  /\ receive' = "none" /\ bufferError' = FALSE
  /\ UNCHANGED <<cur, full, pub, pubSeq, screenVars, dma, transfers, lock, refusals>>

ThreadStep ==
  \/ (BringUp \/ Cancelled \/ Retries)
     /\ UNCHANGED <<bufferError, cur, full, pub, pubSeq, screenVars, dma, transfers, lock>>
  \/ Received \/ PublishTop \/ PublishRest \/ ArmsAgain \/ Recovers \/ TearDown

-----------------------------------------------------------------------------
(* The screen *)

\* apad3ds_cam_start: memory, then the thread, then the wait for it.
Start ==
  /\ scanner = "closed" /\ opens < MaxOpens
  /\ opens' = opens + 1
  /\ \/ /\ scanner' = "closed" \* out of memory, or no thread
        /\ UNCHANGED <<memory, thread, waited, pub, pubSeq, stage, seenSeq, cur, dma, cancel>>
     \/ /\ scanner' = "starting"
        /\ memory' = TRUE /\ thread' = "bringup" /\ waited' = 0 /\ cancel' = FALSE
        /\ pub' = Blank /\ pubSeq' = 0 /\ stage' = Blank /\ seenSeq' = 0 /\ cur' = 0
        /\ dma' = [b \in {0, 1} |-> Blank]
  /\ UNCHANGED <<camMode, receive, bufferError, full, luma, port, loose, transfers, lock, refusals>>

\* The thread reports, or ReadyCap passes first: then it is stopped like any
\* other.
Ready ==
  /\ scanner = "starting" /\ thread \notin {"bringup", "failing"}
  /\ cancel' = (thread = "failed")
  /\ scanner' = IF thread = "failed" THEN "joining" ELSE "open"
  /\ UNCHANGED <<camMode, memory, stage, seenSeq, luma, waited, opens, threadVars, portVars, lock, refusals>>
TimesOut ==
  /\ scanner = "starting" /\ thread = "bringup" /\ waited >= ReadyCap
  /\ scanner' = "joining" /\ cancel' = TRUE
  /\ UNCHANGED <<camMode, memory, stage, seenSeq, luma, waited, opens, threadVars, portVars, lock, refusals>>

\* apad3ds_cam_stop, as far as the join.
Stop ==
  /\ scanner = "open"
  /\ scanner' = "joining" /\ cancel' = TRUE
  /\ UNCHANGED <<camMode, memory, stage, seenSeq, luma, waited, opens, threadVars, portVars, lock, refusals>>

\* threadJoin, then free_buffers; only then has mode_next changed the mode it
\* starts again in.
Joined ==
  /\ scanner = "joining" /\ thread \in {"done", "failed"}
  /\ scanner' = "closed" /\ thread' = "none" /\ memory' = FALSE
  /\ cancel' = FALSE /\ luma' = NoPicture
  /\ camMode' \in {"G", "H"}
  /\ UNCHANGED <<stage, seenSeq, waited, opens, receive, bufferError, cur, full, pub, pubSeq, portVars, lock, refusals>>

\* stage_frame: a picture that has not been seen, copied under the lock.
StageTop ==
  /\ scanner = "open" /\ pubSeq # seenSeq
  /\ lock = "free" /\ lock' = "scanner"
  /\ scanner' = "staging"
  /\ stage' = [stage EXCEPT ![1] = pub[1]]
  /\ UNCHANGED <<camMode, memory, cancel, seenSeq, luma, waited, opens, threadVars, portVars, refusals>>

\* The grey picture of the frame before is no longer the picture.
\* Mutant: it is still taken for it.
InvalidatedNot == luma
Invalidated    == NoPicture
StageRest ==
  /\ scanner = "staging" /\ scanner' = "open"
  /\ lock' = "free"
  /\ stage' = [stage EXCEPT ![2] = pub[2]]
  /\ seenSeq' = pubSeq
  /\ luma' = Invalidated
  /\ UNCHANGED <<camMode, memory, cancel, waited, opens, threadVars, portVars, refusals>>

\* apad3ds_cam_luma: what the decoder reads.
Luma ==
  /\ scanner = "open" /\ seenSeq # 0 /\ luma = NoPicture
  /\ luma' = stage
  /\ UNCHANGED <<scanner, camMode, memory, cancel, stage, seenSeq, waited, opens, threadVars, portVars, lock, refusals>>

\* Time, while start() has not returned.
Waits ==
  /\ scanner \in {"starting", "joining"} /\ waited <= ReadyCap
  /\ waited' = waited + 1
  /\ UNCHANGED <<scanner, camMode, memory, cancel, stage, seenSeq, luma, opens, threadVars, portVars, lock, refusals>>

-----------------------------------------------------------------------------
CameraInit ==
  /\ scanner = "closed" /\ camMode \in {"G", "H"}
  /\ thread = "none" /\ memory = FALSE /\ cancel = FALSE
  /\ receive = "none" /\ bufferError = FALSE
  /\ port = Idle /\ loose = FALSE
  /\ cur = 0 /\ full = 0 /\ dma = [b \in {0, 1} |-> Blank]
  /\ pub = Blank /\ pubSeq = 0 /\ stage = Blank /\ seenSeq = 0
  /\ luma = NoPicture /\ lock = "free"
  /\ waited = 0 /\ transfers = 0 /\ refusals = 0 /\ opens = 0

CameraNext ==
  \/ Fills \/ Overflows \/ Settles \/ ThreadStep
  \/ Start \/ Ready \/ TimesOut \/ Stop \/ Joined \/ StageTop \/ StageRest \/ Luma \/ Waits

CameraSpec == CameraInit /\ [][CameraNext]_cameraVars

-----------------------------------------------------------------------------
(* Properties *)

\* The decoder and the panel are shown whole pictures of one transfer each,
\* however the port, the thread and the screen overlap; the decoder reads the
\* picture on the panel; and nothing writes into memory that has been given
\* back, but for a transfer CAMU_IsBusy would not tell of
\* (camera_3ds.c publish, stage_frame, cam_tear_down, free_buffers).
FramesAreWhole ==
  /\ scanner = "open" => /\ stage[1] = stage[2]
                        /\ luma \in {NoPicture, stage}
  /\ ~memory => (port.capturing => loose) /\ receive = "none" /\ thread = "none"

\* "A five-second cap on bring-up, so a hung camera service is a reported
\* failure rather than a frozen app" (camera_3ds.c, deviation 9).
HungCameraReported == waited > ReadyCap => ~(scanner = "joining" /\ thread = "bringup")
=============================================================================
