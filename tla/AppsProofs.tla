----------------------------- MODULE AppsProofs ------------------------------
(***************************************************************************)
(* Proofs about the programs at the client's end: the pictures of the 3DS's *)
(* camera, for any number of transfers, refusals and restarts; and, on the  *)
(* phone, which thread pumps, what the Bluetooth host holds down, and whose *)
(* session is on the screen, for any number of session threads and any set  *)
(* of facilities.                                                          *)
(***************************************************************************)
EXTENDS Camera3ds, Phone, TLAPS

-----------------------------------------------------------------------------
(* The camera.                                                              *)

Picture == [1..2 -> Nat]
Whole(picture) == picture[1] = picture[2]

CameraType ==
  /\ scanner \in {"closed", "starting", "open", "staging", "joining"}
  /\ thread \in {"none", "bringup", "failing", "failed", "loop", "publish", "publishing", "arm",
                 "stopping", "done"}
  /\ camMode \in {"G", "H"} /\ memory \in BOOLEAN
  /\ receive \in {"none", "armed", "signalled"}
  /\ port \in [capturing : BOOLEAN, half : 0..1] /\ loose \in BOOLEAN
  /\ cur \in 0..1 /\ full \in 0..1 /\ transfers \in Nat
  /\ dma \in [0..1 -> Picture] /\ pub \in Picture /\ stage \in Picture

\* Memory, thread and screen come and go together, and a thread that is not
\* capturing has left nothing behind that would but what it stopped asking for.
Lifetimes ==
  /\ memory <=> scanner # "closed"
  /\ memory <=> thread # "none"
  /\ thread \in {"none", "bringup", "failed", "done"} => receive = "none"
  /\ port.capturing => loose \/ thread \notin {"none", "bringup", "failing", "failed", "done"}
  /\ loose => thread \in {"none", "bringup", "failing", "failed", "done"}
  /\ ~port.capturing \/ loose => port.half = 0

\* The buffer the port is half-way through carries this transfer's number; one
\* it has signalled is whole.
PortInv ==
  /\ port.half = 1 => receive = "armed" /\ dma[cur][1] = transfers
  /\ receive = "signalled" => Whole(dma[cur])

\* A buffer that is copied is whole, and the port is armed with no buffer, or,
\* in mode H, with the other one.
PublishInv ==
  /\ thread \in {"publish", "publishing"} =>
       /\ Whole(dma[full])
       /\ receive # "none" => cur # full
       /\ camMode = "G" => receive = "none"
  /\ thread = "arm" => receive = "none"

\* The lock: nobody copies out of the published picture while it is copied into.
LockInv ==
  /\ lock = "thread" <=> thread = "publishing"
  /\ lock = "scanner" <=> scanner = "staging"
  /\ IF thread = "publishing" THEN pub[1] = dma[full][1] ELSE Whole(pub)
  /\ IF scanner = "staging" THEN stage[1] = pub[1]
                            ELSE Whole(stage) /\ luma \in {NoPicture, stage}
  /\ scanner = "closed" => luma = NoPicture

CameraInv == CameraType /\ Lifetimes /\ PortInv /\ PublishInv /\ LockInv

LEMMA BlankIsWhole == Blank \in Picture /\ Whole(Blank)
BY DEF Blank, Picture, Whole

LEMMA CameraInitially == ASSUME CameraInit PROVE CameraInv
<1> USE BlankIsWhole DEF CameraInit, Idle
<1>1. dma \in [0..1 -> Picture]
  OBVIOUS
<1>2. port \in [capturing : BOOLEAN, half : 0..1]
  OBVIOUS
<1>3. CameraType
  BY <1>1, <1>2 DEF CameraType
<1>4. Lifetimes /\ PortInv /\ PublishInv
  BY DEF Lifetimes, PortInv, PublishInv
<1>5. LockInv
  BY DEF LockInv, Whole
<1> QED
  BY <1>3, <1>4, <1>5 DEF CameraInv

\* The port writes one half, signals after the second, or stops.
LEMMA PortKeepsCamera ==
  ASSUME CameraInv, Fills \/ Overflows \/ Settles
  PROVE  CameraInv'
<1> USE DEF CameraInv, CameraType, Lifetimes, PortInv, PublishInv, LockInv, Picture, Whole,
            screenVars, NoPicture
<1>1. CASE Fills
  <2> DEFINE half == port.half
             number == IF half = 0 THEN transfers + 1 ELSE transfers
  <2>1. half \in 0..1 /\ number \in Nat /\ cur \in 0..1
    OBVIOUS
  <2>2. dma' = [dma EXCEPT ![cur][half + 1] = number] /\ transfers' = number
    BY <1>1 DEF Fills
  <2>3. port'.capturing /\ port'.half = 1 - half /\ port' \in [capturing : BOOLEAN, half : 0..1]
    BY <1>1, <2>1 DEF Fills
  <2>4. receive' = (IF half = 1 THEN "signalled" ELSE receive) /\ receive = "armed"
    BY <1>1 DEF Fills
  <2>5. dma' \in [0..1 -> Picture]
    BY <2>1, <2>2
  <2>6. half = 0 => dma'[cur][1] = number
    BY <2>1, <2>2
  <2>7. half = 1 => Whole(dma'[cur])
    BY <2>1, <2>2
  <2>8. \A b \in 0..1 : b # cur => dma'[b] = dma[b]
    BY <2>1, <2>2
  <2>9. thread \in {"publish", "publishing"} => cur # full
    BY <2>4
  <2> QED
    BY <1>1, <2>1, <2>2, <2>3, <2>4, <2>5, <2>6, <2>7, <2>8, <2>9 DEF Fills
<1>2. CASE Overflows
  BY <1>2 DEF Overflows, Idle
<1>3. CASE Settles
  BY <1>3 DEF Settles, Idle, threadVars
<1> QED
  BY <1>1, <1>2, <1>3

\* The capture thread copies before it arms, or into the other buffer.
LEMMA ThreadKeepsCamera ==
  ASSUME CameraInv, ThreadStep
  PROVE  CameraInv'
<1> USE DEF CameraInv, CameraType, Lifetimes, PortInv, PublishInv, LockInv, Picture, Whole,
            screenVars, portVars, NoPicture, Steps
<1> DEFINE kept == UNCHANGED <<bufferError, cur, full, pub, pubSeq, screenVars, dma, transfers, lock>>
<1>1. CASE BringUp /\ kept
  <2>1. thread = "bringup" /\ receive = "none" /\ (port.capturing => loose) /\ port.half = 0
    BY <1>1 DEF BringUp
  <2>2. \/ /\ thread' = "loop" /\ receive' = "armed"
           /\ port' = [capturing |-> TRUE, half |-> 0] /\ loose' = FALSE
        \/ thread' = "failing" /\ receive' \in {"none", "armed"} /\ UNCHANGED <<port, loose>>
    BY <1>1 DEF BringUp
  <2>3. CASE thread' = "loop"
    <3>1. receive' = "armed" /\ port' = [capturing |-> TRUE, half |-> 0] /\ loose' = FALSE
      BY <2>2, <2>3
    <3>2. port'.capturing /\ port'.half = 0 /\ port' \in [capturing : BOOLEAN, half : 0..1]
      BY <3>1
    <3>3. UNCHANGED <<scanner, camMode, memory, stage, luma, cur, full, pub, dma, transfers, lock>>
      BY <1>1
    <3> HIDE <1>1
    <3> QED
      BY <2>1, <2>3, <3>1, <3>2, <3>3
  <2>4. CASE thread' = "failing"
    <3>1. receive' = "none" \/ receive' = "armed"
      BY <2>2, <2>4
    <3>2. UNCHANGED <<port, loose>>
      BY <2>2, <2>4
    <3>3. CameraType'
      BY <1>1, <2>4, <3>1, <3>2
    <3>4. Lifetimes'
      BY <1>1, <2>1, <2>4, <3>1, <3>2
    <3> QED
      BY <1>1, <2>1, <2>4, <3>1, <3>2, <3>3, <3>4
  <2> QED
    BY <2>2, <2>3, <2>4
<1>2. CASE Cancelled /\ kept
  BY <1>2 DEF Cancelled
<1>3. CASE Retries /\ kept
  BY <1>3 DEF Retries, ArmReceive
<1>4. CASE Received
  <2>1. cur \in 0..1 /\ cur' = Flip(cur) /\ full' = cur
    BY <1>4 DEF Received
  <2>2. cur' \in 0..1 /\ (camMode = "H" => cur' # full')
    BY <2>1 DEF Flip
  <2> QED
    BY <1>4, <2>1, <2>2 DEF Received, ArmReceive
<1>5. CASE PublishTop
  BY <1>5 DEF PublishTop
<1>6. CASE PublishRest
  BY <1>6 DEF PublishRest
<1>7. CASE ArmsAgain
  BY <1>7 DEF ArmsAgain, ArmReceive
<1>8. CASE Recovers
  BY <1>8 DEF Recovers, ArmReceive
<1>9. CASE TearDown
  <2>1. /\ thread \in {"stopping", "failing"} /\ thread' \in {"done", "failed"}
        /\ receive' = "none"
        /\ UNCHANGED <<cur, full, pub, scanner, camMode, memory, stage, luma, dma, transfers, lock>>
    BY <1>9 DEF TearDown
  <2>2. /\ port' \in [capturing : BOOLEAN, half : 0..1] /\ port'.half = 0
        /\ loose' \in BOOLEAN /\ (port'.capturing => loose')
    <3>1. CASE Drains
      <4>1. port' = Idle /\ loose' = FALSE
        BY <3>1 DEF Drains
      <4>2. port'.capturing = FALSE /\ port'.half = 0
        BY <4>1 DEF Idle
      <4>3. port' \in [capturing : BOOLEAN, half : 0..1]
        BY ONLY <4>1 DEF Idle
      <4> QED
        BY ONLY <4>1, <4>2, <4>3
    <3>2. CASE StopsAsking
      <4>1. port' = [port EXCEPT !.half = 0] /\ loose' = port.capturing
        BY <3>2 DEF StopsAsking
      <4> HIDE <1>9, <3>2
      <4>2. port'.half = 0 /\ port'.capturing = port.capturing
        BY <4>1
      <4>3. port' \in [capturing : BOOLEAN, half : 0..1] /\ loose' \in BOOLEAN
        BY <4>1
      <4> QED
        BY <4>1, <4>2, <4>3
    <3> QED
      BY <1>9, <3>1, <3>2 DEF TearDown
  <2> HIDE <1>9
  <2> QED
    BY <2>1, <2>2
<1> QED
  BY <1>1, <1>2, <1>3, <1>4, <1>5, <1>6, <1>7, <1>8, <1>9 DEF ThreadStep

\* The screen gives the memory back after the thread has ended, and copies
\* under the lock.
LEMMA ScreenKeepsCamera ==
  ASSUME CameraInv,
         Start \/ Ready \/ TimesOut \/ Stop \/ Joined \/ StageTop \/ StageRest \/ Luma \/ Waits
  PROVE  CameraInv'
<1> USE DEF CameraInv, CameraType, Lifetimes, PortInv, PublishInv, LockInv, Picture, Whole,
            threadVars, portVars, NoPicture
<1>1. CASE Start
  <2>1. /\ scanner = "closed" /\ thread = "none" /\ receive = "none"
        /\ (port.capturing => loose) /\ port.half = 0
    BY <1>1 DEF Start
  <2>2. UNCHANGED <<camMode, receive, full, luma, port, loose, transfers, lock>>
    BY <1>1 DEF Start
  <2>3. CASE UNCHANGED <<scanner, memory, thread, pub, stage, cur, dma>>
    BY <2>1, <2>2, <2>3
  <2>4. CASE /\ scanner' = "starting" /\ memory' = TRUE /\ thread' = "bringup"
             /\ pub' = Blank /\ stage' = Blank /\ cur' = 0 /\ dma' = [b \in {0, 1} |-> Blank]
    <3>1. dma' \in [0..1 -> Picture]
      BY <2>4, BlankIsWhole
    <3>2. CameraType' /\ Lifetimes'
      BY <2>1, <2>2, <2>4, <3>1, BlankIsWhole
    <3>3. PortInv' /\ PublishInv'
      BY <2>1, <2>2, <2>4
    <3>4. LockInv'
      BY <2>1, <2>2, <2>4, BlankIsWhole
    <3> QED
      BY <3>2, <3>3, <3>4
  <2> QED
    BY <1>1, <2>3, <2>4 DEF Start
<1>2. CASE Ready
  BY <1>2 DEF Ready
<1>3. CASE TimesOut
  BY <1>3 DEF TimesOut
<1>4. CASE Stop
  BY <1>4 DEF Stop
<1>5. CASE Joined
  BY <1>5 DEF Joined
<1>6. CASE StageTop
  BY <1>6 DEF StageTop
<1>7. CASE StageRest
  BY <1>7 DEF StageRest, Invalidated
<1>8. CASE Luma
  BY <1>8 DEF Luma
<1>9. CASE Waits
  BY <1>9 DEF Waits
<1> QED
  BY <1>1, <1>2, <1>3, <1>4, <1>5, <1>6, <1>7, <1>8, <1>9

LEMMA CameraUnchanged == CameraInv /\ UNCHANGED cameraVars => CameraInv'
BY DEF CameraInv, CameraType, Lifetimes, PortInv, PublishInv, LockInv, cameraVars, threadVars,
       screenVars, portVars

\* Whatever the port, the capture thread and the screen do, and in which order
\* they do it, the pictures on the panel and before the decoder are whole, and
\* memory that has been given back has no writer but a transfer CAMU_IsBusy
\* would not tell of (camera_3ds.c publish, stage_frame, cam_tear_down,
\* free_buffers).
THEOREM CameraShowsWholePictures == CameraSpec => []FramesAreWhole
<1>1. CameraInv /\ [CameraNext]_cameraVars => CameraInv'
  BY PortKeepsCamera, ThreadKeepsCamera, ScreenKeepsCamera, CameraUnchanged DEF CameraNext
<1>2. CameraInv => FramesAreWhole
  BY DEF CameraInv, CameraType, Lifetimes, LockInv, FramesAreWhole, Whole, NoPicture
<1> QED
  BY <1>1, <1>2, CameraInitially, PTL DEF CameraSpec

-----------------------------------------------------------------------------
(* The phone.                                                               *)

ThreadsType ==
  /\ threads \in [SessionThreads ->
       [at : {"NONE", "CREATE", "PROBE", "CONNECT", "PUMP", "FINALLY"}, interrupted : BOOLEAN]]
  /\ service \in [running : BOOLEAN, thread : SessionThreads \cup {NoThread},
                  status : {"IDLE", "HANDSHAKING", "ACTIVE", "CLOSED"}, locks : BOOLEAN]
  /\ joining \in {"NONE", "START", "STOP"}

\* A thread that has not been told to stop is the service's own, and nobody
\* waits for it.
ThreadsInv ==
  /\ ThreadsType
  /\ \A t \in SessionThreads :
       threads[t].at # "NONE" /\ ~threads[t].interrupted => t = service.thread /\ joining = "NONE"

UiType ==
  [mode : Modes, open : {"NONE", "UDP", "BT"}, screen : Screens, panel : Panels,
   resumed : BOOLEAN, dialog : BOOLEAN, permitted : BOOLEAN, asked : BOOLEAN,
   known : BOOLEAN, button : BOOLEAN, wanted : BOOLEAN, pairing : BOOLEAN]

BluetoothType ==
  /\ bt \in [registered : BOOLEAN, connected : BOOLEAN, boot : BOOLEAN, streaming : BOOLEAN,
             last_idle : BOOLEAN, status : BOOLEAN]
  /\ stream \in [at : {"NONE", "TOP", "SEND", "PUBLISH"},
                 reports : UNION {[D -> BOOLEAN] : D \in SUBSET AppFacilities}, copied : BOOLEAN]
  /\ btkbm \in SnapshotType
  /\ host \in [AppFacilities -> BOOLEAN]
  /\ stray \in Nat

Statuses ==
  [from : {"UDP"}, status : {"IDLE", "HANDSHAKING", "ACTIVE", "CLOSED"}]
  \cup [from : {"BT"}, status : BOOLEAN]

PostedType == posted \in Seq(Statuses)

\* A report read but not sent yet: what it holds down is still live, and what
\* nothing else will lift, it lifts.
Due(f) ==
  /\ stream.at = "SEND" /\ f \in DOMAIN stream.reports /\ stream.reports[f] => f \in Have(btkbm)
  /\ host[f] /\ f \notin Have(btkbm) =>
       stream.at = "SEND" /\ f \in DOMAIN stream.reports /\ ~stream.reports[f]
  /\ f = "MOUSE" /\ host[f] => ~bt.last_idle

BluetoothInv ==
  /\ BluetoothType /\ ui \in UiType
  /\ ~bt.connected => host = Released
  /\ ActivityFollowsMode
  /\ \A f \in AppFacilities : ~btkbm[f].active => ~btkbm[f].held
  /\ stray = 0 => \A f \in AppFacilities : Due(f)


-----------------------------------------------------------------------------
(* Which thread pumps.                                                      *)

LEMMA ServiceInitially == ASSUME ServiceInit PROVE ThreadsInv
BY DEF ServiceInit, ThreadsInv, ThreadsType

\* Every stop interrupts the service's own thread, so that the next one starts
\* when no other is left that would go on.
LEMMA ServiceKeepsThreads ==
  ASSUME ThreadsInv,
         ConnectTo \/ Disconnects \/ Stopped \/ Started \/ \E t \in SessionThreads : SessionThread(t)
  PROVE  ThreadsInv'
<1> USE DEF ThreadsInv, ThreadsType
<1>1. CASE ConnectTo \/ Disconnects
  <2>1. service' = [service EXCEPT !.running = FALSE] /\ threads' = Interrupted(service.thread)
    BY <1>1 DEF ConnectTo, Disconnects, StopSession
  <2>2. joining' \in {"START", "STOP"}
    BY <1>1 DEF ConnectTo, Disconnects, StopSession
  <2>3. CASE service.thread = NoThread
    BY <2>1, <2>2, <2>3, PadServiceAssumption DEF Interrupted
  <2>4. CASE service.thread \in SessionThreads
    <3>1. threads' = [threads EXCEPT ![service.thread].interrupted = TRUE]
      BY <2>1, <2>4, PadServiceAssumption DEF Interrupted
    <3>2. \A t \in SessionThreads : threads'[t].at = threads[t].at
      BY <2>4, <3>1
    <3>3. \A t \in SessionThreads :
            threads'[t].interrupted = (threads[t].interrupted \/ t = service.thread)
      BY <2>4, <3>1
    <3>4. threads' \in [SessionThreads ->
            [at : {"NONE", "CREATE", "PROBE", "CONNECT", "PUMP", "FINALLY"}, interrupted : BOOLEAN]]
      BY <2>4, <3>1
    <3>5. service'.thread = service.thread /\ ThreadsType'
      BY <2>1, <2>2, <3>4
    <3> QED
      BY <2>2, <3>2, <3>3, <3>5
  <2> QED
    BY <2>3, <2>4
<1>2. CASE Stopped
  BY <1>2, PadServiceAssumption DEF Stopped
<1>3. CASE Started
  <2>1. PICK t \in SessionThreads :
          /\ threads' = [threads EXCEPT ![t] = [at |-> "CREATE", interrupted |-> FALSE]]
          /\ service' = [service EXCEPT !.thread = t, !.locks = TRUE, !.running = TRUE]
    BY <1>3 DEF Started
  <2> QED
    BY <1>3, <2>1 DEF Started
<1>4. CASE \E t \in SessionThreads : SessionThread(t)
  <2>1. PICK t \in SessionThreads : SessionThread(t)
    BY <1>4
  <2>2. joining' = joining
    BY <2>1 DEF SessionThread, CreateFails, Creates, GivesUp, Probed, Connects, Pumps, LeavesLoop,
                Finally
  <2>3. service'.thread = service.thread /\ service' \in
          [running : BOOLEAN, thread : SessionThreads \cup {NoThread},
           status : {"IDLE", "HANDSHAKING", "ACTIVE", "CLOSED"}, locks : BOOLEAN]
    BY <2>1 DEF SessionThread, CreateFails, Creates, GivesUp, Probed, Connects, Pumps, LeavesLoop,
                Finally, Publish
  <2>4. \/ threads' = threads
        \/ /\ threads[t].at # "NONE"
           /\ \E to \in {"NONE", "PROBE", "CONNECT", "PUMP", "FINALLY"} :
                threads' = [threads EXCEPT ![t].at = to]
    BY <2>1 DEF SessionThread, CreateFails, Creates, GivesUp, Probed, Connects, Pumps, LeavesLoop,
                Finally, Goes, At
  <2> QED
    BY <2>1, <2>2, <2>3, <2>4
<1> QED
  BY <1>1, <1>2, <1>3, <1>4

LEMMA ServiceUnchanged == ASSUME ThreadsInv, UNCHANGED serviceVars PROVE ThreadsInv'
BY DEF ThreadsInv, ThreadsType, serviceVars

\* Only the thread of the session that was started last ever pumps, whatever
\* number of earlier ones are still stuck in a native call (sessionLoop,
\* AtticPadService.kt 349-493).
THEOREM OnlyTheLastPumps == Spec => []OnePump
<1>1. Init => ThreadsInv
  BY ServiceInitially DEF Init
<1>2. ThreadsInv /\ [Next]_vars => ThreadsInv'
  <2> SUFFICES ASSUME ThreadsInv, [Next]_vars PROVE ThreadsInv'
    OBVIOUS
  <2>1. CASE RunsPosted
    BY <2>1, ServiceUnchanged DEF RunsPosted, serviceVars
  <2>2. CASE User
    BY <2>2, ServiceUnchanged
       DEF User, UsesBluetooth, UsesNetwork, OpensBtSession, LeavesBtSession, SelectMode, Touches,
           Pairs, BondResolves, Permits, PermissionsAnswered, Pauses, Resumes, OnMain, serviceVars
  <2>3. CASE Service
    BY <2>3, ServiceKeepsThreads DEF Service
  <2>4. CASE Bluetooth
    BY <2>4, ServiceUnchanged DEF Bluetooth, serviceVars
  <2>5. CASE UNCHANGED vars
    BY <2>5, ServiceUnchanged DEF vars, serviceVars
  <2> QED
    BY <2>1, <2>2, <2>3, <2>4, <2>5 DEF Next
<1>3. ThreadsInv => OnePump
  BY DEF ThreadsInv, ThreadsType, OnePump, At, LoopsOn
<1> QED
  BY <1>1, <1>2, <1>3, PTL DEF Spec

-----------------------------------------------------------------------------
(* What a handler of the main thread does to p = [ui, kbm]: the Bluetooth   *)
(* facilities keep following the screen, none that a report is due for is   *)
(* dropped, and no session gives way to the other transport's.              *)

Shown == [ui : UiType, kbm : SnapshotType]

Follows(p) ==
  /\ p \in Shown
  /\ \A f \in AppFacilities : p.kbm[f].active <=> p.ui.open = "BT" /\ f \in ActiveIn(p.ui.mode)
  /\ \A f \in AppFacilities : ~p.kbm[f].active => ~p.kbm[f].held

Handles(p, q) ==
  /\ Follows(q)
  /\ Have(p.kbm) \subseteq Have(q.kbm)
  /\ ~(p.ui.open = "UDP" /\ q.ui.open = "BT") /\ ~(p.ui.open = "BT" /\ q.ui.open = "UDP")

\* A facility that is left asks for one more report, and lets go.
LEMMA ActivityApplied ==
  ASSUME NEW k \in SnapshotType, NEW mode \in Modes,
         \A f \in AppFacilities : ~k[f].active => ~k[f].held
  PROVE  /\ ApplyKbmActivity(k, mode) \in SnapshotType
         /\ \A f \in AppFacilities :
              /\ ApplyKbmActivity(k, mode)[f].active <=> f \in ActiveIn(mode)
              /\ ~ApplyKbmActivity(k, mode)[f].active => ~ApplyKbmActivity(k, mode)[f].held
         /\ Have(k) \subseteq Have(ApplyKbmActivity(k, mode))
<1> DEFINE a == ApplyKbmActivity(k, mode)
<1>1. \A f \in AppFacilities : a[f] = SetActive(k[f], f \in ActiveIn(mode))
  BY DEF ApplyKbmActivity
<1>2. \A s \in [active : BOOLEAN, needs_clear : BOOLEAN, held : BOOLEAN], b \in BOOLEAN :
        (~s.active => ~s.held) =>
          /\ SetActive(s, b) \in [active : BOOLEAN, needs_clear : BOOLEAN, held : BOOLEAN]
          /\ SetActive(s, b).active = b
          /\ ~b => ~SetActive(s, b).held
          /\ s.active \/ s.needs_clear => b \/ SetActive(s, b).needs_clear
  BY DEF SetActive
<1>3. \A f \in AppFacilities :
        k[f] \in [active : BOOLEAN, needs_clear : BOOLEAN, held : BOOLEAN]
  BY DEF SnapshotType
<1>4. \A f \in AppFacilities : (f \in ActiveIn(mode)) \in BOOLEAN
  OBVIOUS
<1>5. \A f \in AppFacilities :
        /\ a[f] \in [active : BOOLEAN, needs_clear : BOOLEAN, held : BOOLEAN]
        /\ a[f].active <=> f \in ActiveIn(mode)
        /\ ~a[f].active => ~a[f].held
        /\ k[f].active \/ k[f].needs_clear => a[f].active \/ a[f].needs_clear
  <2> HIDE DEF a
  <2> TAKE f \in AppFacilities
  <2>1. PICK b \in BOOLEAN : b = (f \in ActiveIn(mode))
    BY <1>4
  <2>2. a[f] = SetActive(k[f], b)
    BY <1>1, <2>1
  <2>3. k[f] \in [active : BOOLEAN, needs_clear : BOOLEAN, held : BOOLEAN]
    BY <1>3
  <2>4. ~k[f].active => ~k[f].held
    OBVIOUS
  <2>5. /\ a[f] \in [active : BOOLEAN, needs_clear : BOOLEAN, held : BOOLEAN]
        /\ a[f].active = b
        /\ ~b => ~a[f].held
        /\ k[f].active \/ k[f].needs_clear => b \/ a[f].needs_clear
    BY <1>2, <2>2, <2>3, <2>4
  <2> QED
    BY <2>1, <2>5
<1>6. a \in SnapshotType
  BY <1>5 DEF SnapshotType, ApplyKbmActivity
<1> QED
  BY <1>5, <1>6 DEF Have

\* What changes neither the session, nor the mode, nor the snapshot.
LEMMA UiHandled ==
  ASSUME NEW p, Follows(p), NEW q \in Shown,
         q.kbm = p.kbm, q.ui.open = p.ui.open, q.ui.mode = p.ui.mode
  PROVE  Handles(p, q)
BY DEF Follows, Handles

LEMMA SessionEntered ==
  ASSUME NEW p, Follows(p), NEW transport \in {"UDP", "BT"},
         p.ui.open \in IF transport = "UDP" THEN {"NONE", "UDP"} ELSE {"NONE"}
  PROVE  Handles(p, EnterSession(p, transport))
<1> DEFINE e == [p EXCEPT !.ui.open = transport, !.ui.wanted = FALSE]
<1>1. e \in Shown /\ e.kbm = p.kbm /\ e.ui.open = transport /\ e.ui.mode = p.ui.mode
  BY DEF Follows, Shown, UiType
<1>2. p.ui.mode \in Modes /\ p.kbm \in SnapshotType /\ p.ui.open # "BT"
  BY DEF Follows, Shown, UiType
<1>3. CASE transport = "UDP"
  <2>1. EnterSession(p, transport) = e
    BY <1>1, <1>3 DEF EnterSession, WithActivity
  <2> HIDE DEF e
  <2> QED
    BY <2>1, <1>1, <1>2, <1>3 DEF Follows, Handles
<1>4. CASE transport = "BT"
  <2>1. EnterSession(p, transport) = [e EXCEPT !.kbm = ApplyKbmActivity(@, e.ui.mode)]
    BY <1>1, <1>4 DEF EnterSession, WithActivity
  <2> HIDE DEF e
  <2> DEFINE q == EnterSession(p, transport)
  <2>2. q.kbm = ApplyKbmActivity(p.kbm, p.ui.mode) /\ q.ui = e.ui
    BY <2>1, <1>1 DEF Shown
  <2>3. ApplyKbmActivity(p.kbm, p.ui.mode) \in SnapshotType
    BY <1>2, ActivityApplied DEF Follows
  <2>4. q \in Shown
    BY <2>1, <2>3, <1>1 DEF Shown
  <2> HIDE DEF q
  <2>5. Handles(p, q)
    BY <2>2, <2>4, <1>1, <1>2, <1>4, ActivityApplied DEF Follows, Handles
  <2> QED
    BY <2>5 DEF q
<1> QED
  BY <1>3, <1>4

\* exitSession and what follows it: the facilities are let go of while the
\* session is still open.
LEMMA SessionExited ==
  ASSUME NEW p, Follows(p)
  PROVE  Handles(p, ExitSession(p)) /\ ExitSession(p).ui.open = "NONE"
<1> DEFINE e == [p EXCEPT !.ui.mode = "PAD"]
           w == WithActivity(e)
           q == ExitSession(p)
<1>1. e \in Shown /\ e.kbm = p.kbm /\ e.ui.open = p.ui.open /\ e.ui.mode = "PAD" /\ "PAD" \in Modes
  BY DEF Follows, Shown, UiType, Modes
<1>2. w \in Shown /\ w.ui = e.ui
      /\ w.kbm = IF p.ui.open = "BT" THEN ApplyKbmActivity(p.kbm, "PAD") ELSE p.kbm
  <2>1. p.kbm \in SnapshotType /\ ApplyKbmActivity(p.kbm, "PAD") \in SnapshotType
    BY <1>1, ActivityApplied DEF Follows, Shown
  <2> HIDE DEF e
  <2> QED
    BY <1>1, <2>1 DEF WithActivity, Shown
<1>3. q = [w EXCEPT !.ui.open = "NONE"]
  BY DEF ExitSession
<1> HIDE DEF e, w
<1>4. q \in Shown /\ q.kbm = w.kbm /\ q.ui.open = "NONE" /\ q.ui.mode = "PAD"
  BY <1>1, <1>2, <1>3 DEF Shown, UiType
<1> HIDE DEF q
<1>5. ActiveIn("PAD") = {}
  BY DEF ActiveIn
<1>6. p.kbm \in SnapshotType
  BY DEF Follows, Shown
<1>7. Handles(p, q)
  BY <1>1, <1>2, <1>4, <1>5, <1>6, ActivityApplied DEF Follows, Handles
<1> QED
  BY <1>4, <1>7 DEF q

LEMMA PermissionHandled ==
  ASSUME NEW p, Follows(p)
  PROVE  Handles(p, PermissionStep(p))
<1>1. PermissionStep(p) \in Shown
  BY DEF Follows, Shown, UiType, PermissionStep, Panels
<1>2. /\ PermissionStep(p).kbm = p.kbm /\ PermissionStep(p).ui.open = p.ui.open
      /\ PermissionStep(p).ui.mode = p.ui.mode
  BY DEF Follows, Shown, UiType, PermissionStep
<1> QED
  BY <1>1, <1>2, UiHandled

LEMMA SetupHandled ==
  ASSUME NEW p, Follows(p)
  PROVE  Handles(p, BtSetupScreen(p)) /\ BtSetupScreen(p).ui.open = p.ui.open
<1> DEFINE e == [p EXCEPT !.ui.screen = "BLUETOOTH", !.ui.dialog = ~p.ui.permitted,
                          !.ui.resumed = @ /\ p.ui.permitted]
<1>1. e \in Shown /\ e.kbm = p.kbm /\ e.ui.open = p.ui.open /\ e.ui.mode = p.ui.mode
  BY DEF Follows, Shown, UiType, Screens
<1>2. BtSetupScreen(p) = PermissionStep(e)
  BY DEF BtSetupScreen
<1> HIDE DEF e
<1>3. Handles(p, e)
  BY <1>1, UiHandled
<1>4. Handles(e, PermissionStep(e))
  BY <1>3, PermissionHandled DEF Handles
<1>5. PermissionStep(e).ui.open = e.ui.open
  BY <1>1 DEF PermissionStep, Shown, UiType
<1> QED
  BY <1>1, <1>2, <1>3, <1>4, <1>5 DEF Handles

LEMMA CloseHandled ==
  ASSUME NEW p, Follows(p)
  PROVE  Handles(p, CloseBtSession(p))
<1>1. Handles(p, ExitSession(p)) /\ ExitSession(p).ui.open = "NONE"
  BY SessionExited
<1>2. Handles(ExitSession(p), CloseBtSession(p)) /\ CloseBtSession(p).ui.open = "NONE"
  BY <1>1, SetupHandled DEF Handles, CloseBtSession
<1> QED
  BY <1>1, <1>2 DEF Handles

-----------------------------------------------------------------------------
(* The main thread.                                                         *)

MainHandles ==
  \E q : Handles(Phone, q) /\ Becomes(q) /\ UNCHANGED <<bt, stream, host, stray>>

LEMMA PhoneFollows ==
  ASSUME BluetoothInv
  PROVE  /\ Follows(Phone) /\ Phone.ui = ui /\ Phone.kbm = btkbm
         /\ ui.open \in {"NONE", "UDP", "BT"} /\ ui.mode \in Modes
BY DEF BluetoothInv, BluetoothType, ActivityFollowsMode, Follows, Phone, Shown, UiType

\* The callbacks: a session opens only where none of the other transport is.
LEMMA CallbackHandles ==
  ASSUME BluetoothInv, PostedType, RunsPosted
  PROVE  MainHandles /\ PostedType'
<1> USE PhoneFollows
<1>1. posted # <<>> /\ posted \in Seq(Statuses) /\ posted' = Tail(posted)
  BY DEF RunsPosted, PostedType
<1>2. Head(posted) \in Statuses /\ PostedType'
  BY <1>1 DEF PostedType
<1>3. UNCHANGED <<bt, stream, host, stray>>
  BY DEF RunsPosted
<1>4. CASE Head(posted).from = "UDP"
  <2> DEFINE state == Head(posted).status
             q == OnStatus(state)
  <2>1. Becomes(q)
    BY <1>4 DEF RunsPosted
  <2>2. Handles(Phone, Phone)
    BY UiHandled DEF Follows
  <2>3. MayEnter => Handles(Phone, EnterSession(Phone, "UDP"))
    BY SessionEntered DEF MayEnter
  <2>4. Handles(Phone, ExitSession(Phone))
    BY SessionExited
  <2>5. Handles(Phone, q)
    BY <2>2, <2>3, <2>4 DEF OnStatus
  <2> QED
    BY <1>2, <1>3, <2>1, <2>5 DEF MainHandles
<1>5. CASE Head(posted).from # "UDP"
  <2> DEFINE connected == Head(posted).status
             seen == [Phone EXCEPT !.ui.known = connected, !.ui.button = TRUE]
             q == OnBtStatus(connected)
  <2>1. Becomes(q) /\ connected \in BOOLEAN
    BY <1>2, <1>5 DEF RunsPosted, Statuses
  <2> HIDE DEF connected
  <2>2. seen \in Shown /\ seen.kbm = Phone.kbm /\ seen.ui.open = ui.open /\ seen.ui.mode = ui.mode
    BY <2>1 DEF Follows, Shown, UiType
  <2> HIDE DEF seen
  <2>3. Handles(Phone, seen) /\ Follows(seen)
    BY <2>2, UiHandled DEF Handles
  <2>4. ui.open = "NONE" => Handles(seen, EnterSession(seen, "BT"))
    BY <2>2, <2>3, SessionEntered
  <2>5. Handles(seen, CloseBtSession(seen))
    BY <2>3, CloseHandled
  <2>6. CASE connected /\ ~ui.known /\ ui.open = "NONE"
    <3>1. q = EnterSession(seen, "BT")
      BY <2>6 DEF OnBtStatus, seen
    <3>2. Handles(Phone, q)
      BY <2>2, <2>3, <2>4, <2>6, <3>1 DEF Handles
    <3> QED
      BY <1>2, <1>3, <2>1, <3>2 DEF MainHandles
  <2>7. CASE ~connected /\ ui.known /\ ui.open = "BT"
    <3>1. q = CloseBtSession(seen)
      BY <2>7 DEF OnBtStatus, seen
    <3>2. q.ui.open = "NONE"
      BY <2>3, <3>1, SessionExited, SetupHandled DEF Handles, CloseBtSession
    <3>3. Handles(Phone, q)
      BY <2>2, <2>3, <2>5, <3>1, <3>2 DEF Handles
    <3> QED
      BY <1>2, <1>3, <2>1, <3>3 DEF MainHandles
  <2>8. CASE ~(connected /\ ~ui.known /\ ui.open = "NONE") /\ ~(~connected /\ ui.known /\ ui.open = "BT")
    <3>1. q = seen
      BY <2>8 DEF OnBtStatus, seen
    <3> QED
      BY <1>2, <1>3, <2>1, <2>3, <3>1 DEF MainHandles
  <2> QED
    BY <2>6, <2>7, <2>8
<1> QED
  BY <1>4, <1>5

\* What the user and the system do.
LEMMA UserHandles ==
  ASSUME BluetoothInv, User
  PROVE  MainHandles /\ UNCHANGED posted
<1> USE PhoneFollows
<1>1. \A q : Handles(Phone, q) /\ OnMain(q) => MainHandles /\ UNCHANGED posted
  BY DEF OnMain, MainHandles, NothingPosted
<1>2. \A q \in Shown :
        q.kbm = btkbm /\ q.ui.open = ui.open /\ q.ui.mode = ui.mode => Handles(Phone, q)
  BY UiHandled
<1>3. \A q \in Shown :
        q.kbm = btkbm /\ q.ui.open = ui.open /\ q.ui.mode = ui.mode /\ OnMain(q) =>
          MainHandles /\ UNCHANGED posted
  BY <1>1, <1>2
<1>4. CASE UsesBluetooth
  BY <1>1, <1>4, SetupHandled DEF UsesBluetooth
<1>5. CASE UsesNetwork
  <2> DEFINE q == [Phone EXCEPT !.ui.screen = "UDP", !.ui.wanted = FALSE]
  <2>1. q \in Shown /\ q.kbm = btkbm /\ q.ui.open = ui.open /\ q.ui.mode = ui.mode
    BY DEF Follows, Shown, UiType, Screens
  <2>2. OnMain(q)
    BY <1>5 DEF UsesNetwork
  <2> QED
    BY <1>3, <2>1, <2>2
<1>6. CASE OpensBtSession
  <2>1. Handles(Phone, EnterSession(Phone, "BT"))
    BY <1>6, SessionEntered DEF OpensBtSession, OnPairingPanel, OnSetupScreen
  <2> QED
    BY <1>1, <1>6, <2>1 DEF OpensBtSession
<1>7. CASE LeavesBtSession
  BY <1>1, <1>7, CloseHandled DEF LeavesBtSession
<1>8. CASE SelectMode
  <2>1. PICK mode \in Modes : OnMain(WithActivity([Phone EXCEPT !.ui.mode = mode]))
    BY <1>8 DEF SelectMode
  <2> DEFINE e == [Phone EXCEPT !.ui.mode = mode]
             w == WithActivity(e)
  <2>2. e \in Shown /\ e.kbm = btkbm /\ e.ui.open = ui.open /\ e.ui.mode = mode
    BY DEF Follows, Shown, UiType
  <2> HIDE DEF e
  <2>3. CASE ui.open = "BT"
    <3>1. w = [e EXCEPT !.kbm = ApplyKbmActivity(@, mode)]
      BY <2>2, <2>3 DEF WithActivity
    <3>2. ApplyKbmActivity(btkbm, mode) \in SnapshotType
      BY ActivityApplied DEF Follows, Shown
    <3>3. w \in Shown /\ w.kbm = ApplyKbmActivity(btkbm, mode) /\ w.ui = e.ui
      BY <2>2, <3>1, <3>2 DEF Shown
    <3> HIDE DEF w
    <3>4. Handles(Phone, w)
      BY <2>2, <2>3, <3>3, ActivityApplied DEF Follows, Handles, Shown
    <3> QED
      BY <1>1, <2>1, <3>4 DEF w, e
  <2>4. CASE ui.open # "BT"
    <3>1. w = e
      BY <2>2, <2>4 DEF WithActivity
    <3>2. Handles(Phone, e)
      BY <2>2, <2>4 DEF Follows, Handles
    <3> QED
      BY <1>1, <2>1, <3>1, <3>2 DEF e
  <2> QED
    BY <2>3, <2>4
<1>9. CASE Touches
  <2>1. PICK f \in ActiveIn(ui.mode) \cap AppFacilities :
          OnMain([Phone EXCEPT !.kbm = Touched(@, f, ~btkbm[f].held)])
    BY <1>9 DEF Touches
  <2> DEFINE k == Touched(btkbm, f, ~btkbm[f].held)
             q == [Phone EXCEPT !.kbm = k]
  <2>2. btkbm \in SnapshotType /\ ui.open = "BT" /\ btkbm[f].active
    BY <1>9 DEF Follows, Shown, Touches
  <2>3. k \in SnapshotType
    BY <2>2 DEF Touched, SnapshotType
  <2>4. \A g \in AppFacilities :
          /\ k[g].active = btkbm[g].active /\ k[g].needs_clear = btkbm[g].needs_clear
          /\ g # f => k[g].held = btkbm[g].held
    BY <2>2 DEF Touched, SnapshotType
  <2>5. q \in Shown /\ q.kbm = k /\ q.ui = ui
    BY <2>3 DEF Follows, Shown, Phone
  <2>6. OnMain(q)
    BY <2>1 DEF Phone
  <2> HIDE DEF k, q
  <2>7. Handles(Phone, q)
    BY <2>2, <2>4, <2>5 DEF Follows, Handles, Have
  <2> QED
    BY <1>1, <2>6, <2>7
<1>10. CASE Pairs
  <2> DEFINE q == [Phone EXCEPT !.ui.wanted = FALSE, !.ui.pairing = TRUE]
  <2>1. q \in Shown /\ q.kbm = btkbm /\ q.ui.open = ui.open /\ q.ui.mode = ui.mode
    BY DEF Follows, Shown, UiType
  <2> QED
    BY <1>3, <1>10, <2>1 DEF Pairs
<1>11. CASE BondResolves
  <2>1. Bonded \in Shown /\ Bonded.kbm = btkbm /\ Bonded.ui.open = ui.open /\ Bonded.ui.mode = ui.mode
    BY DEF Follows, Shown, UiType, Bonded
  <2> QED
    BY <1>3, <1>11, <2>1 DEF BondResolves
<1>12. CASE Permits
  <2> DEFINE q == [Phone EXCEPT !.ui.permitted = TRUE]
  <2>1. q \in Shown /\ q.kbm = btkbm /\ q.ui.open = ui.open /\ q.ui.mode = ui.mode
    BY DEF Follows, Shown, UiType
  <2> QED
    BY <1>3, <1>12, <2>1 DEF Permits
<1>13. CASE PermissionsAnswered
  <2>1. PICK granted \in BOOLEAN :
          OnMain(PermissionStep([Phone EXCEPT !.ui.dialog = FALSE, !.ui.permitted = granted]))
    BY <1>13 DEF PermissionsAnswered
  <2> DEFINE e == [Phone EXCEPT !.ui.dialog = FALSE, !.ui.permitted = granted]
  <2>2. e \in Shown /\ e.kbm = btkbm /\ e.ui.open = ui.open /\ e.ui.mode = ui.mode
    BY DEF Follows, Shown, UiType
  <2> HIDE DEF e
  <2>3. Handles(Phone, e)
    BY <1>2, <2>2
  <2>4. Handles(e, PermissionStep(e))
    BY <2>3, PermissionHandled DEF Handles
  <2>5. Handles(Phone, PermissionStep(e))
    BY <2>2, <2>3, <2>4 DEF Handles
  <2> QED
    BY <1>1, <2>1, <2>5 DEF e
<1>14. CASE Pauses
  <2> DEFINE q == [Phone EXCEPT !.ui.resumed = FALSE, !.ui.wanted = FALSE]
  <2>1. q \in Shown /\ q.kbm = btkbm /\ q.ui.open = ui.open /\ q.ui.mode = ui.mode
    BY DEF Follows, Shown, UiType
  <2> QED
    BY <1>3, <1>14, <2>1 DEF Pauses
<1>15. CASE Resumes
  <2> DEFINE shown == [Phone EXCEPT !.ui.resumed = TRUE]
             asks == [shown EXCEPT !.ui.wanted = ui.permitted]
  <2>1. /\ shown \in Shown /\ shown.kbm = btkbm /\ shown.ui.open = ui.open /\ shown.ui.mode = ui.mode
        /\ asks \in Shown /\ asks.kbm = btkbm /\ asks.ui.open = ui.open /\ asks.ui.mode = ui.mode
    BY DEF Follows, Shown, UiType
  <2>2. OnMain(PermissionStep(shown)) \/ OnMain(asks) \/ OnMain(shown)
    BY <1>15 DEF Resumes
  <2> HIDE DEF shown, asks
  <2>3. Handles(Phone, shown) /\ Handles(shown, PermissionStep(shown))
    BY <1>2, <2>1, PermissionHandled DEF Handles
  <2>4. Handles(Phone, PermissionStep(shown))
    BY <2>1, <2>3 DEF Handles
  <2> QED
    BY <1>1, <1>3, <2>1, <2>2, <2>4
<1> QED
  BY <1>4, <1>5, <1>6, <1>7, <1>8, <1>9, <1>10, <1>11, <1>12, <1>13, <1>14, <1>15 DEF User

LEMMA MainKeepsBluetooth ==
  ASSUME BluetoothInv, MainHandles
  PROVE  BluetoothInv'
<1>1. PICK q : Handles(Phone, q) /\ Becomes(q) /\ UNCHANGED <<bt, stream, host, stray>>
  BY DEF MainHandles
<1>2. q \in Shown /\ q.ui = ui' /\ q.kbm = btkbm' /\ Have(btkbm) \subseteq Have(btkbm')
  BY <1>1, PhoneFollows DEF Handles, Becomes, Follows
<1>3. ui' \in UiType /\ BluetoothType'
  BY <1>1, <1>2 DEF Shown, BluetoothInv, BluetoothType
<1>4. ActivityFollowsMode' /\ \A f \in AppFacilities : ~btkbm'[f].active => ~btkbm'[f].held
  BY <1>1, <1>2 DEF Handles, Follows, ActivityFollowsMode
<1>5. \A f \in AppFacilities : Due(f) => Due(f)'
  BY <1>1, <1>2 DEF Due
<1> QED
  BY <1>1, <1>3, <1>4, <1>5 DEF BluetoothInv

-----------------------------------------------------------------------------
(* The threads of the Bluetooth transport.                                  *)

LEMMA PostKeepsType ==
  ASSUME PostedType, NEW up \in BOOLEAN, Post("BT", up)
  PROVE  PostedType'
<1>1. [from |-> "BT", status |-> up] \in Statuses
  BY DEF Statuses
<1> QED
  BY <1>1 DEF PostedType, Post

LEMMA ExecutorKeeps ==
  ASSUME BluetoothInv, PostedType, UNCHANGED ui, Executor
  PROVE  BluetoothInv' /\ PostedType'
<1> USE DEF BluetoothInv, BluetoothType, ActivityFollowsMode, Due
<1>1. CASE AppRegistered
  BY <1>1, PostKeepsType DEF AppRegistered
<1>2. CASE HostConnects
  BY <1>2, PostKeepsType DEF HostConnects, PublishConnected
<1>3. CASE HostDisconnects
  BY <1>3, PostKeepsType DEF HostDisconnects, PublishConnected, Released
<1>4. CASE SetProtocol
  BY <1>4, PostKeepsType DEF SetProtocol
<1>5. CASE GetReport
  <2>1. bt.connected /\ stray' = stray + 1 /\ btkbm' = Drained(btkbm) /\ UNCHANGED <<bt, stream, posted>>
    BY <1>5 DEF GetReport, NothingPosted
  <2>2. PICK f \in AppFacilities : host' = [host EXCEPT ![f] = btkbm[f].held]
    BY <1>5 DEF GetReport
  <2>3. /\ btkbm' \in SnapshotType
        /\ \A g \in AppFacilities : btkbm'[g].active = btkbm[g].active /\ btkbm'[g].held = btkbm[g].held
    BY <2>1 DEF Drained, SnapshotType
  <2>4. btkbm[f].held \in BOOLEAN
    BY DEF SnapshotType
  <2>5. host' \in [AppFacilities -> BOOLEAN] /\ stray' \in Nat /\ stray' # 0
    BY <2>1, <2>2, <2>4
  <2> QED
    BY <2>1, <2>3, <2>5 DEF PostedType
<1> QED
  BY <1>1, <1>2, <1>3, <1>4, <1>5 DEF Executor

\* What is read is what is live; what is only to be cleared is read as released,
\* and sent before the next read.
LEMMA StreamingKeeps ==
  ASSUME BluetoothInv, PostedType, UNCHANGED ui, Streaming
  PROVE  BluetoothInv' /\ PostedType'
<1> USE DEF BluetoothInv, BluetoothType, ActivityFollowsMode
<1>1. CASE StreamEnds
  BY <1>1 DEF StreamEnds, NothingPosted, Due, PostedType
<1>2. CASE StreamReads
  <2>1. /\ stream.at = "TOP"
        /\ stream' = [stream EXCEPT !.at = "SEND", !.reports = Read(btkbm)]
        /\ btkbm' = Drained(btkbm) /\ UNCHANGED <<bt, host, stray, posted>>
    BY <1>2 DEF StreamReads, NothingPosted
  <2>2. /\ btkbm' \in SnapshotType
        /\ \A g \in AppFacilities :
             /\ btkbm'[g].active = btkbm[g].active /\ btkbm'[g].held = btkbm[g].held
             /\ ~btkbm'[g].needs_clear
    BY <2>1 DEF Drained, SnapshotType
  <2>3. DOMAIN Read(btkbm) = Have(btkbm) /\ \A g \in Have(btkbm) : Read(btkbm)[g] = btkbm[g].held
    BY DEF Read
  <2>4. Read(btkbm) \in [Have(btkbm) -> BOOLEAN] /\ Have(btkbm) \in SUBSET AppFacilities
    BY DEF Read, Have, SnapshotType
  <2>5. stream'.at = "SEND" /\ stream'.reports = Read(btkbm) /\ stream' \in
          [at : {"NONE", "TOP", "SEND", "PUBLISH"},
           reports : UNION {[D -> BOOLEAN] : D \in SUBSET AppFacilities}, copied : BOOLEAN]
    BY <2>1, <2>4
  <2>6. \A f \in AppFacilities : Due(f) => Due(f)'
    <3> SUFFICES ASSUME NEW f \in AppFacilities, Due(f) PROVE Due(f)'
      OBVIOUS
    <3>1. f \in Have(btkbm) <=> btkbm[f].active \/ btkbm[f].needs_clear
      BY DEF Have
    <3>2. f \in Have(btkbm') <=> btkbm[f].active
      BY <2>2 DEF Have
    <3>3. host[f] => f \in Have(btkbm)
      BY <2>1 DEF Due
    <3>4. f \in DOMAIN stream'.reports <=> f \in Have(btkbm)
      BY <2>3, <2>5
    <3>5. f \in Have(btkbm) => stream'.reports[f] = btkbm[f].held
      BY <2>3, <2>5
    <3>6. f = "MOUSE" /\ host'[f] => ~bt'.last_idle
      BY <2>1 DEF Due
    <3> QED
      BY <2>1, <2>5, <3>1, <3>2, <3>3, <3>4, <3>5, <3>6 DEF Due
  <2> QED
    BY <2>1, <2>2, <2>5, <2>6 DEF PostedType
<1>3. CASE StreamSends
  <2>1. PICK moves \in BOOLEAN, refused \in SUBSET DOMAIN stream.reports :
       /\ refused \subseteq Offered(moves)
       /\ stray' = stray + (IF refused = {} \/ ~bt.connected THEN 0 ELSE 1) /\ stray' <= MaxStray
       /\ host' = IF bt.connected
                    THEN [f \in AppFacilities |->
                           IF f \in Offered(moves) \ refused THEN stream.reports[f] ELSE host[f]]
                    ELSE host
       /\ bt' = IF "MOUSE" \in DOMAIN stream.reports
                  THEN [bt EXCEPT !.last_idle = ~(stream.reports["MOUSE"] \/ moves)] ELSE bt
    BY <1>3 DEF StreamSends
  <2>2. /\ stream.at = "SEND" /\ stream' = [stream EXCEPT !.at = "TOP", !.reports = NoReports]
        /\ UNCHANGED <<btkbm, posted>>
    BY <1>3 DEF StreamSends, NothingPosted
  <2>3. DOMAIN stream.reports \subseteq AppFacilities
        /\ \A f \in DOMAIN stream.reports : stream.reports[f] \in BOOLEAN
    <3>1. stream.reports \in UNION {[D -> BOOLEAN] : D \in SUBSET AppFacilities}
      OBVIOUS
    <3>2. PICK D \in SUBSET AppFacilities : stream.reports \in [D -> BOOLEAN]
      BY <3>1
    <3> QED
      BY <3>2
  <2>4. NoReports \in UNION {[D -> BOOLEAN] : D \in SUBSET AppFacilities}
    <3>1. NoReports \in [{} -> BOOLEAN] /\ {} \in SUBSET AppFacilities
      BY DEF NoReports
    <3> QED
      BY <3>1
  <2>5. stream' \in [at : {"NONE", "TOP", "SEND", "PUBLISH"},
                     reports : UNION {[D -> BOOLEAN] : D \in SUBSET AppFacilities}, copied : BOOLEAN]
        /\ stream'.at = "TOP"
    BY <2>2, <2>4
  <2>6. /\ bt' \in [registered : BOOLEAN, connected : BOOLEAN, boot : BOOLEAN, streaming : BOOLEAN,
                    last_idle : BOOLEAN, status : BOOLEAN]
        /\ bt'.connected = bt.connected
        /\ "MOUSE" \notin DOMAIN stream.reports => bt'.last_idle = bt.last_idle
        /\ "MOUSE" \in DOMAIN stream.reports => bt'.last_idle = ~(stream.reports["MOUSE"] \/ moves)
    BY <2>1, <2>3
  <2>7. host' \in [AppFacilities -> BOOLEAN] /\ (~bt.connected => host' = Released)
    <3>1. CASE ~bt.connected
      BY <2>1, <3>1
    <3>2. CASE bt.connected
      <4> DEFINE h(f) == IF f \in Offered(moves) \ refused THEN stream.reports[f] ELSE host[f]
      <4>1. \A f \in AppFacilities : h(f) \in BOOLEAN
        BY <2>3 DEF Offered
      <4>2. host' = [f \in AppFacilities |-> h(f)]
        BY <2>1, <3>2
      <4> HIDE DEF h
      <4> QED
        BY <3>2, <4>1, <4>2
    <3> QED
      BY <3>1, <3>2
  <2>8. stray' \in Nat /\ (stray' = 0 => stray = 0 /\ (bt.connected => refused = {}))
    BY <2>1
  <2>9. ASSUME NEW f \in AppFacilities, stray' = 0, Due(f)
        PROVE  Due(f)'
    <3>1. CASE ~bt.connected
      BY <2>5, <2>7, <3>1 DEF Due, Released
    <3>2. CASE bt.connected
      <4>1. host'[f] = IF f \in Offered(moves) THEN stream.reports[f] ELSE host[f]
        BY <2>1, <2>8, <2>9, <3>2
      <4>2. f \in Offered(moves) <=>
              /\ f \in DOMAIN stream.reports
              /\ f = "MOUSE" => stream.reports["MOUSE"] \/ moves \/ ~bt.last_idle
        BY DEF Offered, MouseSays
      <4>3. host'[f] => f \in Have(btkbm)
        BY <2>2, <2>9, <4>1, <4>2 DEF Due
      <4>4. f = "MOUSE" /\ host'[f] => ~bt'.last_idle
        BY <2>6, <2>9, <4>1, <4>2 DEF Due
      <4> QED
        BY <2>2, <2>5, <4>3, <4>4 DEF Due
    <3> QED
      BY <3>1, <3>2
  <2> QED
    BY <2>2, <2>5, <2>6, <2>7, <2>8, <2>9 DEF PostedType
<1>4. CASE StreamCopies
  BY <1>4 DEF StreamCopies, NothingPosted, Due, PostedType
<1>5. CASE StreamPublishes
  <2>1. PostedType'
    BY <1>5, PostKeepsType DEF StreamPublishes
  <2> QED
    BY <1>5, <2>1 DEF StreamPublishes, Due
<1> QED
  BY <1>1, <1>2, <1>3, <1>4, <1>5 DEF Streaming

LEMMA ServiceKeepsPosted ==
  ASSUME PostedType, Service
  PROVE  PostedType'
<1>1. \A state \in {"IDLE", "HANDSHAKING", "ACTIVE", "CLOSED"} :
        Post("UDP", state) => PostedType'
  <2> SUFFICES ASSUME NEW state \in {"IDLE", "HANDSHAKING", "ACTIVE", "CLOSED"}, Post("UDP", state)
               PROVE  PostedType'
    OBVIOUS
  <2>1. [from |-> "UDP", status |-> state] \in Statuses
    BY DEF Statuses
  <2> QED
    BY <2>1 DEF PostedType, Post
<1>2. NothingPosted => PostedType'
  BY DEF NothingPosted, PostedType
<1>3. CASE ConnectTo \/ Disconnects \/ Stopped \/ Started
  BY <1>2, <1>3 DEF ConnectTo, Disconnects, StopSession, Stopped, Started
<1>4. ASSUME NEW t \in SessionThreads, SessionThread(t)
      PROVE  PostedType'
  BY <1>1, <1>2, <1>4 DEF SessionThread, CreateFails, Creates, GivesUp, Probed, Connects, Pumps,
                          LeavesLoop, Finally, Publish
<1> QED
  BY <1>3, <1>4 DEF Service

-----------------------------------------------------------------------------
(* The theorems about the phone's transports.                               *)

LEMMA BluetoothInitially == ASSUME Init PROVE BluetoothInv /\ PostedType
<1>1. PostedType
  BY DEF Init, PostedType
<1>2. ui \in UiType /\ ui.open = "NONE"
  BY DEF Init, PhoneInit, UiType, Modes, Screens, Panels
<1>3. stream.reports = NoReports /\ stream.at = "NONE" /\ stream.copied = FALSE
  BY DEF Init, BtInit
<1>4. NoReports \in UNION {[D -> BOOLEAN] : D \in SUBSET AppFacilities}
  <2>1. NoReports \in [{} -> BOOLEAN] /\ {} \in SUBSET AppFacilities
    BY DEF NoReports
  <2> QED
    BY <2>1
<1>5. BluetoothType
  BY <1>4 DEF Init, BtInit, BluetoothType, SnapshotInit, SnapshotType, Released
<1>6. \A f \in AppFacilities : ~btkbm[f].active /\ ~btkbm[f].held /\ ~host[f]
  BY DEF Init, BtInit, SnapshotInit, Released
<1>7. host = Released
  BY DEF Init, BtInit
<1> QED
  BY <1>1, <1>2, <1>3, <1>5, <1>6, <1>7 DEF BluetoothInv, ActivityFollowsMode, Due

LEMMA BluetoothStep ==
  ASSUME BluetoothInv, PostedType, [Next]_vars
  PROVE  /\ BluetoothInv' /\ PostedType'
         /\ ~(ui.open = "UDP" /\ ui'.open = "BT") /\ ~(ui.open = "BT" /\ ui'.open = "UDP")
<1>1. MainHandles =>
        /\ BluetoothInv'
        /\ ~(ui.open = "UDP" /\ ui'.open = "BT") /\ ~(ui.open = "BT" /\ ui'.open = "UDP")
  BY MainKeepsBluetooth, PhoneFollows DEF MainHandles, Handles, Becomes
<1>2. UNCHANGED <<bt, stream, btkbm, host, stray, ui>> => BluetoothInv'
  BY DEF BluetoothInv, BluetoothType, ActivityFollowsMode, Due
<1>3. CASE RunsPosted
  BY <1>1, <1>3, CallbackHandles
<1>4. CASE User
  BY <1>1, <1>4, UserHandles DEF PostedType
<1>5. CASE Service
  BY <1>2, <1>5, ServiceKeepsPosted DEF Service
<1>6. CASE Bluetooth
  BY <1>6, ExecutorKeeps, StreamingKeeps DEF Bluetooth
<1>7. CASE UNCHANGED vars
  BY <1>2, <1>7 DEF vars, PostedType
<1> QED
  BY <1>3, <1>4, <1>5, <1>6, <1>7 DEF Next

\* Unless the stack refused a report or GET_REPORT took one, whatever the PC
\* holds down and no finger does is lifted by a report that is still due; and
\* the facilities are live exactly as the mode on the screen asks
\* (KbmSnapshot.kt 77-103, BtHidController.kt 1659-1737, MainActivity.kt 814-860).
THEOREM HostLetsGo == Spec => []BluetoothFollowsScreen
<1>1. Init => BluetoothInv /\ PostedType
  BY BluetoothInitially
<1>2. BluetoothInv /\ PostedType /\ [Next]_vars => (BluetoothInv /\ PostedType)'
  BY BluetoothStep
<1>3. BluetoothInv => BluetoothFollowsScreen
  BY DEF BluetoothInv, BluetoothFollowsScreen, NothingForgotten, Forgotten, Due
<1> QED
  BY <1>1, <1>2, <1>3, PTL DEF Spec

\* No callback, however late it runs, and no button swaps the session on the
\* screen for one of the other transport (onStatus, onBtStatus;
\* MainActivity.kt 2295-2335, 2633-2654).
THEOREM SessionsAreNotSwapped == Spec => NeverSwapped
<1>1. Init => BluetoothInv /\ PostedType
  BY BluetoothInitially
<1>2. BluetoothInv /\ PostedType /\ [Next]_vars => (BluetoothInv /\ PostedType)'
  BY BluetoothStep
<1>3. BluetoothInv /\ PostedType /\ [Next]_vars =>
        [~(ui.open = "UDP" /\ ui'.open = "BT") /\ ~(ui.open = "BT" /\ ui'.open = "UDP")]_vars
  BY BluetoothStep
<1> QED
  BY <1>1, <1>2, <1>3, PTL DEF Spec, NeverSwapped

=============================================================================
