---------------------------- MODULE BackendsProofs ----------------------------
(***************************************************************************)
(* Proofs about Backends: the devices there are are the devices the server  *)
(* knows of, and both backends implement HostDevices, for every number of   *)
(* slots, every set of keys and buttons and any number of failing calls.    *)
(*                                                                         *)
(* The inductive invariant says what the backends remember between calls:   *)
(* as long as no write to a device has failed, what was written to it, what *)
(* readers were shown and (for a pad) what the next difference is taken     *)
(* against are all what the device was last told.  Without that, a button   *)
(* released while nothing was remembered of it would stay down.  On Windows *)
(* it also says that a pad the bus would not take back still shows what it  *)
(* was told, and that its slot has no session: the bus refuses it another.  *)
(***************************************************************************)
EXTENDS Backends, TLAPS

PadState == [buttons : SUBSET PadButtons, stick : 0..1, hat : 0..1]
Held     == UNION {[D -> SUBSET KeyCodes] : D \in SUBSET KbmDevices}
Seat     == [pad : BOOLEAN, held : Held]
NodeOf(d) == [written : CanShow(d), shown : CanShow(d)]

\* What is remembered of a device nothing has gone wrong with.
InStep(d) ==
  /\ nodes[d].written = LastTold(d) /\ nodes[d].shown = LastTold(d)
  /\ d[2] = "PAD" => /\ last[d[1]].buttons = asked[d[1]].buttons
                     /\ last[d[1]].hat = asked[d[1]].hat

Linux ==
  /\ handles = Known /\ doubt \subseteq Known
  /\ nodes = [d \in Known |-> nodes[d]]
  /\ \A d \in Known : nodes[d] \in NodeOf(d) /\ (d \notin doubt => InStep(d))

\* The pads on the bus: those of a session, and those it would not take back.
PadsThere == Pads \cup left

Windows ==
  /\ left \subseteq PadSlots /\ Pads \cap left = {}
  /\ doubt \subseteq {Pad(slot) : slot \in PadsThere}
  /\ attached \in [PadsThere -> PadState]
  /\ \A slot \in PadsThere : Pad(slot) \notin doubt => attached[slot] = asked[slot]
  /\ desktop \subseteq (UNION {Injected(AllHeld(slot)) : slot \in PadSlots}) \cup stuck

Seats ==
  /\ sessions \in [PadSlots -> Seat]
  /\ \A slot \in PadSlots : ~sessions[slot].pad => DOMAIN sessions[slot].held = {}
  /\ asked \in [PadSlots -> PadState]
  /\ last \in [PadSlots -> [buttons : SUBSET PadButtons, hat : 0..1]]

BInv ==
  /\ system \in {"LINUX", "WINDOWS"}
  /\ Seats
  /\ system = "LINUX" => Linux
  /\ system = "WINDOWS" => Windows

-----------------------------------------------------------------------------
(* Operators.                                                               *)

LEMMA HeldIs ==
  ASSUME NEW h \in Held
  PROVE  /\ h = [x \in DOMAIN h |-> h[x]]
         /\ DOMAIN h \subseteq KbmDevices
         /\ \A x \in DOMAIN h : h[x] \subseteq KeyCodes
  BY DEF Held

LEMMA IsHeld ==
  ASSUME NEW h, h = [x \in DOMAIN h |-> h[x]], DOMAIN h \subseteq KbmDevices,
         \A x \in DOMAIN h : h[x] \subseteq KeyCodes
  PROVE  h \in Held
  <1>1. h \in [DOMAIN h -> SUBSET KeyCodes]
    OBVIOUS
  <1> QED BY <1>1 DEF Held

LEMMA HeldEmpty == << >> \in Held
  <1>1. << >> = [x \in {} |-> 0]
    OBVIOUS
  <1>2. << >> \in [{} -> SUBSET KeyCodes]
    BY <1>1
  <1> QED BY <1>2 DEF Held

LEMMA PutHeld ==
  ASSUME NEW h \in Held, NEW dev \in KbmDevices, NEW keys \in SUBSET KeyCodes
  PROVE  /\ Put(h, dev, keys) \in Held
         /\ DOMAIN Put(h, dev, keys) = DOMAIN h \cup {dev}
         /\ Put(h, dev, keys)[dev] = keys
         /\ \A x \in DOMAIN h \ {dev} : Put(h, dev, keys)[x] = h[x]
  <1> DEFINE g == Put(h, dev, keys)
  <1>1. /\ DOMAIN g = DOMAIN h \cup {dev}
        /\ g[dev] = keys
        /\ \A x \in DOMAIN h \ {dev} : g[x] = h[x]
        /\ g = [x \in DOMAIN g |-> g[x]]
    BY DEF Put
  <1> HIDE DEF g
  <1>2. g \in Held
    BY <1>1, HeldIs, IsHeld
  <1> QED BY <1>1, <1>2 DEF g

LEMMA NotAPad == "PAD" \notin KbmDevices
  BY BackendsAssumption

LEMMA RestCanShow ==
  ASSUME NEW d
  PROVE  RestOf(d) \in CanShow(d)
  <1>1. 0 \in 0 .. 1 /\ {} \in SUBSET PadButtons /\ {} \in SUBSET Injected(KeyCodes)
    OBVIOUS
  <1>2. AtRest \in PadState
    BY <1>1 DEF AtRest, PadState
  <1> QED BY <1>1, <1>2 DEF RestOf, CanShow, PadState

\* A batch that went out whole makes what was written what was asked for,
\* unless one key was let go and held by two usages at once.
LEMMA WholeBatch ==
  ASSUME NEW held \in SUBSET KeyCodes, NEW keys \in SUBSET KeyCodes, ~Shares(held, keys),
         NEW written \in KeysWritten(Injected(held), keys, KeyBatch(held, keys))
  PROVE  written = Injected(keys)
  BY BackendsAssumption DEF Shares, KeysWritten, KeyBatch, Injected

LEMMA BatchCanShow ==
  ASSUME NEW held \in SUBSET KeyCodes, NEW keys \in SUBSET KeyCodes,
         NEW out \in SUBSET KeyBatch(held, keys),
         NEW before \in SUBSET Injected(KeyCodes),
         NEW written \in KeysWritten(before, keys, out)
  PROVE  written \in SUBSET Injected(KeyCodes)
  BY DEF KeysWritten, KeyBatch, Injected

-----------------------------------------------------------------------------
(* A step that touches one device, and what it has to show for it.           *)

\* Where HostView is a function of a record each, Only is about four functions.
LEMMA OnlyOne ==
  ASSUME NEW d \in DeviceSet, Present' = Present \cup {d},
         \A e \in Present \ {d} : /\ LastTold(e)' = LastTold(e)
                                  /\ Shown(e)' = Shown(e)
                                  /\ e \in doubt' <=> e \in doubt
  PROVE  /\ Promised!Only(d)
         /\ DOMAIN HostView = Present /\ DOMAIN HostView' = Present'
         /\ HostView'[d] = [asked |-> LastTold(d)', shows |-> Shown(d)', sure |-> d \notin doubt']
  <1>1. /\ DOMAIN HostView = Present /\ DOMAIN HostView' = Present'
        /\ \A e \in Present' : HostView'[e] = [asked |-> LastTold(e)', shows |-> Shown(e)',
                                               sure |-> e \notin doubt']
        /\ \A e \in Present : HostView[e] = [asked |-> LastTold(e), shows |-> Shown(e),
                                             sure |-> e \notin doubt]
        /\ HostView' = [e \in Present' |-> HostView'[e]]
    BY DEF HostView
  <1>2. \A e \in Present \ {d} : HostView'[e] = HostView[e]
    BY <1>1
  <1>3. HostView' = [e \in DOMAIN HostView \cup {d} |->
                       IF e = d THEN HostView'[d] ELSE HostView[e]]
    BY <1>1, <1>2
  <1> QED BY <1>1, <1>3 DEF Promised!Only

\* A step after which there are no devices that were not there before, the others as
\* they were: nothing is created and nobody is told anything.
LEMMA OnlyGone ==
  ASSUME Present' \subseteq Present,
         \A e \in Present' : /\ LastTold(e)' = LastTold(e)
                             /\ Shown(e)' = Shown(e)
                             /\ e \in doubt' <=> e \in doubt
  PROVE  Promised!Vanish
  <1>1. HostView' = [e \in Present' |-> HostView[e]]
    BY DEF HostView
  <1>2. DOMAIN HostView = Present /\ DOMAIN HostView' = Present'
    BY DEF HostView
  <1>3. DOMAIN HostView \cap DOMAIN HostView' = Present'
    BY <1>2
  <1> QED BY <1>1, <1>3 DEF Promised!Vanish

\* On Linux: a device that is there after the step, with what was written to it.
LEMMA LinuxOne ==
  ASSUME BInv, system = "LINUX", system' = system, Seats',
         NEW d \in DeviceSet, NEW n \in NodeOf(d),
         Known' = Known \cup {d}, handles' = handles \cup {d}, nodes' = Put(nodes, d, n),
         doubt' \subseteq doubt \cup {d}, doubt \subseteq doubt',
         \A e \in Known \ {d} : /\ LastTold(e)' = LastTold(e)
                                /\ e[2] = "PAD" => last'[e[1]] = last[e[1]]
                                                   /\ asked'[e[1]] = asked[e[1]],
         d \notin doubt' => /\ n.written = LastTold(d)' /\ n.shown = LastTold(d)'
                            /\ d[2] = "PAD" => /\ last'[d[1]].buttons = asked'[d[1]].buttons
                                               /\ last'[d[1]].hat = asked'[d[1]].hat
  PROVE  /\ BInv'
         /\ Promised!Only(d)
         /\ DOMAIN HostView = Known /\ DOMAIN HostView' = Known \cup {d}
         /\ HostView'[d] = [asked |-> LastTold(d)', shows |-> n.shown, sure |-> d \notin doubt']
  <1>1. handles = Known /\ DOMAIN nodes = Known /\ doubt \subseteq Known
    BY DEF BInv, Linux
  <1>2. /\ DOMAIN nodes' = Known \cup {d}
        /\ nodes' = [e \in Known \cup {d} |-> nodes'[e]]
        /\ nodes'[d] = n
        /\ \A e \in Known \ {d} : nodes'[e] = nodes[e]
    BY <1>1 DEF Put
  <1>3. \A e \in Known \ {d} : nodes[e] \in NodeOf(e) /\ (e \notin doubt' => InStep(e)')
    BY <1>2 DEF BInv, Linux, InStep
  <1>4. d \notin doubt' => InStep(d)'
    BY <1>2 DEF InStep
  <1>5. Linux'
    <2>1. \A e \in Known' : NodeOf(e)' = NodeOf(e)
      BY DEF NodeOf, CanShow
    <2> QED BY <1>1, <1>2, <1>3, <1>4, <2>1 DEF Linux
  <1>6. BInv'
    BY <1>1, <1>5 DEF BInv
  <1>7. Present = Known /\ Present' = Known \cup {d}
    BY <1>1 DEF Present
  <1>8. \A e \in Present \ {d} : /\ LastTold(e)' = LastTold(e)
                                 /\ Shown(e)' = Shown(e)
                                 /\ e \in doubt' <=> e \in doubt
    BY <1>2, <1>7 DEF Shown
  <1>9. Shown(d)' = n.shown
    BY <1>2 DEF Shown
  <1> QED BY <1>6, <1>7, <1>8, <1>9, OnlyOne

-----------------------------------------------------------------------------
(* What the calls do to the table.                                          *)

\* handle_hello marks the pad as created.
LEMMA SeatTaken ==
  ASSUME Seats, NEW slot \in PadSlots, sessions' = [sessions EXCEPT ![slot].pad = TRUE],
         asked' = [asked EXCEPT ![slot] = AtRest],
         last' \in {last, Forgotten(slot)}
  PROVE  /\ Seats'
         /\ Pads' = Pads \cup {slot}
         /\ Known' = Known \cup {Pad(slot)}
         /\ \A s \in PadSlots : AllHeld(s)' = AllHeld(s)
         /\ \A e \in Known \ {Pad(slot)} : /\ LastTold(e)' = LastTold(e)
                                           /\ e[2] = "PAD" => last'[e[1]] = last[e[1]]
                                                   /\ asked'[e[1]] = asked[e[1]]
  <1>1. /\ DOMAIN sessions' = PadSlots
        /\ sessions'[slot] = [pad |-> TRUE, held |-> sessions[slot].held]
        /\ \A s \in PadSlots \ {slot} : sessions'[s] = sessions[s]
        /\ \A s \in PadSlots : sessions'[s].held = sessions[s].held
    BY DEF Seats, Seat
  <1>2. AtRest \in PadState /\ [buttons |-> {}, hat |-> 0] \in [buttons : SUBSET PadButtons, hat : 0..1]
    BY DEF AtRest, PadState
  <1>3. /\ asked' \in [PadSlots -> PadState]
        /\ last' \in [PadSlots -> [buttons : SUBSET PadButtons, hat : 0..1]]
        /\ \A s \in PadSlots \ {slot} : asked'[s] = asked[s] /\ last'[s] = last[s]
    BY <1>2 DEF Seats, Forgotten
  <1>4. Seats'
    <2>0. sessions[slot].held \in Held
      BY DEF Seats, Seat
    <2>1. sessions'[slot] \in Seat
      BY <1>1, <2>0 DEF Seat
    <2>2. sessions' = [s \in PadSlots |-> sessions'[s]]
      BY DEF Seats
    <2>3. sessions' \in [PadSlots -> Seat]
      BY <1>1, <2>1, <2>2 DEF Seats
    <2>4. \A s \in PadSlots : ~sessions'[s].pad => DOMAIN sessions'[s].held = {}
      BY <1>1 DEF Seats
    <2> QED BY <1>3, <2>3, <2>4 DEF Seats
  <1>5. Pads' = Pads \cup {slot}
    BY <1>1 DEF Pads
  <1>6. Known' = Known \cup {Pad(slot)}
    BY <1>1, <1>5 DEF Known, Pad
  <1>7. \A s \in PadSlots : AllHeld(s)' = AllHeld(s)
    BY <1>1 DEF AllHeld
  <1>8. \A e \in Known \ {Pad(slot)} : /\ LastTold(e)' = LastTold(e)
                                       /\ e[2] = "PAD" => last'[e[1]] = last[e[1]]
                                                   /\ asked'[e[1]] = asked[e[1]]
    BY <1>1, <1>3, NotAPad DEF Known, LastTold, Pad, Pads
  <1> QED BY <1>4, <1>5, <1>6, <1>7, <1>8

\* kbm.c notes what it told a device to hold.
LEMMA SeatHolds ==
  ASSUME Seats, NEW slot \in PadSlots, NEW dev \in KbmDevices, NEW keys \in SUBSET KeyCodes,
         sessions[slot].pad,
         sessions' = [sessions EXCEPT ![slot].held = Put(@, dev, keys)],
         asked' = asked, last' = last
  PROVE  /\ Seats'
         /\ Pads' = Pads
         /\ Known' = Known \cup {<<slot, dev>>}
         /\ LastTold(<<slot, dev>>)' = Injected(keys)
         /\ \A e \in Known \ {<<slot, dev>>} : LastTold(e)' = LastTold(e)
         /\ \A s \in PadSlots \ {slot} : AllHeld(s)' = AllHeld(s)
         /\ AllHeld(slot)' = keys \cup UNION {sessions[slot].held[x] :
                                                x \in DOMAIN sessions[slot].held \ {dev}}
  <1> DEFINE h == sessions[slot].held
             g == Put(h, dev, keys)
  <1>0. h \in Held
    BY DEF Seats, Seat
  <1>1. /\ g \in Held
        /\ DOMAIN g = DOMAIN h \cup {dev}
        /\ g[dev] = keys
        /\ \A x \in DOMAIN h \ {dev} : g[x] = h[x]
    BY <1>0, PutHeld
  <1>2. /\ DOMAIN sessions' = PadSlots
        /\ sessions'[slot] = [pad |-> TRUE, held |-> g]
        /\ \A s \in PadSlots \ {slot} : sessions'[s] = sessions[s]
        /\ sessions' = [s \in PadSlots |-> sessions'[s]]
    BY DEF Seats, Seat
  <1> HIDE DEF g
  <1>3. sessions' \in [PadSlots -> Seat]
    <2>1. [pad |-> TRUE, held |-> g] \in Seat
      BY <1>1 DEF Seat
    <2>2. \A s \in PadSlots : sessions'[s] \in Seat
      BY <1>2, <2>1 DEF Seats
    <2> QED BY <1>2, <2>2
  <1>4. Seats'
    <2>1. \A s \in PadSlots : ~sessions'[s].pad => DOMAIN sessions'[s].held = {}
      BY <1>2 DEF Seats
    <2> QED BY <1>3, <2>1 DEF Seats
  <1>5. Pads' = Pads
    <2>1. sessions'[slot].pad
      BY <1>2
    <2> QED BY <1>2, <2>1 DEF Pads
  <1>6. Known' = Known \cup {<<slot, dev>>}
    <2>1. /\ DOMAIN sessions'[slot].held = DOMAIN h \cup {dev}
          /\ \A s \in PadSlots \ {slot} : sessions'[s].held = sessions[s].held
      BY <1>1, <1>2
    <2>2. {d \in PadSlots \X KbmDevices : d[2] \in DOMAIN sessions'[d[1]].held}
            = {d \in PadSlots \X KbmDevices : d[2] \in DOMAIN sessions[d[1]].held}
                \cup {<<slot, dev>>}
      BY <2>1
    <2> QED BY <1>5, <2>2 DEF Known, Pad
  <1>7. LastTold(<<slot, dev>>)' = Injected(keys)
    BY <1>1, <1>2, NotAPad DEF LastTold
  <1>8. \A e \in Known \ {<<slot, dev>>} : LastTold(e)' = LastTold(e)
    <2>1. ASSUME NEW s \in Pads
          PROVE  LastTold(Pad(s))' = LastTold(Pad(s))
      BY DEF LastTold, Pad
    <2>2. ASSUME NEW s \in PadSlots, NEW x \in KbmDevices, x \in DOMAIN sessions[s].held,
                 <<s, x>> # <<slot, dev>>
          PROVE  sessions'[s].held[x] = sessions[s].held[x]
      <3>1. CASE s # slot
        BY <1>2, <3>1
      <3>2. CASE s = slot /\ x # dev
        BY <1>1, <1>2, <2>2, <3>2
      <3> QED BY <2>2, <3>1, <3>2
    <2>3. ASSUME NEW s \in PadSlots, NEW x \in KbmDevices, x \in DOMAIN sessions[s].held,
                 <<s, x>> # <<slot, dev>>
          PROVE  LastTold(<<s, x>>)' = LastTold(<<s, x>>)
      BY <2>2, <2>3, NotAPad DEF LastTold
    <2> QED BY <2>1, <2>3 DEF Known
  <1>9. \A s \in PadSlots \ {slot} : AllHeld(s)' = AllHeld(s)
    BY <1>2 DEF AllHeld
  <1>10. AllHeld(slot)' = keys \cup UNION {h[x] : x \in DOMAIN h \ {dev}}
    BY <1>1, <1>2 DEF AllHeld
  <1> QED BY <1>4, <1>5, <1>6, <1>7, <1>8, <1>9, <1>10

\* free_session clears the slot.
LEMMA SeatLeft ==
  ASSUME Seats, NEW slot \in PadSlots,
         sessions' = [sessions EXCEPT ![slot] = [pad |-> FALSE, held |-> << >>]],
         asked' = asked, last' = last
  PROVE  /\ Seats'
         /\ Pads' = Pads \ {slot}
         /\ Known' = Known \ ({Pad(slot)} \cup ({slot} \X KbmDevices))
         /\ \A e \in Known' : LastTold(e)' = LastTold(e)
         /\ \A s \in PadSlots \ {slot} : AllHeld(s)' = AllHeld(s)
  <1>1. /\ DOMAIN sessions' = PadSlots
        /\ sessions'[slot] = [pad |-> FALSE, held |-> << >>]
        /\ \A s \in PadSlots \ {slot} : sessions'[s] = sessions[s]
        /\ sessions' = [s \in PadSlots |-> sessions'[s]]
    BY DEF Seats, Seat
  <1>2. sessions' \in [PadSlots -> Seat]
    BY <1>1, HeldEmpty DEF Seats, Seat
  <1>3. DOMAIN << >> = {}
    OBVIOUS
  <1>4. Seats'
    BY <1>1, <1>2, <1>3 DEF Seats, Seat, Held
  <1>5. Pads' = Pads \ {slot}
    BY <1>1 DEF Pads
  <1>6. Known' = Known \ ({Pad(slot)} \cup ({slot} \X KbmDevices))
    BY <1>1, <1>3, <1>5, NotAPad DEF Known, Pad
  <1>7. \A e \in Known' : LastTold(e)' = LastTold(e)
    BY <1>1, <1>6 DEF Known, LastTold, Pad, Pads
  <1>8. \A s \in PadSlots \ {slot} : AllHeld(s)' = AllHeld(s)
    BY <1>1 DEF AllHeld
  <1> QED BY <1>4, <1>5, <1>6, <1>7, <1>8

-----------------------------------------------------------------------------
(* Linux, call by call.                                                     *)

\* Nothing happened to a device: a descriptor that was opened was closed again.
LEMMA LinuxSame ==
  ASSUME BInv, system = "LINUX", NEW x,
         UNCHANGED <<system, sessions, handles, last, doubt>>,
         nodes' \in {nodes, Abandoned(NodeOpened(x), x)}, x \notin Known, asked' = asked
  PROVE  BInv' /\ Promised!Vanish
  <1>1. nodes' = nodes
    <2>1. nodes = [d \in Known |-> nodes[d]] /\ DOMAIN nodes = Known
      BY DEF BInv, Linux
    <2>2. Abandoned(NodeOpened(x), x) = [d \in Known |-> nodes[d]]
      BY <2>1 DEF Abandoned, NodeOpened, Lacking, Put
    <2> QED BY <2>1, <2>2
  <1>2. Seats' /\ Known' = Known
    BY DEF BInv, Seats, Known, Pads
  <1>3. \A e \in Known : LastTold(e)' = LastTold(e)
    BY DEF LastTold
  <1>4. \A e \in Known : InStep(e) => InStep(e)'
    BY <1>1, <1>3 DEF InStep
  <1>5. Linux'
    <2>1. \A e \in Known : NodeOf(e)' = NodeOf(e)
      BY DEF NodeOf, CanShow
    <2> QED BY <1>1, <1>2, <1>4, <2>1 DEF BInv, Linux
  <1>6. BInv'
    BY <1>2, <1>5 DEF BInv
  <1>7. Present' = Present /\ Present = Known
    BY DEF Present, BInv, Linux
  <1>8. \A e \in Present' : Shown(e)' = Shown(e)
    BY <1>1 DEF Shown
  <1> QED BY <1>3, <1>6, <1>7, <1>8, OnlyGone

LEMMA LinuxHello ==
  ASSUME BInv, system = "LINUX", NEW slot \in PadSlots, Hello(slot)
  PROVE  BInv' /\ (Promised!Vanish \/ Promised!Appears(Pad(slot)))
  <1> DEFINE d == Pad(slot)
  <1>0. d \notin Known /\ d \in DeviceSet /\ d[2] = "PAD" /\ d[1] = slot
    BY NotAPad DEF Known, Pad, Pads, DeviceSet, Hello
  <1>1. CASE /\ SetupWorks(d)
             /\ sessions' = [sessions EXCEPT ![slot].pad = TRUE]
             /\ asked' = [asked EXCEPT ![slot] = AtRest]
    <2> DEFINE n == [written |-> RestOf(d), shown |-> RestOf(d)]
    <2>1. /\ UNCHANGED <<system, doubt>>
          /\ asked' = [asked EXCEPT ![slot] = AtRest]
          /\ last' = Forgotten(slot)
          /\ handles' = handles \cup {d}
          /\ nodes' = Put(nodes, d, n)
      BY <1>0, <1>1 DEF Hello, SetupWorks, NodeOpened
    <2>2. Seats /\ handles = Known /\ doubt \subseteq Known
      BY DEF BInv, Linux
    <2>3. /\ Seats'
          /\ Known' = Known \cup {d}
          /\ \A e \in Known \ {d} : /\ LastTold(e)' = LastTold(e)
                                    /\ e[2] = "PAD" => last'[e[1]] = last[e[1]]
                                                       /\ asked'[e[1]] = asked[e[1]]
      BY <1>1, <2>1, <2>2, SeatTaken
    <2>4. n \in NodeOf(d)
      BY RestCanShow DEF NodeOf
    <2>5. /\ LastTold(d)' = AtRest /\ RestOf(d) = AtRest
          /\ last'[slot].buttons = asked'[slot].buttons /\ last'[slot].hat = asked'[slot].hat
      BY <1>0, <2>1, <2>2 DEF LastTold, RestOf, Forgotten, AtRest, Seats
    <2>6. /\ BInv'
          /\ Promised!Only(d)
          /\ DOMAIN HostView = Known /\ DOMAIN HostView' = Known \cup {d}
          /\ HostView'[d] = [asked |-> AtRest, shows |-> AtRest, sure |-> d \notin doubt']
      <3> HIDE DEF d
      <3>1. n.written = AtRest /\ n.shown = AtRest
        BY <2>5
      <3> HIDE DEF n
      <3> QED BY <1>0, <2>1, <2>2, <2>3, <2>4, <2>5, <3>1, LinuxOne
    <2>7. (d \notin doubt') = TRUE
      BY <1>0, <2>1, <2>2
    <2> QED BY <1>0, <2>5, <2>6, <2>7 DEF Promised!Appears
  <1>2. CASE (OpenFails \/ SetupFails(d)) /\ UNCHANGED <<sessions, asked>>
    <2>1. /\ UNCHANGED <<system, sessions, handles, last, doubt, asked>>
          /\ nodes' \in {nodes, Abandoned(NodeOpened(d), d)}
      BY <1>2 DEF Hello, OpenFails, SetupFails, linuxVars
    <2> QED BY <1>0, <2>1, LinuxSame
  <1> QED BY <1>1, <1>2 DEF Hello, PadCreated, PadRefused

LEMMA LinuxKbmDropped ==
  ASSUME BInv, NEW slot \in PadSlots, NEW dev \in KbmDevices, KbmDropped(slot, dev)
  PROVE  BInv' /\ Promised!Vanish
  <1>1. <<slot, dev>> \notin Known
    BY NotAPad DEF Known, Pad, KbmDropped
  <1>2. /\ system = "LINUX"
        /\ UNCHANGED <<system, sessions, handles, last, doubt, asked>>
        /\ nodes' \in {nodes, Abandoned(NodeOpened(<<slot, dev>>), <<slot, dev>>)}
    BY DEF KbmDropped, OpenFails, SetupFails, linuxVars, histories
  <1> QED BY <1>1, <1>2, LinuxSame

LEMMA LinuxLeave ==
  ASSUME BInv, system = "LINUX", NEW slot \in PadSlots, Leave(slot)
  PROVE  BInv' /\ Promised!Vanish
  <1> DEFINE all == {Pad(slot)} \cup ({slot} \X KbmDevices)
  <1>1. /\ UNCHANGED <<system, asked, last>>
        /\ sessions' = [sessions EXCEPT ![slot] = [pad |-> FALSE, held |-> << >>]]
        /\ doubt' = doubt \ all
        /\ nodes' = Lacking(nodes, all \cap handles)
        /\ handles' = handles \ all
    BY DEF Leave, DestroyAll
  <1>2. /\ Seats /\ handles = Known /\ doubt \subseteq Known
        /\ nodes = [e \in Known |-> nodes[e]] /\ DOMAIN nodes = Known
    BY DEF BInv, Linux
  <1>3. /\ Seats'
        /\ Known' = Known \ all
        /\ \A e \in Known' : LastTold(e)' = LastTold(e)
    BY <1>1, <1>2, SeatLeft
  <1> HIDE DEF all
  <1>4. /\ DOMAIN nodes' = Known'
        /\ nodes' = [e \in Known' |-> nodes'[e]]
        /\ \A e \in Known' : nodes'[e] = nodes[e]
    BY <1>1, <1>2, <1>3 DEF Lacking
  <1>5. \A e \in Known' : (e \notin doubt' => e \notin doubt) /\ (InStep(e) => InStep(e)')
    BY <1>1, <1>3, <1>4 DEF InStep
  <1>6. Linux'
    <2>1. \A e \in Known' : NodeOf(e)' = NodeOf(e)
      BY DEF NodeOf, CanShow
    <2>2. \A e \in Known' : nodes'[e] \in NodeOf(e) /\ (e \notin doubt' => InStep(e)')
      BY <1>3, <1>4, <1>5 DEF BInv, Linux
    <2> QED BY <1>1, <1>2, <1>3, <1>4, <2>1, <2>2 DEF Linux
  <1>7. BInv'
    BY <1>1, <1>2, <1>3, <1>6 DEF BInv
  <1>8. Present = Known /\ Present' = Known'
    BY <1>1, <1>2, <1>3 DEF Present
  <1>9. \A e \in Present' : Shown(e)' = Shown(e) /\ (e \in doubt' <=> e \in doubt)
    BY <1>1, <1>3, <1>4, <1>8 DEF Shown
  <1> QED BY <1>3, <1>7, <1>8, <1>9, OnlyGone

LEMMA LinuxInput ==
  ASSUME BInv, system = "LINUX", NEW slot \in PadSlots, NEW frame \in Frames,
         Input(slot, frame)
  PROVE  BInv' /\ Promised!Told(Pad(slot))
  <1> DEFINE d == Pad(slot)
  <1>1. PICK out \in FirstFew(Changed(slot, frame)), stage \in Stages :
          /\ stage # "BUTTONS" => out = Changed(slot, frame)
          /\ doubt' = IF stage = "SYN" THEN doubt ELSE doubt \cup {d}
          /\ nodes' = [nodes EXCEPT ![d] =
                         After(@, PadWritten(slot, frame, out, stage), stage = "SYN")]
          /\ Remembers(slot, frame, out, stage)
          /\ UNCHANGED handles
    BY DEF Input, UinputUpdate
  <1> DEFINE w == PadWritten(slot, frame, out, stage)
             n == After(nodes[d], w, stage = "SYN")
  <1>2. /\ sessions[slot].pad /\ UNCHANGED <<system, sessions>>
        /\ asked' = [asked EXCEPT ![slot] = frame]
    BY DEF Input
  <1>3. d \in Known /\ d \in DeviceSet /\ d[2] = "PAD" /\ d[1] = slot
    BY <1>2 DEF Known, Pad, Pads, DeviceSet
  <1>4. Seats /\ handles = Known /\ doubt \subseteq Known
        /\ nodes = [e \in Known |-> nodes[e]] /\ DOMAIN nodes = Known
    BY DEF BInv, Linux
  <1>5. frame \in PadState /\ asked[slot] \in PadState
        /\ last[slot].buttons \in SUBSET PadButtons /\ last[slot].hat \in 0 .. 1
    BY <1>4, BackendsAssumption DEF PadState, Seats
  <1>6. nodes[d].written \in PadState /\ nodes[d].shown \in PadState
    BY <1>3 DEF BInv, Linux, NodeOf, CanShow, PadState
  <1>7. /\ frame.buttons \in SUBSET PadButtons /\ frame.stick \in 0 .. 1 /\ frame.hat \in 0 .. 1
        /\ nodes[d].written.buttons \in SUBSET PadButtons
        /\ nodes[d].written.stick \in 0 .. 1 /\ nodes[d].written.hat \in 0 .. 1
    BY <1>5, <1>6 DEF PadState
  <1>8. out \in SUBSET PadButtons
    BY <1>5, <1>7 DEF FirstFew, Changed
  <1>9. w \in PadState
    BY <1>7, <1>8 DEF PadWritten, PadState
  <1>10. ASSUME d \notin doubt'
         PROVE  /\ stage = "SYN" /\ w = frame
                /\ last'[slot].buttons = frame.buttons /\ last'[slot].hat = frame.hat
    <2>1. stage = "SYN" /\ d \notin doubt /\ out = Changed(slot, frame)
      BY <1>1, <1>10
    <2>2. InStep(d) /\ LastTold(d) = asked[slot]
      BY <1>3, <2>1 DEF BInv, Linux, LastTold
    <2>3. /\ nodes[d].written.buttons = last[slot].buttons
          /\ nodes[d].written.hat = last[slot].hat
      BY <1>3, <2>2 DEF InStep
    <2>4. (nodes[d].written.buttons \ (out \ frame.buttons)) \cup (out \cap frame.buttons)
            = frame.buttons
      BY <2>1, <2>3 DEF Changed
    <2>5. w = [buttons |-> frame.buttons, stick |-> frame.stick, hat |-> frame.hat]
      BY <2>1, <2>3, <2>4 DEF PadWritten
    <2>6. w = frame
      BY <1>5, <2>5 DEF PadState
    <2>7. last'[slot].buttons = frame.buttons /\ last'[slot].hat = frame.hat
      BY <1>1, <1>4, <2>1 DEF Remembers, Seats
    <2> QED BY <2>1, <2>6, <2>7
  <1>11. /\ last' \in [PadSlots -> [buttons : SUBSET PadButtons, hat : 0 .. 1]]
         /\ \A s \in PadSlots \ {slot} : last'[s] = last[s]
    <2> DEFINE b == IF out = Changed(slot, frame) THEN frame.buttons ELSE last[slot].buttons
               h == IF stage \in {"HAT", "SYN"} THEN frame.hat ELSE last[slot].hat
    <2>1. last' = [last EXCEPT ![slot] = [last[slot] EXCEPT !.buttons = b, !.hat = h]]
      BY <1>1, <1>4 DEF Remembers, Seats
    <2>2. b \in SUBSET PadButtons /\ h \in 0 .. 1
      BY <1>5, <1>7
    <2> HIDE DEF b, h
    <2>3. [last[slot] EXCEPT !.buttons = b, !.hat = h] \in [buttons : SUBSET PadButtons, hat : 0 .. 1]
      BY <1>4, <2>2 DEF Seats
    <2> QED BY <1>4, <2>1, <2>3 DEF Seats
  <1>12. /\ asked' \in [PadSlots -> PadState] /\ asked'[slot] = frame
         /\ \A s \in PadSlots \ {slot} : asked'[s] = asked[s]
    BY <1>2, <1>4, <1>5 DEF Seats
  <1>13. Seats' /\ Known' = Known
    BY <1>2, <1>4, <1>11, <1>12 DEF Seats, Known, Pads
  <1>14. /\ LastTold(d)' = frame
         /\ \A e \in Known \ {d} : /\ LastTold(e)' = LastTold(e)
                                   /\ e[2] = "PAD" => last'[e[1]] = last[e[1]]
                                                      /\ asked'[e[1]] = asked[e[1]]
    BY <1>2, <1>3, <1>11, <1>12, NotAPad DEF Known, LastTold, Pad, Pads
  <1> HIDE DEF d, w
  <1>15. n \in NodeOf(d) /\ n.shown \in PadState /\ n.written = w
         /\ (stage = "SYN" => n.shown = w)
    BY <1>3, <1>6, <1>9 DEF After, NodeOf, CanShow, PadState
  <1>16. nodes' = Put(nodes, d, n)
    BY <1>1, <1>3, <1>4 DEF Put, d, w
  <1> HIDE DEF n
  <1>17. doubt' \subseteq doubt \cup {d} /\ doubt \subseteq doubt'
    BY <1>1
  <1>18. d \notin doubt' => /\ n.written = LastTold(d)' /\ n.shown = LastTold(d)'
                            /\ d[2] = "PAD" => /\ last'[d[1]].buttons = asked'[d[1]].buttons
                                               /\ last'[d[1]].hat = asked'[d[1]].hat
    BY <1>3, <1>10, <1>12, <1>14, <1>15
  <1>19. /\ BInv'
         /\ Promised!Only(d)
         /\ DOMAIN HostView = Known /\ DOMAIN HostView' = Known \cup {d}
         /\ HostView'[d] = [asked |-> LastTold(d)', shows |-> n.shown, sure |-> d \notin doubt']
    <2>1. Known' = Known \cup {d} /\ handles' = handles \cup {d}
      BY <1>1, <1>3, <1>4, <1>13
    <2> QED BY <1>2, <1>3, <1>13, <1>14, <1>15, <1>16, <1>17, <1>18, <2>1, LinuxOne
  <1>20. Promised!Told(d)
    <2>1. HostView'[d] \in [asked : CanShow(d), shows : CanShow(d), sure : BOOLEAN]
      BY <1>3, <1>5, <1>14, <1>15, <1>19 DEF CanShow, PadState
    <2>2. HostView'[d].sure => HostView'[d].shows = HostView'[d].asked
      <3>1. HostView'[d].sure = (d \notin doubt')
        BY <1>19
      <3>2. d \notin doubt' => HostView'[d].shows = HostView'[d].asked
        BY <1>18, <1>19
      <3> QED BY <3>1, <3>2, Zenon
    <2> QED BY <1>3, <1>19, <2>1, <2>2 DEF Promised!Told, Promised!State
  <1> QED BY <1>19, <1>20 DEF d

LEMMA LinuxKbmReport ==
  ASSUME BInv, system = "LINUX", NEW slot \in PadSlots, NEW dev \in KbmDevices,
         NEW keys \in SUBSET KeyCodes, KbmReport(slot, dev, keys)
  PROVE  BInv' /\ Promised!Told(<<slot, dev>>)
  <1> DEFINE d == <<slot, dev>>
             known == dev \in DOMAIN sessions[slot].held
             held == IF known THEN sessions[slot].held[dev] ELSE {}
             kernel == IF known THEN nodes ELSE NodeOpened(d)
  <1>1. /\ sessions[slot].pad /\ UNCHANGED <<system, asked, last>>
        /\ sessions' = [sessions EXCEPT ![slot].held = Put(@, dev, keys)]
        /\ UinputKeys(d, held, keys, kernel)
        /\ handles' = IF known THEN handles ELSE handles \cup {d}
    BY DEF KbmReport
  <1>2. d \in DeviceSet /\ d[2] # "PAD" /\ d[2] = dev /\ d[1] = slot
        /\ (d \in Known <=> known)
    BY NotAPad DEF Known, Pad, Pads, DeviceSet
  <1>3. Seats /\ handles = Known /\ doubt \subseteq Known
        /\ nodes = [e \in Known |-> nodes[e]] /\ DOMAIN nodes = Known
    BY DEF BInv, Linux
  <1>4. held \in SUBSET KeyCodes
    <2>1. sessions[slot].held \in Held
      BY <1>3 DEF Seats, Seat
    <2> QED BY <2>1, HeldIs
  <1>5. /\ DOMAIN kernel = Known \cup {d}
        /\ kernel = [e \in Known \cup {d} |-> kernel[e]]
        /\ \A e \in Known \ {d} : kernel[e] = nodes[e]
        /\ kernel[d] \in NodeOf(d)
        /\ d \notin doubt => kernel[d].written = Injected(held) /\ kernel[d].shown = Injected(held)
    <2>1. CASE known
      <3>1. LastTold(d) = Injected(held)
        BY <1>2, <2>1 DEF LastTold
      <3> QED BY <1>2, <1>3, <2>1, <3>1 DEF BInv, Linux, InStep
    <2>2. CASE ~known
      <3>1. RestOf(d) = {} /\ Injected({}) = {}
        BY <1>2 DEF RestOf, Injected
      <3>2. RestOf(d) \in CanShow(d)
        BY RestCanShow
      <3> QED BY <1>2, <1>3, <2>2, <3>1, <3>2 DEF NodeOpened, Put, NodeOf
    <2> QED BY <2>1, <2>2
  <1> HIDE DEF kernel, held, known, d
  <1>0. PICK out \in SUBSET KeyBatch(held, keys), syn \in BOOLEAN :
          /\ syn => out = KeyBatch(held, keys) /\ out # {}
          /\ IF syn \/ KeyBatch(held, keys) = {}
               THEN doubt' = IF Shares(held, keys) THEN doubt \cup {d} ELSE doubt
               ELSE doubt' = doubt \cup {d}
          /\ \E written \in KeysWritten(kernel[d].written, keys, out) :
               nodes' = [kernel EXCEPT ![d] = After(@, written, syn)]
    BY <1>1 DEF UinputKeys
  <1>6. /\ syn => out = KeyBatch(held, keys) /\ out # {}
        /\ doubt \subseteq doubt' /\ doubt' \subseteq doubt \cup {d}
        /\ d \notin doubt' => (syn \/ KeyBatch(held, keys) = {}) /\ ~Shares(held, keys)
    BY <1>0
  <1>6a. PICK written \in KeysWritten(kernel[d].written, keys, out) :
           nodes' = [kernel EXCEPT ![d] = After(@, written, syn)]
    BY <1>0
  <1> DEFINE n == After(kernel[d], written, syn)
  <1>7. /\ kernel[d].written \in SUBSET Injected(KeyCodes)
        /\ kernel[d].shown \in SUBSET Injected(KeyCodes)
    BY <1>2, <1>5 DEF NodeOf, CanShow
  <1>8. written \in SUBSET Injected(KeyCodes)
    BY <1>4, <1>6a, <1>7, BatchCanShow
  <1>9. n.written = written /\ n.shown = IF syn THEN written ELSE kernel[d].shown
    BY DEF After
  <1>10. n \in NodeOf(d)
    BY <1>2, <1>7, <1>8 DEF After, NodeOf, CanShow
  <1>11. nodes' = Put(nodes, d, n)
    BY <1>3, <1>5, <1>6a DEF Put
  <1>12. /\ Seats'
         /\ Known' = Known \cup {d}
         /\ LastTold(d)' = Injected(keys)
         /\ \A e \in Known \ {d} : LastTold(e)' = LastTold(e)
    BY <1>1, <1>3, SeatHolds DEF d
  <1>13. ASSUME d \notin doubt'
         PROVE  n.written = Injected(keys) /\ n.shown = Injected(keys)
    <2>1. /\ syn \/ KeyBatch(held, keys) = {}
          /\ ~Shares(held, keys)
          /\ out = KeyBatch(held, keys)
          /\ kernel[d].written = Injected(held) /\ kernel[d].shown = Injected(held)
      BY <1>5, <1>6, <1>13
    <2>2. written = Injected(keys)
      BY <1>4, <1>6a, <2>1, WholeBatch
    <2>3. CASE syn
      BY <1>9, <2>2, <2>3
    <2>4. CASE KeyBatch(held, keys) = {}
      <3>1. written = kernel[d].written
        BY <1>6a, <2>1, <2>4 DEF KeysWritten, Injected
      <3> QED BY <1>9, <2>1, <2>2, <3>1
    <2> QED BY <2>1, <2>3, <2>4
  <1>14. handles' = handles \cup {d}
    BY <1>1, <1>2, <1>3
  <1> HIDE DEF n
  <1>15. /\ BInv'
         /\ Promised!Only(d)
         /\ DOMAIN HostView = Known /\ DOMAIN HostView' = Known \cup {d}
         /\ HostView'[d] = [asked |-> LastTold(d)', shows |-> n.shown, sure |-> d \notin doubt']
    BY <1>1, <1>2, <1>6, <1>10, <1>11, <1>12, <1>13, <1>14, LinuxOne
  <1>16. Promised!Told(d)
    <2>1. Injected(keys) \in CanShow(d) /\ n.shown \in CanShow(d)
      BY <1>2, <1>10 DEF CanShow, NodeOf, Injected
    <2>2. HostView'[d] \in [asked : CanShow(d), shows : CanShow(d), sure : BOOLEAN]
      BY <1>12, <1>15, <2>1
    <2>3. HostView'[d].sure => HostView'[d].shows = HostView'[d].asked
      <3>1. HostView'[d].sure = (d \notin doubt')
        BY <1>15
      <3>2. d \notin doubt' => HostView'[d].shows = HostView'[d].asked
        BY <1>12, <1>13, <1>15
      <3> QED BY <3>1, <3>2, Zenon
    <2> QED BY <1>2, <1>15, <2>2, <2>3 DEF Promised!Told, Promised!State
  <1> QED BY <1>15, <1>16 DEF d

-----------------------------------------------------------------------------
(* Windows: only pads are devices, and one stream takes every key.           *)

KeysHeld == (UNION {Injected(AllHeld(slot)) : slot \in PadSlots}) \cup stuck

HeldBesides(slot) == UNION {Injected(AllHeld(s)) : s \in PadSlots \ {slot}}

LEMMA HeldApart ==
  ASSUME NEW slot \in PadSlots
  PROVE  /\ KeysHeld = Injected(AllHeld(slot)) \cup HeldBesides(slot) \cup stuck
         /\ KeysHeld' = Injected(AllHeld(slot)') \cup HeldBesides(slot)' \cup stuck'
  <1>1. ASSUME NEW x
        PROVE  x \in KeysHeld <=>
                 x \in Injected(AllHeld(slot)) \/ x \in HeldBesides(slot) \/ x \in stuck
    <2> DEFINE sets == {Injected(AllHeld(s)) : s \in PadSlots}
    <2>0. KeysHeld = (UNION sets) \cup stuck
      BY DEF KeysHeld
    <2>0a. \A h : h \in sets <=> \E s \in PadSlots : h = Injected(AllHeld(s))
      OBVIOUS
    <2> HIDE DEF sets
    <2>1. x \in KeysHeld <=>
            x \in stuck \/ \E s \in PadSlots : x \in Injected(AllHeld(s))
      <3>1. x \in UNION sets <=> \E h \in sets : x \in h
        OBVIOUS
      <3>2. (\E h \in sets : x \in h) <=> \E s \in PadSlots : x \in Injected(AllHeld(s))
        BY <2>0a, Zenon
      <3>3. x \in KeysHeld <=> x \in stuck \/ x \in UNION sets
        BY <2>0
      <3> QED BY <3>1, <3>2, <3>3
    <2>2. x \in HeldBesides(slot) <=>
            \E s \in PadSlots \ {slot} : x \in Injected(AllHeld(s))
      BY DEF HeldBesides
    <2> QED BY <2>1, <2>2
  <1>2. ASSUME NEW x
        PROVE  x \in KeysHeld' <=>
                 x \in Injected(AllHeld(slot)') \/ x \in HeldBesides(slot)' \/ x \in stuck'
    <2> DEFINE sets == {Injected(AllHeld(s)') : s \in PadSlots}
    <2>0. KeysHeld' = (UNION sets) \cup stuck'
      BY DEF KeysHeld, Injected
    <2>0a. \A h : h \in sets <=> \E s \in PadSlots : h = Injected(AllHeld(s)')
      OBVIOUS
    <2> HIDE DEF sets
    <2>1. x \in KeysHeld' <=>
            x \in stuck' \/ \E s \in PadSlots : x \in Injected(AllHeld(s)')
      <3>1. x \in UNION sets <=> \E h \in sets : x \in h
        OBVIOUS
      <3>2. (\E h \in sets : x \in h) <=> \E s \in PadSlots : x \in Injected(AllHeld(s)')
        BY <2>0a, Zenon
      <3>3. x \in KeysHeld' <=> x \in stuck' \/ x \in UNION sets
        BY <2>0
      <3> QED BY <3>1, <3>2, <3>3
    <2>2. x \in HeldBesides(slot)' <=>
            \E s \in PadSlots \ {slot} : x \in Injected(AllHeld(s)')
      BY DEF HeldBesides, Injected
    <2> QED BY <2>1, <2>2
  <1> QED BY <1>1, <1>2

LEMMA HeldBesidesSame ==
  ASSUME NEW slot \in PadSlots, \A s \in PadSlots \ {slot} : AllHeld(s)' = AllHeld(s)
  PROVE  HeldBesides(slot)' = HeldBesides(slot)
  BY DEF HeldBesides, Injected

LEMMA WindowsOne ==
  ASSUME BInv, system = "WINDOWS", system' = system, Seats',
         NEW slot \in PadSlots, NEW r \in PadState, slot \notin left, left' = left,
         Pads' = Pads \cup {slot}, attached' = Put(attached, slot, r),
         doubt' \ {Pad(slot)} = doubt \ {Pad(slot)},
         \A s \in PadSlots \ {slot} : asked'[s] = asked[s],
         Pad(slot) \notin doubt' => r = asked'[slot],
         desktop' \subseteq KeysHeld'
  PROVE  /\ BInv'
         /\ Promised!Only(Pad(slot))
         /\ DOMAIN HostView = {Pad(s) : s \in PadsThere}
         /\ DOMAIN HostView' = {Pad(s) : s \in PadsThere} \cup {Pad(slot)}
         /\ HostView'[Pad(slot)] = [asked |-> asked'[slot], shows |-> r,
                                    sure |-> Pad(slot) \notin doubt']
  <1> DEFINE d == Pad(slot)
  <1>1. /\ attached \in [PadsThere -> PadState] /\ left \subseteq PadSlots /\ Pads \cap left = {}
        /\ doubt \subseteq {Pad(s) : s \in PadsThere}
    BY DEF BInv, Windows
  <1>0. /\ d \in DeviceSet /\ d[1] = slot /\ d[2] = "PAD"
        /\ \A s \in PadSlots : Pad(s)[1] = s /\ Pad(s)[2] = "PAD"
        /\ PadsThere \subseteq PadSlots /\ PadsThere' = PadsThere \cup {slot}
    BY <1>1 DEF Pad, DeviceSet, Pads, PadsThere
  <1>2. /\ attached' \in [PadsThere' -> PadState]
        /\ attached'[slot] = r
        /\ \A s \in PadsThere \ {slot} : attached'[s] = attached[s]
    BY <1>0, <1>1 DEF Put
  <1>3. \A s \in PadsThere \ {slot} : Pad(s) # d /\ (Pad(s) \in doubt' <=> Pad(s) \in doubt)
    BY <1>0
  <1>4. \A s \in PadsThere' : Pad(s) \notin doubt' => attached'[s] = asked'[s]
    BY <1>0, <1>2, <1>3 DEF BInv, Windows
  <1>4a. doubt' \subseteq {Pad(s) : s \in PadsThere'}
    BY <1>0, <1>1
  <1>4b. Pads' \cap left' = {} /\ left' \subseteq PadSlots
    BY <1>1
  <1>5. Windows'
    BY <1>2, <1>4, <1>4a, <1>4b DEF Windows, KeysHeld, PadState, Pad
  <1>6. BInv'
    BY <1>5 DEF BInv
  <1>7. /\ Present = {Pad(s) : s \in PadsThere}
        /\ Present' = Present \cup {d}
        /\ system # "LINUX" /\ system' # "LINUX"
    BY <1>0, <1>1, <1>2 DEF Present
  <1>8. \A e \in Present \ {d} : \E s \in PadsThere \ {slot} : e = Pad(s)
    BY <1>7
  <1>9. \A e \in Present \ {d} : LastTold(e)' = LastTold(e)
    BY <1>0, <1>8 DEF LastTold
  <1>10. \A e \in Present \ {d} : Shown(e)' = Shown(e)
    BY <1>0, <1>2, <1>7, <1>8 DEF Shown
  <1>11. \A e \in Present \ {d} : e \in doubt' <=> e \in doubt
    BY <1>3, <1>8
  <1>12. LastTold(d)' = asked'[slot] /\ Shown(d)' = r
    BY <1>0, <1>2, <1>7 DEF LastTold, Shown
  <1> HIDE DEF d
  <1>13. /\ Promised!Only(d)
         /\ DOMAIN HostView = Present /\ DOMAIN HostView' = Present'
         /\ HostView'[d] = [asked |-> LastTold(d)', shows |-> Shown(d)', sure |-> d \notin doubt']
    BY <1>0, <1>7, <1>9, <1>10, <1>11, OnlyOne
  <1> QED BY <1>6, <1>7, <1>12, <1>13 DEF d

\* A step no pad on the bus has a part in, even if it is the last of its session.
LEMMA WindowsSame ==
  ASSUME BInv, system = "WINDOWS", system' = system, Seats',
         PadsThere' = PadsThere, left' \subseteq PadSlots, Pads' \cap left' = {},
         attached' = attached, doubt' = doubt,
         \A s \in PadsThere : asked'[s] = asked[s],
         desktop' \subseteq KeysHeld'
  PROVE  BInv' /\ Promised!Vanish
  <1>1. attached \in [PadsThere -> PadState]
    BY DEF BInv, Windows
  <1>2. Windows'
    <2>1. \A slot \in PadsThere' : Pad(slot) \notin doubt' => attached'[slot] = asked'[slot]
      BY DEF BInv, Windows
    <2>2. doubt' \subseteq {Pad(slot) : slot \in PadsThere'}
      BY DEF BInv, Windows
    <2> QED BY <1>1, <2>1, <2>2 DEF Windows, KeysHeld, PadState, Pad
  <1>3. BInv'
    BY <1>2 DEF BInv
  <1>4. Present = {Pad(s) : s \in PadsThere} /\ Present' = Present
        /\ system # "LINUX" /\ system' # "LINUX"
    BY <1>1 DEF Present
  <1>5. \A e \in Present : LastTold(e)' = LastTold(e) /\ Shown(e)' = Shown(e)
    BY <1>4 DEF LastTold, Shown, Pad
  <1> QED BY <1>3, <1>4, <1>5, OnlyGone

LEMMA WindowsHello ==
  ASSUME BInv, system = "WINDOWS", NEW slot \in PadSlots, Hello(slot)
  PROVE  BInv' /\ (Promised!Vanish \/ Promised!Appears(Pad(slot)))
  <1>1. /\ UNCHANGED <<system, doubt, left, last, desktop, stuck>>
        /\ ~sessions[slot].pad
    BY DEF Hello, PadCreated, PadRefused, linuxVars
  <1>2. Seats /\ attached \in [PadsThere -> PadState] /\ slot \notin Pads
        /\ left \subseteq PadSlots /\ Pads \cap left = {}
        /\ doubt \subseteq {Pad(s) : s \in PadsThere} /\ PadsThere \subseteq PadSlots
        /\ desktop \subseteq KeysHeld
    BY <1>1 DEF BInv, Windows, Pads, KeysHeld, PadsThere
  <1>3. CASE /\ VigemAdds(slot)
             /\ sessions' = [sessions EXCEPT ![slot].pad = TRUE]
             /\ asked' = [asked EXCEPT ![slot] = AtRest]
    <2>1. slot \notin PadsThere /\ slot \notin left /\ attached' = Put(attached, slot, AtRest)
      BY <1>2, <1>3 DEF VigemAdds, PadsThere
    <2>3. /\ Seats' /\ Pads' = Pads \cup {slot}
          /\ \A s \in PadSlots : AllHeld(s)' = AllHeld(s)
      BY <1>1, <1>2, <1>3, SeatTaken
    <2>4. KeysHeld' = KeysHeld
      BY <1>1, <2>3 DEF KeysHeld
    <2>5. AtRest \in PadState /\ asked'[slot] = AtRest
          /\ \A s \in PadSlots \ {slot} : asked'[s] = asked[s]
      BY <1>2, <1>3 DEF AtRest, PadState, Seats
    <2>6. Pad(slot) \notin {Pad(s) : s \in PadsThere}
      BY <2>1 DEF Pad
    <2>7. /\ BInv'
          /\ Promised!Only(Pad(slot))
          /\ DOMAIN HostView = {Pad(s) : s \in PadsThere}
          /\ DOMAIN HostView' = {Pad(s) : s \in PadsThere} \cup {Pad(slot)}
          /\ HostView'[Pad(slot)] = [asked |-> asked'[slot], shows |-> AtRest,
                                     sure |-> Pad(slot) \notin doubt']
      <3>1. /\ desktop' \subseteq KeysHeld' /\ left' = left
            /\ doubt' \ {Pad(slot)} = doubt \ {Pad(slot)} /\ system' = system
        BY <1>1, <1>2, <2>4
      <3> QED BY <2>1, <2>3, <2>5, <3>1, WindowsOne
    <2>8. /\ (Pad(slot) \notin doubt') = TRUE
          /\ RestOf(Pad(slot)) = AtRest
      BY <1>1, <1>2, <2>6 DEF RestOf, Pad
    <2> QED BY <2>5, <2>6, <2>7, <2>8 DEF Promised!Appears
  <1>4. CASE UNCHANGED <<attached, sessions, asked>>
    <2>1. Seats' /\ PadsThere' = PadsThere /\ Pads' = Pads /\ KeysHeld' = KeysHeld
      BY <1>1, <1>2, <1>4 DEF Seats, Pads, PadsThere, KeysHeld, AllHeld
    <2> QED BY <1>1, <1>2, <1>4, <2>1, WindowsSame
  <1> QED BY <1>3, <1>4 DEF Hello, PadCreated, PadRefused, VigemRefuses

LEMMA WindowsInput ==
  ASSUME BInv, system = "WINDOWS", NEW slot \in PadSlots, NEW frame \in Frames,
         Input(slot, frame)
  PROVE  BInv' /\ Promised!Told(Pad(slot))
  <1>1. /\ UNCHANGED <<system, last, desktop, stuck, left, sessions>>
        /\ asked' = [asked EXCEPT ![slot] = frame]
        /\ sessions[slot].pad
        /\ VigemUpdate(slot, frame)
    BY DEF Input, linuxVars
  <1>2. Seats /\ attached \in [PadsThere -> PadState] /\ slot \in Pads /\ slot \in PadsThere
        /\ slot \notin left /\ desktop \subseteq KeysHeld
    BY <1>1 DEF BInv, Windows, Pads, KeysHeld, PadsThere
  <1>3. frame \in PadState
    BY BackendsAssumption DEF PadState
  <1>4. /\ asked' \in [PadSlots -> PadState] /\ asked'[slot] = frame
        /\ \A s \in PadSlots \ {slot} : asked'[s] = asked[s]
    BY <1>1, <1>2, <1>3 DEF Seats
  <1>5. Seats' /\ Pads' = Pads /\ KeysHeld' = KeysHeld
    BY <1>1, <1>2, <1>4 DEF Seats, Pads, KeysHeld, AllHeld
  <1>6. PICK r \in PadState :
          /\ attached' = Put(attached, slot, r)
          /\ doubt' \ {Pad(slot)} = doubt \ {Pad(slot)}
          /\ Pad(slot) \notin doubt' => r = frame
    <2>1. CASE attached' = [attached EXCEPT ![slot] = frame] /\ doubt' = doubt \ {Pad(slot)}
      <3>1. attached' = Put(attached, slot, frame)
        BY <1>2, <2>1 DEF Put
      <3> QED BY <1>2, <1>3, <2>1, <3>1
    <2>2. CASE attached' = attached /\ doubt' = doubt \cup {Pad(slot)}
      <3>1. attached' = Put(attached, slot, attached[slot]) /\ attached[slot] \in PadState
        BY <1>2, <2>2 DEF Put
      <3> QED BY <1>2, <2>2, <3>1
    <2> QED BY <1>1, <2>1, <2>2 DEF VigemUpdate
  <1>7. /\ BInv'
        /\ Promised!Only(Pad(slot))
        /\ DOMAIN HostView = {Pad(s) : s \in PadsThere}
        /\ DOMAIN HostView' = {Pad(s) : s \in PadsThere} \cup {Pad(slot)}
        /\ HostView'[Pad(slot)] = [asked |-> asked'[slot], shows |-> r,
                                   sure |-> Pad(slot) \notin doubt']
    <2>1. Pads' = Pads \cup {slot} /\ desktop' \subseteq KeysHeld' /\ left' = left
          /\ (Pad(slot) \notin doubt' => r = asked'[slot]) /\ system' = system
      BY <1>1, <1>2, <1>4, <1>5, <1>6
    <2> QED BY <1>2, <1>4, <1>5, <1>6, <2>1, WindowsOne
  <1>8. Promised!Told(Pad(slot))
    <2>1. HostView'[Pad(slot)] \in [asked : CanShow(Pad(slot)), shows : CanShow(Pad(slot)),
                                    sure : BOOLEAN]
      BY <1>3, <1>4, <1>7 DEF CanShow, PadState, Pad
    <2>2. HostView'[Pad(slot)].sure => HostView'[Pad(slot)].shows = HostView'[Pad(slot)].asked
      <3>1. HostView'[Pad(slot)].sure = (Pad(slot) \notin doubt')
        BY <1>7
      <3>2. Pad(slot) \notin doubt' => HostView'[Pad(slot)].shows = HostView'[Pad(slot)].asked
        BY <1>4, <1>6, <1>7
      <3> QED BY <3>1, <3>2, Zenon
    <2>3. Pad(slot) \in DOMAIN HostView /\ Pad(slot) \in DOMAIN HostView'
      BY <1>2, <1>7
    <2> QED BY <1>7, <2>1, <2>2, <2>3 DEF Promised!Told, Promised!State
  <1> QED BY <1>7, <1>8

\* Whatever SendInput took of a batch: a key that is down afterwards is one the
\* batch was to leave down, or one whose release was dropped.
LEMMA TakenKeys ==
  ASSUME NEW held, NEW keys, NEW taken \in SUBSET KeyBatch(held, keys),
         Taken(KeyBatch(held, keys), taken, keys),
         NEW rest, desktop \subseteq Injected(held) \cup rest \cup stuck
  PROVE  desktop' \subseteq Injected(keys) \cup rest \cup stuck'
  <1>1. /\ desktop' = (desktop \ Injected(taken \ keys)) \cup Injected(taken \cap keys)
        /\ stuck' = (stuck \ Injected(taken \ keys))
                      \cup Injected((KeyBatch(held, keys) \ taken) \ keys)
    BY DEF Taken
  <1>2. Injected(taken \cap keys) \subseteq Injected(keys)
    BY DEF Injected
  <1>3. ASSUME NEW x \in Injected(held), x \notin Injected(keys), x \notin Injected(taken \ keys)
        PROVE  x \in Injected((KeyBatch(held, keys) \ taken) \ keys)
    <2>1. PICK c \in held : x = Evdev[c] /\ x # 0
      BY DEF Injected
    <2>2. c \notin keys
      BY <1>3, <2>1 DEF Injected
    <2>3. c \in KeyBatch(held, keys) /\ c \notin taken
      BY <1>3, <2>1, <2>2 DEF KeyBatch, Injected
    <2> QED BY <2>1, <2>2, <2>3 DEF Injected
  <1> QED BY <1>1, <1>2, <1>3

LEMMA WindowsKbmReport ==
  ASSUME BInv, system = "WINDOWS", NEW slot \in PadSlots, NEW dev \in KbmDevices,
         NEW keys \in SUBSET KeyCodes, KbmReport(slot, dev, keys)
  PROVE  BInv' /\ Promised!Vanish
  <1> DEFINE h == sessions[slot].held
             known == dev \in DOMAIN h
             held == IF known THEN h[dev] ELSE {}
             others == UNION {h[x] : x \in DOMAIN h \ {dev}}
             rest == Injected(others) \cup HeldBesides(slot)
  <1>1. /\ UNCHANGED <<system, asked, last, attached, doubt, left>>
        /\ sessions[slot].pad
        /\ SendInput(held, keys)
        /\ sessions' = [sessions EXCEPT ![slot].held = Put(@, dev, keys)]
    BY DEF KbmReport, linuxVars
  <1>2. Seats /\ desktop \subseteq KeysHeld /\ left \subseteq PadSlots /\ Pads \cap left = {}
    BY DEF BInv, Windows, KeysHeld
  <1>3. /\ Seats'
        /\ Pads' = Pads
        /\ \A s \in PadSlots \ {slot} : AllHeld(s)' = AllHeld(s)
        /\ AllHeld(slot)' = keys \cup others
    BY <1>1, <1>2, SeatHolds
  <1>4. AllHeld(slot) \subseteq held \cup others
    BY DEF AllHeld
  <1> HIDE DEF others, held, known, h
  <1>5. Injected(AllHeld(slot)) \subseteq Injected(held) \cup Injected(others)
    BY <1>4 DEF Injected
  <1>6. desktop \subseteq Injected(held) \cup rest \cup stuck
    BY <1>2, <1>5, HeldApart
  <1>7. Injected(keys) \cup rest \cup stuck' \subseteq KeysHeld'
    <2>1. Injected(keys) \cup Injected(others) \subseteq Injected(AllHeld(slot)')
      BY <1>3 DEF Injected
    <2>2. HeldBesides(slot)' = HeldBesides(slot)
      BY <1>3, HeldBesidesSame
    <2> QED BY <2>1, <2>2, HeldApart
  <1> HIDE DEF rest
  <1>8. desktop' \subseteq KeysHeld'
    <2>1. PICK taken \in SUBSET KeyBatch(held, keys) : Taken(KeyBatch(held, keys), taken, keys)
      BY <1>1 DEF SendInput
    <2> QED BY <1>6, <1>7, <2>1, TakenKeys
  <1>9. PadsThere' = PadsThere
    BY <1>1, <1>3 DEF PadsThere
  <1> QED BY <1>1, <1>2, <1>3, <1>8, <1>9, WindowsSame

\* A pad goes from the bus.
LEMMA WindowsGone ==
  ASSUME BInv, system = "WINDOWS", system' = system, Seats', NEW slot \in PadSlots,
         slot \in Pads, Pads' = Pads \ {slot}, left' = left,
         attached' = Lacking(attached, {slot}), doubt' = doubt \ {Pad(slot)}, asked' = asked,
         desktop' \subseteq KeysHeld'
  PROVE  BInv' /\ Promised!Vanish
  <1>1. /\ attached \in [PadsThere -> PadState] /\ left \subseteq PadSlots /\ Pads \cap left = {}
        /\ doubt \subseteq {Pad(s) : s \in PadsThere}
    BY DEF BInv, Windows
  <1>2. /\ \A s : Pad(s)[1] = s /\ Pad(s)[2] = "PAD"
        /\ PadsThere' = PadsThere \ {slot}
    BY <1>1 DEF Pad, PadsThere
  <1>3. /\ attached' \in [PadsThere' -> PadState]
        /\ \A s \in PadsThere' : attached'[s] = attached[s]
    BY <1>1, <1>2 DEF Lacking
  <1>4. /\ \A s \in PadsThere' : Pad(s) \in doubt' <=> Pad(s) \in doubt
        /\ doubt' \subseteq {Pad(s) : s \in PadsThere'}
    BY <1>1, <1>2
  <1>5. Windows'
    <2>1. \A s \in PadsThere' : Pad(s) \notin doubt' => attached'[s] = asked'[s]
      BY <1>2, <1>3, <1>4 DEF BInv, Windows
    <2>2. left' \subseteq PadSlots /\ Pads' \cap left' = {}
      BY <1>1
    <2> QED BY <1>3, <1>4, <2>1, <2>2 DEF Windows, KeysHeld, PadState, Pad
  <1>6. BInv'
    BY <1>5 DEF BInv
  <1>7. /\ Present = {Pad(s) : s \in PadsThere} /\ Present' = {Pad(s) : s \in PadsThere'}
        /\ system # "LINUX" /\ system' # "LINUX"
    BY <1>1, <1>3 DEF Present
  <1>8. \A e \in Present' : /\ LastTold(e)' = LastTold(e) /\ Shown(e)' = Shown(e)
                            /\ e \in doubt' <=> e \in doubt
    <2>1. ASSUME NEW s \in PadsThere'
          PROVE  /\ LastTold(Pad(s))' = LastTold(Pad(s)) /\ Shown(Pad(s))' = Shown(Pad(s))
                 /\ Pad(s) \in doubt' <=> Pad(s) \in doubt
      BY <1>2, <1>3, <1>4, <1>7 DEF LastTold, Shown
    <2> QED BY <1>7, <2>1
  <1>9. Present' \subseteq Present
    BY <1>2, <1>7
  <1> QED BY <1>6, <1>8, <1>9, OnlyGone

LEMMA WindowsLeave ==
  ASSUME BInv, system = "WINDOWS", NEW slot \in PadSlots, Leave(slot)
  PROVE  BInv' /\ Promised!Vanish
  <1> DEFINE rest == HeldBesides(slot)
  <1>1. /\ UNCHANGED <<system, asked, last>>
        /\ sessions[slot].pad
        /\ sessions' = [sessions EXCEPT ![slot] = [pad |-> FALSE, held |-> << >>]]
        /\ VigemLeaves(slot, AllHeld(slot))
    BY DEF Leave, linuxVars
  <1>2. Seats /\ desktop \subseteq KeysHeld /\ left \subseteq PadSlots /\ Pads \cap left = {}
        /\ slot \in Pads
    BY <1>1 DEF BInv, Windows, KeysHeld, Pads
  <1>3. /\ Seats'
        /\ Pads' = Pads \ {slot}
        /\ \A s \in PadSlots \ {slot} : AllHeld(s)' = AllHeld(s)
    BY <1>1, <1>2, SeatLeft
  <1>4. desktop \subseteq Injected(AllHeld(slot)) \cup rest \cup stuck
    BY <1>2, HeldApart
  <1>5. Injected({}) \cup rest \cup stuck' \subseteq KeysHeld'
    <2>1. HeldBesides(slot)' = HeldBesides(slot)
      BY <1>3, HeldBesidesSame
    <2>2. Injected({}) = {}
      BY DEF Injected
    <2> QED BY <2>1, <2>2, HeldApart
  <1> HIDE DEF rest
  <1>6. desktop' \subseteq KeysHeld'
    <2>1. PICK taken \in SUBSET KeyBatch(AllHeld(slot), {}) :
                 Taken(KeyBatch(AllHeld(slot), {}), taken, {})
      BY <1>1 DEF VigemLeaves
    <2> QED BY <1>4, <1>5, <2>1, TakenKeys
  <1>7. CASE left' = left \cup {slot} /\ UNCHANGED <<attached, doubt>>
    <2>1. PadsThere' = PadsThere /\ left' \subseteq PadSlots /\ Pads' \cap left' = {}
      BY <1>2, <1>3, <1>7 DEF PadsThere
    <2> QED BY <1>1, <1>3, <1>6, <1>7, <2>1, WindowsSame
  <1>8. CASE /\ attached' = Lacking(attached, {slot}) /\ doubt' = doubt \ {Pad(slot)}
             /\ UNCHANGED left
    BY <1>1, <1>2, <1>3, <1>6, <1>8, WindowsGone
  <1> QED BY <1>1, <1>7, <1>8 DEF VigemLeaves, VigemRemoves

-----------------------------------------------------------------------------

\* No session is left when the backend is shut down: nothing is left to destroy but
\* what the bus kept, which goes with the bus.
LEMMA ShutdownSame ==
  ASSUME BInv, Shutdown
  PROVE  BInv' /\ Promised!Vanish
  <1>1. /\ UNCHANGED <<system, sessions, desktop, asked, stuck, last>>
        /\ \A slot \in PadSlots : ~sessions[slot].pad
        /\ nodes' = Lacking(nodes, DeviceSet \cap handles)
        /\ handles' = handles \ DeviceSet
        /\ attached' = << >> /\ left' = {} /\ doubt' = {}
    BY DEF Shutdown, DestroyAll
  <1>2. Seats /\ Pads = {} /\ Known = {}
    BY <1>1 DEF BInv, Seats, Known, Pads
  <1>3. Seats' /\ Pads' = Pads /\ Known' = Known
    BY <1>1, <1>2 DEF Seats, Known, Pads
  <1>4. CASE system = "LINUX"
    <2>1. handles = {} /\ handles' = {} /\ nodes' = [d \in {} |-> nodes[d]]
      BY <1>1, <1>2, <1>4 DEF BInv, Linux, Lacking
    <2>2. Linux'
      BY <1>1, <1>2, <1>3, <2>1 DEF Linux
    <2>3. BInv'
      BY <1>1, <1>2, <1>3, <1>4, <2>2 DEF BInv
    <2>4. Present' = {}
      BY <1>1, <1>4, <2>1 DEF Present
    <2> QED BY <2>3, <2>4, OnlyGone
  <1>5. CASE system = "WINDOWS"
    <2>1. attached' \in [{} -> PadState] /\ DOMAIN attached' = {}
      BY <1>1
    <2>2. KeysHeld' = KeysHeld
      BY <1>1 DEF KeysHeld, AllHeld
    <2>3. desktop' \subseteq KeysHeld'
      BY <1>1, <1>5, <2>2 DEF BInv, Windows, KeysHeld
    <2>4. Windows'
      <3>1. PadsThere' = {}
        BY <1>1, <1>2, <1>3 DEF PadsThere
      <3> QED BY <1>1, <2>1, <2>3, <3>1 DEF Windows, KeysHeld, PadState
    <2>5. BInv'
      BY <1>1, <1>2, <1>3, <1>5, <2>4 DEF BInv
    <2>6. Present' = {}
      BY <1>1, <1>5, <2>1 DEF Present
    <2> QED BY <2>5, <2>6, OnlyGone
  <1> QED BY <1>4, <1>5 DEF BInv

LEMMA AsPromised ==
  ASSUME \/ Promised!Vanish
         \/ \E slot \in PadSlots : Promised!Appears(Pad(slot)) \/ Promised!Told(Pad(slot))
         \/ \E slot \in PadSlots, dev \in KbmDevices : Promised!Told(<<slot, dev>>)
  PROVE  Promised!HostDevicesNext
  <1>1. ASSUME NEW slot \in PadSlots
        PROVE  Pad(slot) \in DeviceSet /\ \A dev \in KbmDevices : <<slot, dev>> \in DeviceSet
    BY DEF Pad, DeviceSet
  <1>2. ASSUME NEW slot \in PadSlots, Promised!Appears(Pad(slot)) \/ Promised!Told(Pad(slot))
        PROVE  Promised!HostDevicesNext
    BY <1>1, <1>2, Zenon DEF Promised!HostDevicesNext
  <1>3. ASSUME NEW slot \in PadSlots, NEW dev \in KbmDevices, Promised!Told(<<slot, dev>>)
        PROVE  Promised!HostDevicesNext
    BY <1>1, <1>3, Zenon DEF Promised!HostDevicesNext
  <1>4. Promised!Vanish => Promised!HostDevicesNext
    BY DEF Promised!HostDevicesNext
  <1> QED BY <1>2, <1>3, <1>4

LEMMA BackendStep ==
  ASSUME BInv, BackendsNext
  PROVE  BInv' /\ Promised!HostDevicesNext
  <1>0. system = "LINUX" \/ system = "WINDOWS"
    BY DEF BInv
  <1>1. ASSUME NEW slot \in PadSlots, Hello(slot)
        PROVE  BInv' /\ (Promised!Vanish \/ Promised!Appears(Pad(slot)))
    BY <1>0, <1>1, LinuxHello, WindowsHello
  <1>2. ASSUME NEW slot \in PadSlots, Leave(slot)
        PROVE  BInv' /\ Promised!Vanish
    BY <1>0, <1>2, LinuxLeave, WindowsLeave
  <1>3. ASSUME NEW slot \in PadSlots, NEW frame \in Frames, Input(slot, frame)
        PROVE  BInv' /\ Promised!Told(Pad(slot))
    BY <1>0, <1>3, LinuxInput, WindowsInput
  <1>4. ASSUME NEW slot \in PadSlots, NEW dev \in KbmDevices, KbmDropped(slot, dev)
        PROVE  BInv' /\ Promised!Vanish
    BY <1>4, LinuxKbmDropped
  <1>5. ASSUME NEW slot \in PadSlots, NEW dev \in KbmDevices, NEW keys \in SUBSET KeyCodes,
               KbmReport(slot, dev, keys)
        PROVE  BInv' /\ (Promised!Vanish \/ Promised!Told(<<slot, dev>>))
    BY <1>0, <1>5, LinuxKbmReport, WindowsKbmReport
  <1>6. CASE Shutdown
    BY <1>6, ShutdownSame, AsPromised
  <1>7. CASE ~Shutdown
    <2>1. PICK slot \in PadSlots :
            \/ Hello(slot) \/ Leave(slot)
            \/ \E frame \in Frames : Input(slot, frame)
            \/ \E dev \in KbmDevices :
                 \/ KbmDropped(slot, dev)
                 \/ \E keys \in SUBSET KeyCodes : KbmReport(slot, dev, keys)
      BY <1>7 DEF BackendsNext
    <2>2. BInv' /\ \/ Promised!Vanish
                   \/ Promised!Appears(Pad(slot)) \/ Promised!Told(Pad(slot))
                   \/ \E dev \in KbmDevices : Promised!Told(<<slot, dev>>)
      BY <1>1, <1>2, <1>3, <1>4, <1>5, <2>1
    <2> QED BY <2>2, AsPromised
  <1> QED BY <1>6, <1>7

LEMMA BackendInit ==
  ASSUME BackendsInit
  PROVE  BInv /\ Promised!HostDevicesInit
  <1>1. << >> \in Held /\ DOMAIN << >> = {} /\ AtRest \in PadState
    BY HeldEmpty DEF AtRest, PadState
  <1>2. [pad |-> FALSE, held |-> << >>] \in Seat
    BY <1>1 DEF Seat
  <1>3. /\ \A slot \in PadSlots : sessions[slot] = [pad |-> FALSE, held |-> << >>]
        /\ Seats
    BY <1>1, <1>2 DEF BackendsInit, Seats
  <1>4. Known = {} /\ Pads = {}
    BY <1>1, <1>3 DEF Known, Pads
  <1>5. nodes = [d \in {} |-> nodes[d]] /\ attached \in [{} -> PadState]
    BY DEF BackendsInit
  <1>5a. PadsThere = {}
    BY <1>4 DEF BackendsInit, PadsThere
  <1>6. BInv
    BY <1>3, <1>4, <1>5, <1>5a, BackendsAssumption DEF BackendsInit, BInv, Linux, Windows
  <1>7. Present = {}
    BY <1>1 DEF BackendsInit, Present
  <1>8. HostView = [d \in {} |-> 0]
    BY <1>7 DEF HostView
  <1>9. << >> = [d \in {} |-> 0]
    OBVIOUS
  <1> QED BY <1>6, <1>8, <1>9 DEF Promised!HostDevicesInit

THEOREM BackendsSafe ==
  BackendsSpec => []BInv
  <1>1. BInv /\ [BackendsNext]_backendVars => BInv'
    <2> SUFFICES ASSUME BInv, [BackendsNext]_backendVars
                 PROVE  BInv'
      OBVIOUS
    <2>1. CASE UNCHANGED backendVars
      <3>1. UNCHANGED <<system, sessions, handles, last, nodes, attached, desktop, asked, doubt, stuck, left>>
        BY <2>1 DEF backendVars, linuxVars, windowsVars, histories
      <3>2. Known' = Known /\ Pads' = Pads /\ Seats' /\ KeysHeld' = KeysHeld
        BY <3>1 DEF Known, Pads, BInv, Seats, KeysHeld, AllHeld
      <3>3. Linux => Linux'
        BY <3>1, <3>2 DEF Linux, InStep, LastTold, NodeOf, CanShow
      <3>4. Windows => Windows'
        BY <3>1, <3>2 DEF Windows, PadsThere, KeysHeld, PadState, Pad
      <3> QED BY <3>1, <3>2, <3>3, <3>4 DEF BInv
    <2> QED BY <2>1, BackendStep
  <1> QED BY <1>1, BackendInit, PTL DEF BackendsSpec

\* uinput.c's fail labels, vigem.c, free_session: after every call, failed ones
\* included, there is a device exactly for what the server knows of, but for a pad
\* the bus would not take back, whose slot has no session; and on Windows no key is
\* down that nobody holds unless its release was dropped.
THEOREM NothingIsLeftBehind ==
  BackendsSpec => []NothingLeftBehind
  <1>1. BInv => NothingLeftBehind
    BY DEF BInv, Linux, Windows, NothingLeftBehind, PadsThere
  <1> QED BY <1>1, BackendsSafe, PTL

\* uinput.c, vigem.c and sendinput.c implement what backend.h promises: a device
\* appears at rest, shows what it was last told unless a write to it failed, and
\* is disturbed by nothing that is done to another.
THEOREM BackendsKeepTheirPromise ==
  BackendsSpec => ImplementsHostDevices
  <1>1. BInv /\ [BackendsNext]_backendVars => [Promised!HostDevicesNext]_HostView
    <2> SUFFICES ASSUME BInv, [BackendsNext]_backendVars
                 PROVE  Promised!HostDevicesNext \/ HostView' = HostView
      OBVIOUS
    <2>1. CASE UNCHANGED backendVars
      BY <2>1 DEF backendVars, linuxVars, windowsVars, histories, HostView, Present, LastTold, Shown
    <2> QED BY <2>1, BackendStep
  <1> QED BY <1>1, BackendInit, BackendsSafe, PTL
       DEF BackendsSpec, ImplementsHostDevices, Promised!HostDevicesSpec

=============================================================================
