------------------------------ MODULE Backends ------------------------------
(***************************************************************************)
(* The two backends behind backend.h: uinput.c on Linux, and on Windows    *)
(* vigem.c for pads with sendinput.c for keyboards, joined by win32.c.     *)
(* The caller is reduced to what reaches a backend: server.c creates a pad *)
(* for a HELLO, updates it for every input, and lets everything go at the  *)
(* end of a session; kbm.c creates a keyboard at the first report for it   *)
(* and injects the difference to the last one.  It ignores what these      *)
(* calls return.                                                           *)
(*                                                                         *)
(* On Linux a device is an open descriptor of /dev/uinput.  The kernel     *)
(* keeps what was written to it and shows it to readers at the next        *)
(* SYN_REPORT; writes and ioctls may fail anywhere, at most MaxFaults      *)
(* times.                                                                  *)
(***************************************************************************)
EXTENDS Integers, FiniteSets

CONSTANTS
  PadSlots,     \* 0..MAX_PADS-1
  KbmDevices,   \* the apad_kbm_device values in use
  PadButtons,   \* buttons of g_btn_map, in its order
  Frames,       \* the pad states the mapping engine produces
  KeyCodes,     \* usages a keyboard report can hold
  Evdev,        \* apad_hid_to_evdev: usage -> key code, 0 for none
  Systems,      \* "LINUX", "WINDOWS"
  MaxFaults     \* bound: failing calls

ASSUME BackendsAssumption ==
  /\ PadSlots \subseteq Nat /\ MaxFaults \in Nat
  /\ KbmDevices \subseteq {"KEYBOARD", "MOUSE", "MEDIA"}
  /\ PadButtons \subseteq Nat /\ KeyCodes \subseteq Nat
  /\ Frames \subseteq [buttons : SUBSET PadButtons, stick : 0..1, hat : 0..1]
  /\ Evdev \in [KeyCodes -> Nat]
  /\ Systems \subseteq {"LINUX", "WINDOWS"}

VARIABLES
  system,      \* which backend was linked in
  running,     \* between init and shutdown
  sessions,    \* what the server believes: slot -> pad_created, and each
               \* created keyboard with the keys it believes are held
  handles,     \* the devices whose g_pads[].fd or g_kbm[] field holds a descriptor
  last,        \* g_pads[].last_buttons, last_hat
  nodes,       \* the kernel's side: for every open descriptor, named by the
               \* device it was opened for, what was written to it and what
               \* readers have been shown
  bus,         \* g_client # NULL
  attached,    \* vigem: slot whose target is plugged in -> the report the bus
               \* shows for it
  desktop,     \* the keys held down in the one input stream of the desktop
  faults,      \* calls that have failed
  \* history
  asked,       \* slot -> the frame its pad was last told
  doubt,       \* devices there are a write to which has failed
  stuck,       \* keys whose release SendInput dropped
  left,        \* slots whose pad the bus would not take back
  refused      \* a HELLO was answered with "virtual pad creation failed"

linuxVars   == <<handles, last, nodes>>
windowsVars == <<bus, attached, desktop>>
histories   == <<asked, doubt, stuck, left, refused>>
backendVars == <<system, running, sessions, linuxVars, windowsVars, faults, histories>>

Pad(slot) == <<slot, "PAD">>
DeviceSet == PadSlots \X ({"PAD"} \cup KbmDevices)
AtRest    == [buttons |-> {}, stick |-> 0, hat |-> 0]
RestOf(d) == IF d[2] = "PAD" THEN AtRest ELSE {}

Lacking(f, gone) == [x \in DOMAIN f \ gone |-> f[x]]
Put(f, x, value) == [y \in DOMAIN f \cup {x} |-> IF y = x THEN value ELSE f[y]]

Injected(codes) == {Evdev[c] : c \in codes} \ {0}

Fails == faults < MaxFaults /\ faults' = faults + 1
Works == UNCHANGED faults

-----------------------------------------------------------------------------
(* uinput.c *)

NodeOpened(d) == Put(nodes, d, [written |-> RestOf(d), shown |-> RestOf(d)])

\* An ioctl failed: the descriptor is closed.  Mutant: it stays open.
AbandonedOpen(kernel, d) == kernel
Abandoned(kernel, d)     == Lacking(kernel, {d})

\* A pad that was just created has nothing pressed: what the slot's previous
\* pad was last told is forgotten.  Mutant: it is kept.
ForgottenKept(slot) == last
Forgotten(slot)     == [last EXCEPT ![slot] = [buttons |-> {}, hat |-> 0]]

\* create_pad, create_kbm: open() may fail, and every ioctl() after it.
OpenFails  == Fails /\ UNCHANGED linuxVars
SetupFails(d) ==
  /\ Fails
  /\ nodes' = Abandoned(NodeOpened(d), d)
  /\ UNCHANGED <<handles, last>>
SetupWorks(d) ==
  /\ Works
  /\ nodes' = NodeOpened(d)
  /\ handles' = handles \cup {d}
  /\ last' = IF d[2] = "PAD" THEN Forgotten(d[1]) ELSE last

\* destroy_pad, destroy_kbm
DestroyAll(gone) ==
  /\ nodes' = Lacking(nodes, gone \cap handles)
  /\ handles' = handles \ gone
  /\ UNCHANGED last

\* update_pad: the buttons that changed against what was written last, in the
\* order of g_btn_map, every axis, the hat if it moved, and the SYN_REPORT that
\* shows readers the lot.  Any of these writes may be the first to fail.
Changed(slot, frame) ==
  (frame.buttons \ last[slot].buttons) \cup (last[slot].buttons \ frame.buttons)
FirstFew(codes) ==
  {out \in SUBSET codes : \A b \in out, c \in codes : c < b => c \in out}
Stages == {"BUTTONS", "AXES", "HAT", "SYN"}

PadWritten(slot, frame, out, stage) ==
  LET w == nodes[Pad(slot)].written
  IN  [buttons |-> (w.buttons \ (out \ frame.buttons)) \cup (out \cap frame.buttons),
       stick   |-> IF stage = "BUTTONS" THEN w.stick ELSE frame.stick,
       hat     |-> IF stage \in {"HAT", "SYN"} /\ frame.hat # last[slot].hat
                     THEN frame.hat ELSE w.hat]

\* What was written last is noted behind each part.
Remembers(slot, frame, out, stage) ==
  last' = [last EXCEPT
    ![slot].buttons = IF out = Changed(slot, frame) THEN frame.buttons ELSE @,
    ![slot].hat     = IF stage \in {"HAT", "SYN"} THEN frame.hat ELSE @]

\* The node after a batch of writes that did, or did not, end in its SYN.
After(node, written, syn) ==
  [written |-> written, shown |-> IF syn THEN written ELSE node.shown]

UinputUpdate(slot, frame) ==
  \E out \in FirstFew(Changed(slot, frame)), stage \in Stages :
    /\ stage # "BUTTONS" => out = Changed(slot, frame)
    /\ IF stage = "SYN" THEN Works /\ UNCHANGED doubt
                        ELSE Fails /\ doubt' = doubt \cup {Pad(slot)}
    /\ nodes' = [nodes EXCEPT ![Pad(slot)] =
                   After(@, PadWritten(slot, frame, out, stage), stage = "SYN")]
    /\ Remembers(slot, frame, out, stage)
    /\ UNCHANGED handles

\* kbm_events: codes without a key are skipped, one SYN if anything was left.
KeyBatch(held, keys) == {c \in (held \ keys) \cup (keys \ held) : Evdev[c] # 0}

\* Two usages can stand for one key: letting go of one lets go of it.
Shares(held, keys) == \E c \in held \ keys, k \in keys : Evdev[c] = Evdev[k]

\* The edges come in the order of the client's ring or of the reconcile: where
\* one key is let go and pressed in the same batch, either may be the last.
KeysWritten(written, keys, out) ==
  LET up == Injected(out \ keys)
      dn == Injected(out \cap keys)
  IN  {((written \ up) \cup dn) \ undone : undone \in SUBSET (up \cap dn)}

UinputKeys(d, held, keys, kernel) ==
  \E out \in SUBSET KeyBatch(held, keys), syn \in BOOLEAN :
    /\ syn => out = KeyBatch(held, keys) /\ out # {}
    /\ IF syn \/ KeyBatch(held, keys) = {}
         THEN /\ Works
              /\ doubt' = IF Shares(held, keys) THEN doubt \cup {d} ELSE doubt
         ELSE Fails /\ doubt' = doubt \cup {d}
    /\ \E written \in KeysWritten(kernel[d].written, keys, out) :
         nodes' = [kernel EXCEPT ![d] = After(@, written, syn)]

-----------------------------------------------------------------------------
(* vigem.c and sendinput.c *)

\* create_pad: the bus may refuse the target, and vigem_target_add refuses one
\* that is still plugged in.
VigemAdds(slot) ==
  /\ bus /\ slot \notin DOMAIN attached
  /\ Works
  /\ attached' = Put(attached, slot, AtRest)
VigemRefuses(slot) ==
  /\ IF bus /\ slot \notin DOMAIN attached THEN Fails ELSE Works
  /\ UNCHANGED attached

\* update_pad sends the whole report.
VigemUpdate(slot, frame) ==
  \/ /\ Works
     /\ attached' = [attached EXCEPT ![slot] = frame]
     /\ doubt' = doubt \ {Pad(slot)}
  \/ /\ Fails
     /\ UNCHANGED attached
     /\ doubt' = doubt \cup {Pad(slot)}

\* kbm_events: SendInput takes some of the batch and does not say which.
Taken(batch, taken, keys) ==
  /\ desktop' = (desktop \ Injected(taken \ keys)) \cup Injected(taken \cap keys)
  /\ stuck' = (stuck \ Injected(taken \ keys)) \cup Injected((batch \ taken) \ keys)

SendInput(held, keys) ==
  \E taken \in SUBSET KeyBatch(held, keys) :
    /\ IF taken # KeyBatch(held, keys) THEN Fails ELSE Works
    /\ Taken(KeyBatch(held, keys), taken, keys)

\* destroy_pad: whatever vigem_target_remove returns, the slot counts as detached;
\* a pad the bus kept goes on showing what it was last told.
VigemRemoves(slot, kept) ==
  IF kept THEN left' = left \cup {slot} /\ UNCHANGED <<attached, doubt>>
          ELSE attached' = Lacking(attached, {slot}) /\ doubt' = doubt \ {Pad(slot)} /\ UNCHANGED left

\* free_session on Windows: the pad, then what is held; each may fail.
VigemLeaves(slot, held) ==
  \E kept \in BOOLEAN, taken \in SUBSET KeyBatch(held, {}) :
    /\ faults' = faults + (IF kept THEN 1 ELSE 0) + (IF taken # KeyBatch(held, {}) THEN 1 ELSE 0)
    /\ faults' <= MaxFaults
    /\ VigemRemoves(slot, kept)
    /\ Taken(KeyBatch(held, {}), taken, {})

-----------------------------------------------------------------------------
(* The calls *)

PadCreated(slot) ==
  \/ system = "LINUX" /\ SetupWorks(Pad(slot)) /\ UNCHANGED windowsVars
  \/ system = "WINDOWS" /\ VigemAdds(slot) /\ UNCHANGED <<linuxVars, bus, desktop>>
PadRefused(slot) ==
  \/ system = "LINUX" /\ (OpenFails \/ SetupFails(Pad(slot))) /\ UNCHANGED windowsVars
  \/ system = "WINDOWS" /\ VigemRefuses(slot) /\ UNCHANGED <<linuxVars, bus, desktop>>

\* handle_hello: without a pad there is no session.
Hello(slot) ==
  /\ running /\ ~sessions[slot].pad
  /\ \/ /\ PadCreated(slot)
        /\ sessions' = [sessions EXCEPT ![slot].pad = TRUE]
        /\ asked' = [asked EXCEPT ![slot] = AtRest]
        /\ UNCHANGED refused
     \/ /\ PadRefused(slot)
        /\ refused' = TRUE
        /\ UNCHANGED <<sessions, asked>>
  /\ UNCHANGED <<system, running, doubt, stuck, left>>

\* handle_input_state
Input(slot, frame) ==
  /\ running /\ sessions[slot].pad
  /\ \/ system = "LINUX" /\ UinputUpdate(slot, frame) /\ UNCHANGED windowsVars
     \/ system = "WINDOWS" /\ VigemUpdate(slot, frame) /\ UNCHANGED <<linuxVars, bus, desktop>>
  /\ asked' = [asked EXCEPT ![slot] = frame]
  /\ UNCHANGED <<system, running, sessions, stuck, left, refused>>

\* handle_keyboard and its like: the device is created at the first report;
\* what kbm.c believes is held changes whether or not the injection worked.
KbmReport(slot, dev, keys) ==
  LET d     == <<slot, dev>>
      known == dev \in DOMAIN sessions[slot].held
      held  == IF known THEN sessions[slot].held[dev] ELSE {}
  IN
  /\ running /\ sessions[slot].pad
  /\ \/ /\ system = "LINUX"
        /\ \/ /\ known
              /\ UinputKeys(d, held, keys, nodes)
              /\ UNCHANGED <<handles, last>>
           \/ /\ ~known
              /\ UinputKeys(d, held, keys, NodeOpened(d))
              /\ handles' = handles \cup {d}
              /\ UNCHANGED last
        /\ UNCHANGED <<windowsVars, stuck>>
     \/ /\ system = "WINDOWS"
        /\ SendInput(held, keys)
        /\ UNCHANGED <<linuxVars, bus, attached, doubt>>
  /\ sessions' = [sessions EXCEPT ![slot].held = Put(@, dev, keys)]
  /\ UNCHANGED <<system, running, asked, left, refused>>

\* The device could not be created: the report is dropped, the next one tries
\* again.
KbmDropped(slot, dev) ==
  /\ running /\ sessions[slot].pad /\ dev \notin DOMAIN sessions[slot].held
  /\ system = "LINUX"
  /\ OpenFails \/ SetupFails(<<slot, dev>>)
  /\ UNCHANGED <<system, running, sessions, windowsVars, histories>>

AllHeld(slot) == UNION {sessions[slot].held[dev] : dev \in DOMAIN sessions[slot].held}

\* free_session: the pad goes, then what is held is released and its devices
\* are destroyed.
Leave(slot) ==
  LET all == {Pad(slot)} \cup ({slot} \X KbmDevices)
  IN
  /\ running /\ sessions[slot].pad
  /\ sessions' = [sessions EXCEPT ![slot] = [pad |-> FALSE, held |-> << >>]]
  /\ \/ /\ system = "LINUX"
        /\ DestroyAll(all)
        /\ doubt' = doubt \ all
        /\ UNCHANGED <<windowsVars, faults, stuck, left>>
     \/ /\ system = "WINDOWS"
        /\ VigemLeaves(slot, AllHeld(slot))
        /\ UNCHANGED <<linuxVars, bus>>
  /\ UNCHANGED <<system, running, asked, refused>>

\* apad_server_destroy has ended every session: backend_shutdown, which closes
\* the bus and so takes whatever was left on it.
Shutdown ==
  /\ running /\ \A slot \in PadSlots : ~sessions[slot].pad
  /\ running' = FALSE
  /\ DestroyAll(DeviceSet)
  /\ bus' = FALSE /\ attached' = << >> /\ left' = {} /\ doubt' = {}
  /\ UNCHANGED <<system, sessions, desktop, faults, asked, stuck, refused>>

-----------------------------------------------------------------------------
\* backend_init: the bus may be missing, which win32.c goes on without.
BackendsInit ==
  /\ system \in Systems /\ running = TRUE
  /\ bus \in {b \in BOOLEAN : b => system = "WINDOWS"}
  /\ sessions = [slot \in PadSlots |-> [pad |-> FALSE, held |-> << >>]]
  /\ handles = {} /\ nodes = << >>
  /\ last = [slot \in PadSlots |-> [buttons |-> {}, hat |-> 0]]
  /\ attached = << >> /\ desktop = {}
  /\ asked = [slot \in PadSlots |-> AtRest]
  /\ faults = 0 /\ doubt = {} /\ stuck = {} /\ left = {} /\ refused = FALSE

BackendsNext ==
  \/ \E slot \in PadSlots :
       \/ Hello(slot) \/ Leave(slot)
       \/ \E frame \in Frames : Input(slot, frame)
       \/ \E dev \in KbmDevices :
            \/ KbmDropped(slot, dev)
            \/ \E keys \in SUBSET KeyCodes : KbmReport(slot, dev, keys)
  \/ Shutdown

BackendsSpec == BackendsInit /\ [][BackendsNext]_backendVars

-----------------------------------------------------------------------------
(* Properties *)

\* After every call, failed ones included, exactly the devices the server
\* knows of are there: no descriptor without an owner, no pad without a
\* session but those the bus would not take back, none of which a later
\* session is given.  On Windows, where keyboards have no device of their own,
\* no key stays down that no session holds, unless SendInput dropped its
\* release (uinput.c's fail labels, free_session, vigem.c, sendinput.c).
Pads  == {slot \in PadSlots : sessions[slot].pad}
Known == {Pad(slot) : slot \in Pads} \cup
         {d \in PadSlots \X KbmDevices : d[2] \in DOMAIN sessions[d[1]].held}
NothingLeftBehind ==
  /\ system = "LINUX" =>
       /\ handles = Known
       /\ DOMAIN nodes = handles
  /\ system = "WINDOWS" =>
       /\ DOMAIN attached = Pads \cup left /\ Pads \cap left = {}
       /\ desktop \subseteq (UNION {Injected(AllHeld(slot)) : slot \in PadSlots}) \cup stuck

\* A user without ViGEmBus "still gets a working keyboard/mouse/media
\* session" (win32.c, backend_init).
KeyboardWithoutDriver == system = "WINDOWS" /\ ~bus /\ running => ~refused

\* Both backends keep what backend.h promises: every device appears at rest,
\* whatever its slot showed before, shows exactly what it was last told unless
\* a write to it failed, and is disturbed by nothing that happens to another.
\* On Windows only pads are devices.
Present == IF system = "LINUX" THEN handles ELSE {Pad(slot) : slot \in DOMAIN attached}
LastTold(d) == IF d[2] = "PAD" THEN asked[d[1]] ELSE Injected(sessions[d[1]].held[d[2]])
Shown(d) == IF system = "LINUX" THEN nodes[d].shown ELSE attached[d[1]]
HostView ==
  [d \in Present |-> [asked |-> LastTold(d), shows |-> Shown(d), sure |-> d \notin doubt]]
CanShow(d) == IF d[2] = "PAD"
                THEN [buttons : SUBSET PadButtons, stick : 0..1, hat : 0..1]
                ELSE SUBSET Injected(KeyCodes)
Promised == INSTANCE HostDevices WITH
  Devices <- DeviceSet, Values <- CanShow, Rest <- RestOf, devices <- HostView
ImplementsHostDevices == Promised!HostDevicesSpec
=============================================================================
