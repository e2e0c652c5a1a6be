-------------------------------- MODULE Kbm ---------------------------------
(***************************************************************************)
(* server/src/kbm.c: the receiving half of the keyboard, mouse and media    *)
(* facilities.  A datagram carries a snapshot of what is held, the number   *)
(* of the newest event, and a right-aligned ring of the last few events;    *)
(* the receiver replays the events that are news to it, then reconciles     *)
(* what it believes is held with the snapshot, always.                      *)
(*                                                                         *)
(* One record per facility stands for the kb_, mo_ and me_ fields of        *)
(* apad_kbm_state.  Codes are numbers, 0 being the "no event" slot of a     *)
(* ring.  `accum` is the mouse's motion accumulator; dx, dy and the two     *)
(* wheels follow one rule, so one stands for the four.                      *)
(***************************************************************************)
EXTENDS Sequences, FiniteSetsExt, SeqArith

CONSTANTS
  RingDepth,     \* facility -> APAD_KEYBOARD/MOUSE/MEDIA_RING_DEPTH
  Codes,         \* facility -> the usages, buttons or controls it can hold
  KbmWatchdog    \* APAD_KBM_WATCHDOG_MS

Facilities == {"KEYBOARD", "MOUSE", "MEDIA"}

ASSUME KbmAssumption ==
  /\ RingDepth \in [Facilities -> Nat \ {0}]
  /\ DOMAIN Codes = Facilities
  /\ \A f \in Facilities : Codes[f] \subseteq Nat \ {0}
  /\ KbmWatchdog \in Nat \ {0}

\* The members of a finite set of numbers, in their order.
Ascending(numbers) ==
  [n \in 1 .. Cardinality(numbers) |->
     CHOOSE x \in numbers : Cardinality({y \in numbers : y <= x}) = n]

Event(code, down) == [code |-> code, down |-> down]
NoEvent == Event(0, FALSE)

KbmInit ==
  [created |-> FALSE, baseline |-> FALSE, shadow |-> {}, applied |-> 0,
   age |-> 0, accum |-> 0]

KbmNoteCreated(st) == [st EXCEPT !.created = TRUE]

\* What is held once a batch of events has been injected in order.
AfterEvents(held, events) ==
  LET touched == {events[k].code : k \in DOMAIN events}
      last(c) == Max({k \in DOMAIN events : events[k].code = c})
  IN  (held \ touched) \cup {c \in touched : events[last(c)].down}

\* The trailing slots of the ring that are news, without its empty slots.
\* The first accepted datagram is a baseline: nothing in it is replayed.
Replay(st, m, depth) ==
  LET fresh == IF st.baseline THEN EventRingNew(m.event_seq, st.applied, depth) ELSE 0
      slots == Ascending({k \in depth - fresh + 1 .. depth : m.ring[k].code # 0})
  IN  [n \in DOMAIN slots |-> m.ring[slots[n]]]

\* *out_lost: how many events fell off the ring before they could be replayed.
LostEvents(st, m, depth) ==
  IF st.baseline /\ EventRingOverflow(m.event_seq, st.applied, depth)
    THEN SeqDiff(m.event_seq, st.applied) - depth ELSE 0

\* The reconcile, unconditional: a transition for every code on which the
\* snapshot and the shadow differ once the ring has been replayed.  Each code
\* changes once, so the order of the report (modifiers first) is left out.
Changed(st, m, depth) ==
  LET shadow == AfterEvents(st.shadow, Replay(st, m, depth))
  IN  (shadow \ m.held) \cup (m.held \ shadow)

\* What the backend holds down once one accepted datagram's batch is injected.
HostAfter(down, st, m, depth) ==
  LET changed == Changed(st, m, depth)
  IN  (AfterEvents(down, Replay(st, m, depth)) \ changed) \cup (changed \cap m.held)

\* Adopt the snapshot; st.accum is the mouse's motion baseline.
ApplyKeyboard(st, m) ==
  [st EXCEPT !.age = 0, !.baseline = TRUE, !.shadow = m.held, !.applied = m.event_seq]
ApplyMouse(st, m) ==
  [st EXCEPT !.age = 0, !.baseline = TRUE, !.shadow = m.held, !.applied = m.event_seq,
             !.accum = m.accum]
ApplyMedia(st, m) ==
  [st EXCEPT !.age = 0, !.baseline = TRUE, !.shadow = m.held, !.applied = m.event_seq]

Apply(f, st, m) ==
  CASE f = "KEYBOARD" -> ApplyKeyboard(st, m)
    [] f = "MOUSE"    -> ApplyMouse(st, m)
    [] f = "MEDIA"    -> ApplyMedia(st, m)

\* Relative motion: the first sample only sets the baseline.
Motion(st, m) == IF st.baseline THEN SeqDiff(m.accum, st.accum) ELSE 0

-----------------------------------------------------------------------------
(* Letting go: the watchdog keeps the device, teardown destroys it.         *)

HostReleased(down, st) == down \ st.shadow
Released(st) == [st EXCEPT !.shadow = {}]

WatchdogFires(st) == st.created /\ st.age >= KbmWatchdog
WatchdogTick(st) == IF WatchdogFires(st) THEN Released(st) ELSE st

ReleaseAll(st) == IF st.created THEN [Released(st) EXCEPT !.created = FALSE] ELSE st

KbmAge(st) ==
  IF st.created /\ st.age < KbmWatchdog THEN [st EXCEPT !.age = @ + 1] ELSE st

AllCodes == UNION {Codes[f] : f \in Facilities}

Held == SUBSET AllCodes
KbmAges == 0 .. KbmWatchdog

KbmType ==
  [created : BOOLEAN, baseline : BOOLEAN, shadow : Held, applied : Seqs,
   age : KbmAges, accum : Seqs]

KbmMsgType(f) ==
  [event_seq : Seqs, held : SUBSET Codes[f], accum : Seqs,
   ring : [1 .. RingDepth[f] -> [code : Codes[f] \cup {0}, down : BOOLEAN]]]

=============================================================================
