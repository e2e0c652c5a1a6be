------------------------------ MODULE AppShared ------------------------------
(***************************************************************************)
(* What the threads of the Android app share: the queue of callbacks posted *)
(* to its main thread, run one at a time and in order, and KbmSnapshot.kt,  *)
(* the mailbox for keyboard, mouse and media, which the views write and the *)
(* transport's thread reads once per pump, every call under one lock.       *)
(*                                                                         *)
(* A facility is held or not, which stands for its set of codes; its queue  *)
(* of transitions, which only the UDP engine reads, is part of the          *)
(* Submissions of KbmLink.                                                  *)
(***************************************************************************)
EXTENDS Naturals, Sequences

CONSTANTS
  MaxPosted,     \* bound: callbacks waiting for the main thread
  AppFacilities  \* the facilities of section 6.15 an instance looks at

VARIABLE posted

\* publish() of both services: the field is written at once, the listener runs
\* on the main thread later.
Post(who, status) == posted' = Append(posted, [from |-> who, status |-> status])

\* What may be repeated for ever waits until there is room.
Room == Len(posted) < MaxPosted

NothingPosted == UNCHANGED posted

-----------------------------------------------------------------------------
(* The snapshot, an operand of the operators below.                        *)

Modes == {"PAD", "MOUSE", "KEYBOARD", "MEDIA"}

SnapshotInit == [f \in AppFacilities |-> [active |-> FALSE, needs_clear |-> FALSE, held |-> FALSE]]

\* setKeyboardActive and its siblings: leaving a facility lets go of what is
\* held and asks for one more pump that says so.
SetActive(s, active) ==
  IF s.active /\ ~active
    THEN [active |-> FALSE, needs_clear |-> TRUE, held |-> FALSE]
    ELSE [s EXCEPT !.active = active]

\* keyEvent, mouseButtonEvent, mediaEvent.
Touched(snap, f, down) == [snap EXCEPT ![f].held = down]

\* Every mode but PAD has a trackpad, and text can be typed from each of them.
ActiveIn(mode) ==
  CASE mode = "PAD" -> {}
    [] mode = "MEDIA" -> {"MOUSE", "KEYBOARD", "MEDIA"}
    [] OTHER -> {"MOUSE", "KEYBOARD"}

ApplyKbmActivity(snap, mode) ==
  [f \in AppFacilities |-> SetActive(snap[f], f \in ActiveIn(mode))]

\* readInto: which facilities the caller is told of, and what the read leaves.
Have(snap) == {f \in AppFacilities : snap[f].active \/ snap[f].needs_clear}
Drained(snap) == [f \in AppFacilities |-> [snap[f] EXCEPT !.needs_clear = FALSE]]
Read(snap) == [f \in Have(snap) |-> snap[f].held]

SnapshotType == [AppFacilities -> [active : BOOLEAN, needs_clear : BOOLEAN, held : BOOLEAN]]
=============================================================================
