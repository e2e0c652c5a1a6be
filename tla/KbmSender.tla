----------------------------- MODULE KbmSender ------------------------------
(***************************************************************************)
(* clients/common/apad_client.c: the sending half of the keyboard, mouse    *)
(* and media facilities (kbm_gate to kbm_next_due_ms).  The caller submits  *)
(* a queue of transitions and a snapshot of what is held; the client turns  *)
(* both into numbered events, keeps the last few in a right-aligned ring,   *)
(* and decides when a datagram carrying ring and snapshot is due.           *)
(*                                                                         *)
(* One record per facility stands for the kb_, mo_ and me_ fields of        *)
(* struct apad_client.  `since` is how long ago *_tx_ms is, and also tells  *)
(* when a trailing copy is due: *_trail_due_ms is always *_tx_ms plus       *)
(* APAD_KBM_TRAIL_MS while copies are owed.  `serial` says whether an       *)
(* INPUTCAPS was accepted in this session, `rate` is its mouse_rate_hz.     *)
(***************************************************************************)
EXTENDS Kbm

CONSTANTS
  Modifiers,     \* usages 0xE0..0xE7, the modifier byte of the key bitmap
  Second,        \* ticks of the model's clock in the 1000 of kbm_mouse_interval_ms
  MaxRate,       \* APAD_MAX_RATE_HZ
  SessionRate,   \* sess.input_rate_hz, as negotiated by HELLO and WELCOME
  KbmRepeat,     \* APAD_KBM_REPEAT_MS
  TrailGap,      \* APAD_KBM_TRAIL_MS
  TrailCopies    \* APAD_KBM_TRAIL_COPIES

ASSUME KbmSenderAssumption ==
  /\ Modifiers \subseteq Codes["KEYBOARD"]
  /\ {Second, MaxRate, SessionRate, KbmRepeat, TrailGap} \subseteq Nat \ {0}
  /\ TrailCopies \in Nat

Earliest(a, b) == IF a < b THEN a ELSE b
Latest(a, b) == IF a < b THEN b ELSE a

EmptyRing(depth) == [k \in 1 .. depth |-> NoEvent]

\* apad_client_connect: capabilities, counters, rings and shadows start over.
SenderReset(f) ==
  [serial |-> FALSE, rate |-> 0, held |-> {}, seq |-> 0, ring |-> EmptyRing(RingDepth[f]),
   since |-> Second, trail |-> 0, dirty |-> FALSE, engaged |-> FALSE, accum |-> 0]

\* A server may ask for less than the session's rate, never for more than the ceiling.
MouseInterval(s) ==
  Latest(1, Second \div Earliest(IF s.rate = 0 THEN SessionRate ELSE s.rate, MaxRate))

MinInterval(f, s) == IF f = "MOUSE" THEN MouseInterval(s) ELSE Second \div MaxRate

\* For the mouse's buttons the faster of the two schedules.
RepeatInterval(f, s) ==
  IF f = "MOUSE" THEN Earliest(MouseInterval(s), KbmRepeat) ELSE KbmRepeat

-----------------------------------------------------------------------------
(* The ring: newest event last, every event numbered.                       *)

\* Each event shifts the ring down by one slot and takes the last.
PushEvents(s, events) ==
  LET pushed == Len(events)
      slots == s.ring \o events
  IN  [s EXCEPT !.ring = SubSeq(slots, pushed + 1, Len(slots)),
                !.seq = (@ + pushed) % SeqModulus, !.dirty = @ \/ pushed > 0]

\* The datagram carries the whole ring, sent before or not.
Datagram(s) ==
  [event_seq |-> s.seq, held |-> s.held, ring |-> s.ring, accum |-> s.accum]

SentForGood(s) == [s EXCEPT !.since = 0, !.dirty = FALSE, !.ring = [k \in DOMAIN @ |-> NoEvent]]
Sent(s) == [s EXCEPT !.since = 0, !.dirty = FALSE]

\* One event for every code on which `held` and the caller's snapshot differ.
Transitions(codes, snapshot) ==
  LET order == Ascending(codes)
  IN  [k \in DOMAIN order |-> Event(order[k], order[k] \in snapshot)]

Engage(s) == IF s.engaged THEN s ELSE [s EXCEPT !.engaged = TRUE, !.dirty = TRUE]

-----------------------------------------------------------------------------
(* Ingesting one submission: the queue first, then what it leaves to say.   *)

Differing(s, in) ==
  LET held == AfterEvents(s.held, in.queue)
  IN  (held \ in.held) \cup (in.held \ held)

KeyboardEdgesAscending(s, in) == in.queue \o Transitions(Differing(s, in), in.held)

\* The modifier byte first, so that Shift and a letter that arrive in one
\* snapshot enter the ring Shift first.
KeyboardEdges(s, in) ==
  in.queue \o Transitions(Differing(s, in) \cap Modifiers, in.held)
           \o Transitions(Differing(s, in) \ Modifiers, in.held)

IngestKeyboard(s, in) ==
  Engage([PushEvents(s, KeyboardEdges(s, in)) EXCEPT !.held = in.held])

MouseEdges(s, in) == in.queue \o Transitions(Differing(s, in), in.held)

\* A change of the accumulators is due a datagram of its own.
IngestMouse(s, in) ==
  Engage([PushEvents(s, MouseEdges(s, in)) EXCEPT
            !.held = in.held, !.accum = in.accum, !.dirty = @ \/ in.accum # s.accum])

MediaEdges(s, in) == in.queue \o Transitions(Differing(s, in), in.held)

IngestMedia(s, in) ==
  Engage([PushEvents(s, MediaEdges(s, in)) EXCEPT !.held = in.held])

Edges(f, s, in) ==
  CASE f = "KEYBOARD" -> KeyboardEdges(s, in)
    [] f = "MOUSE"    -> MouseEdges(s, in)
    [] f = "MEDIA"    -> MediaEdges(s, in)

Ingest(f, s, in) ==
  CASE f = "KEYBOARD" -> IngestKeyboard(s, in)
    [] f = "MOUSE"    -> IngestMouse(s, in)
    [] f = "MEDIA"    -> IngestMedia(s, in)

-----------------------------------------------------------------------------
(* When a datagram is due.                                                  *)

ChangeDue(f, s) == s.dirty /\ s.since >= MinInterval(f, s)
RepeatDueOnChange(f, s) == FALSE
RepeatDue(f, s) == ~s.dirty /\ s.held # {} /\ s.since >= RepeatInterval(f, s)
TrailDueForever(s) == ~s.dirty /\ s.held = {} /\ s.since >= TrailGap
TrailDue(s) == ~s.dirty /\ s.held = {} /\ s.trail > 0 /\ s.since >= TrailGap

\* The gate and the caller's first submission open the schedule.
MayPump(s) == s.serial /\ s.engaged
SendDue(f, s) == MayPump(s) /\ (ChangeDue(f, s) \/ RepeatDue(f, s) \/ TrailDue(s))

\* Trailing copies are armed by a change that leaves nothing held, never by a
\* trailing copy.
Rearmed(s) ==
  CASE s.dirty -> [s EXCEPT !.trail = IF s.held = {} THEN TrailCopies ELSE 0]
    [] ~s.dirty /\ s.held # {} -> s
    [] OTHER -> [s EXCEPT !.trail = @ - 1]

PumpKbm(f, s) == IF SendDue(f, s) THEN Sent(Rearmed(s)) ELSE s

\* kbm_next_due_ms = 0: the pump does not sleep past an obligation.
PumpOverdue(f, s) == SendDue(f, s)

-----------------------------------------------------------------------------
(* Releasing before falling silent.                                         *)

ReleaseEdges(s) == Transitions(s.held, {})

\* One UP per held code, and a datagram if there was anything to release.
ReleaseHeld(s) ==
  LET up == [PushEvents(s, ReleaseEdges(s)) EXCEPT !.held = {}]
      said == IF s.held = {} THEN up ELSE Sent(up)
  IN  [said EXCEPT !.trail = 0, !.engaged = FALSE]

ReleaseSendsChange(s) == s.serial /\ s.held # {} /\ s.dirty
ReleaseSends(s) == s.serial /\ s.held # {}
SenderReleaseAll(s) == IF s.serial THEN ReleaseHeld(s) ELSE s

\* INPUTCAPS accepted: the gate of an advertised facility is open.
StoreCaps(s, rate) == [s EXCEPT !.serial = TRUE, !.rate = rate]

SenderAge(s) == [s EXCEPT !.since = IF @ < Second THEN @ + 1 ELSE @]

SenderType(f) ==
  [serial : BOOLEAN, rate : Nat, held : SUBSET Codes[f], seq : Seqs,
   ring : [1 .. RingDepth[f] -> [code : Codes[f] \cup {0}, down : BOOLEAN]],
   since : 0 .. Second, trail : 0 .. TrailCopies, dirty : BOOLEAN,
   engaged : BOOLEAN, accum : Seqs]
=============================================================================
