------------------------------ MODULE Delivery ------------------------------
(***************************************************************************)
(* The delivery loop of apad_server_tick for the two unreliable messages a  *)
(* server repeats instead of retransmitting: TOUCHMAP and INPUTCAPS.  A     *)
(* handler only marks a message dirty; the next tick starts a burst of      *)
(* copies, and INPUTCAPS is also repeated slowly for as long as the session *)
(* lives.                                                                   *)
(*                                                                         *)
(* `wait` is the time left before the next copy: a copy needs strictly more *)
(* time than that to have passed, so it goes out at -1.  `since` is the age *)
(* of the last INPUTCAPS, NeverSent standing for inputcaps_last_sent_ms = 0.*)
(***************************************************************************)
EXTENDS Integers

CONSTANTS
  BurstCopies,   \* 3u in server.c
  BurstGap,      \* 250u
  SlowRepeat     \* 5000u

ASSUME DeliveryAssumption ==
  /\ BurstCopies \in Nat
  /\ BurstGap \in Nat
  /\ SlowRepeat \in Nat \ {0}

NeverSent == -1

TouchInit == [dirty |-> FALSE, repeats |-> 0, wait |-> 0]

\* Mutant: the mark is taken and no burst begins.
TouchArmedForgets(t) == [t EXCEPT !.dirty = FALSE]

TouchArmed(t) ==
  IF t.dirty THEN [dirty |-> FALSE, repeats |-> BurstCopies, wait |-> 0] ELSE t

TouchSends(t) == TouchArmed(t).repeats > 0 /\ TouchArmed(t).wait < 0

TouchTick(t) ==
  IF TouchSends(t)
    THEN [TouchArmed(t) EXCEPT !.repeats = @ - 1, !.wait = BurstGap]
    ELSE TouchArmed(t)

CapsInit ==
  [can_arm |-> FALSE, dirty |-> FALSE, repeats |-> 0, wait |-> 0, since |-> NeverSent]

CapsArm(c) == [c EXCEPT !.can_arm = TRUE, !.dirty = TRUE]
CapsRearm(c) == [c EXCEPT !.dirty = TRUE]

CapsArmed(c) ==
  IF c.can_arm /\ c.dirty
    THEN [c EXCEPT !.dirty = FALSE, !.repeats = BurstCopies, !.wait = 0] ELSE c

CapsBurst(c) == c.can_arm /\ CapsArmed(c).repeats > 0 /\ CapsArmed(c).wait < 0

\* Mutant: repeated until it has been sent once.
CapsSlowOnce(c) == c.can_arm /\ CapsArmed(c).repeats = 0 /\ c.since = NeverSent

CapsSlow(c) ==
  /\ c.can_arm /\ CapsArmed(c).repeats = 0
  /\ c.since = NeverSent \/ c.since >= SlowRepeat

CapsSends(c) == CapsBurst(c) \/ CapsSlow(c)

CapsTick(c) ==
  IF CapsBurst(c)
    THEN [CapsArmed(c) EXCEPT !.repeats = @ - 1, !.wait = BurstGap, !.since = 0]
    ELSE IF CapsSlow(c) THEN [CapsArmed(c) EXCEPT !.since = 0] ELSE CapsArmed(c)

WaitLess(repeats, wait) == IF repeats > 0 /\ wait >= 0 THEN wait - 1 ELSE wait

TouchAge(t) == [t EXCEPT !.wait = WaitLess(t.repeats, @)]
CapsAge(c) ==
  [c EXCEPT !.wait = WaitLess(c.repeats, @),
            !.since = IF @ = NeverSent \/ @ >= SlowRepeat THEN @ ELSE @ + 1]

Repeats == 0 .. BurstCopies
Waits == -1 .. BurstGap
Sinces == NeverSent .. SlowRepeat

TouchType == [dirty : BOOLEAN, repeats : Repeats, wait : Waits]
CapsType ==
  [can_arm : BOOLEAN, dirty : BOOLEAN, repeats : Repeats, wait : Waits, since : Sinces]

=============================================================================
