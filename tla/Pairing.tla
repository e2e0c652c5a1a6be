------------------------------ MODULE Pairing -------------------------------
(***************************************************************************)
(* server/src/pairing.c: the pairing window.  A secret is identified by its *)
(* generation, the counter that is bumped each time one is drawn; the       *)
(* characters of the PIN or token do not matter to anything checked here.   *)
(* `remaining` is deadline_ms minus now, parked at zero while closed.       *)
(* ok is what cfg.on_random answered: whether a secret could be drawn.      *)
(***************************************************************************)
EXTENDS Naturals

CONSTANTS
  PairingWindow,    \* APAD_PAIRING_WINDOW_MS
  MaxPairAttempts   \* APAD_MAX_PAIR_ATTEMPTS

ASSUME PairingAssumption ==
  /\ PairingWindow \in Nat \ {0}
  /\ MaxPairAttempts \in Nat \ {0}

PairingInit == [open |-> FALSE, remaining |-> 0, attempts |-> 0, generation |-> 0]

\* The generation survives: it is a monotonic signal for the life of the server.
PairingClose(p) == [p EXCEPT !.open = FALSE, !.remaining = 0, !.attempts = 0]

\* Close first, then draw: a failed draw leaves no window, not the old one.
PairingOpen(p, ok) ==
  LET closed == PairingClose(p)
  IN  IF ok THEN [closed EXCEPT !.open = TRUE, !.remaining = PairingWindow,
                                !.generation = @ + 1]
            ELSE closed

\* Deadline-authoritative: an expired window nobody has reaped is not open.
PairingIsOpen(p) == p.open /\ p.remaining > 0

PairingExpired(p) == p.open /\ p.remaining = 0

PairingTick(p) == IF PairingExpired(p) THEN PairingClose(p) ELSE p

\* A guess counts against the secret it was made at, and only that one.
CountsAgainst(p, generation) == p.open /\ generation = p.generation

\* Mutant: one guess too many.
ExhaustedLate(p) == p.attempts >= MaxPairAttempts

Exhausted(p) == p.attempts + 1 >= MaxPairAttempts

\* Mutant: a rotation starts the window over.
PairingFailRestarts(p, generation, ok) ==
  CASE ~CountsAgainst(p, generation) -> p
    [] CountsAgainst(p, generation) /\ ~Exhausted(p) ->
         [p EXCEPT !.attempts = @ + 1]
    [] CountsAgainst(p, generation) /\ Exhausted(p) -> PairingOpen(p, ok)

\* The last permitted guess rotates the secret; the deadline does not move.
PairingFail(p, generation, ok) ==
  CASE ~CountsAgainst(p, generation) -> p
    [] CountsAgainst(p, generation) /\ ~Exhausted(p) ->
         [p EXCEPT !.attempts = @ + 1]
    [] CountsAgainst(p, generation) /\ Exhausted(p) /\ ok ->
         [p EXCEPT !.generation = @ + 1, !.attempts = 0]
    [] CountsAgainst(p, generation) /\ Exhausted(p) /\ ~ok -> PairingClose(p)

PairingAge(p) == [p EXCEPT !.remaining = IF @ > 0 THEN @ - 1 ELSE 0]

Remainings == 0 .. PairingWindow
AttemptCounts == 0 .. MaxPairAttempts - 1

PairingType ==
  [open : BOOLEAN, remaining : Remainings, attempts : AttemptCounts, generation : Nat]

=============================================================================
