------------------------------ MODULE KbmTouch ------------------------------
(***************************************************************************)
(* clients/common/apad_kbm_touch.c, the touchscreen as a mouse, a keyboard *)
(* and a remote control, and the frame of the session screen (3DS, DSi)    *)
(* that runs its three builders.  Places are pixels of the bottom screen,  *)
(* the boxes are the code's own 320x240 boxes scaled to the console.       *)
(*                                                                         *)
(* A frame's contribution to an accumulator stands for the accumulator;    *)
(* KbmSender keeps the sums.                                               *)
(***************************************************************************)
EXTENDS Integers, SequencesExt, FiniteSetsExt

CONSTANTS
  ScreenW, ScreenH, \* apad_kbm_touch_init's arguments
  Places,           \* where a finger may be, <<px, py>>
  Shoulders,        \* the shoulder buttons in use, of "L" and "R"
  Offers,           \* what INPUTCAPS may offer as the session starts
  SettleFrames,     \* MOUSE_TOUCH_SETTLE_FRAMES
  TapMaxFrames,     \* MOUSE_TAP_MAX_FRAMES
  TapMaxPx,         \* MOUSE_TAP_MAX_PX
  TapDragFrames,    \* MOUSE_TAPDRAG_WINDOW_FRAMES
  Detent,           \* MOUSE_WHEEL_PX_PER_DETENT
  Sens,             \* MOUSE_SENS_MUL
  MaxSamples        \* bound: frames a finger stays down

ASSUME KbmTouchAssumption ==
  /\ {ScreenW, ScreenH, SettleFrames, TapMaxFrames, TapMaxPx, TapDragFrames,
      Detent, Sens, MaxSamples} \subseteq Nat \ {0}
  /\ Places \subseteq Int \X Int /\ Shoulders \subseteq {"L", "R"}
  /\ Offers \subseteq SUBSET {"KEYBOARD", "MOUSE", "MEDIA"}

VARIABLES
  mode,      \* s_mode
  features,  \* what the server's INPUTCAPS offers
  finger,    \* where the finger is, or Nowhere
  shoulders, \* the shoulder buttons held
  mouse,     \* the mouse half of apad_kbm_touch
  keys,      \* the keyboard half
  shown,     \* what the last frame's builders wrote
  contact,   \* history: the mouse contact, sample by sample, and what it gave
  meant      \* history: the modifiers each key was meant to have

touchVars == <<mode, features, finger, shoulders, mouse, keys, shown, contact, meant>>

Nowhere == <<>>
NoContact == [points |-> <<>>, over |-> FALSE, drag |-> FALSE, ago |-> TapDragFrames, gain |-> <<0, 0>>]
Smaller(a, b) == IF a < b THEN a ELSE b
Facility(m) == CASE m = "MOUSE" -> "MOUSE" [] m = "KEYS" -> "KEYBOARD" [] m = "MEDIA" -> "MEDIA"
Available(m, feats) == m = "PAD" \/ Facility(m) \in feats

-----------------------------------------------------------------------------
(* Boxes *)

Scaled(rx, ry, rw, rh) ==
  [x |-> (rx * ScreenW) \div 320, y |-> (ry * ScreenH) \div 240,
   w |-> (rw * ScreenW) \div 320, h |-> (rh * ScreenH) \div 240]

In(b, p) ==
  /\ p # Nowhere
  /\ p[1] >= b.x /\ p[1] < b.x + b.w
  /\ p[2] >= b.y /\ p[2] < b.y + b.h

ModeStrip  == Scaled(0, 0, 320, 24)
MousePad   == Scaled(0, 24, 270, 166)
MouseWheel == Scaled(270, 24, 50, 166)
MouseButton ==
  [LEFT |-> Scaled(0, 190, 106, 26), MIDDLE |-> Scaled(106, 190, 107, 26),
   RIGHT |-> Scaled(213, 190, 107, 26)]

MediaBox ==
  [PREV |-> Scaled(4, 28, 96, 36), STOP |-> Scaled(112, 28, 96, 36), NEXT |-> Scaled(220, 28, 96, 36),
   PLAY |-> Scaled(4, 68, 312, 44), VOL_DOWN |-> Scaled(4, 116, 96, 36),
   MUTE |-> Scaled(112, 116, 96, 36), VOL_UP |-> Scaled(220, 116, 96, 36)]
ArrowBox ==
  [UP |-> Scaled(132, 156, 56, 20), DOWN |-> Scaled(132, 200, 56, 20), LEFT |-> Scaled(76, 176, 56, 24),
   RIGHT |-> Scaled(188, 176, 56, 24), ENTER |-> Scaled(132, 176, 56, 24)]

\* The boxes of a table that a place is in; no two of one table overlap.
Under(table, p) == {c \in DOMAIN table : In(table[c], p)}

GridTop == (24 * ScreenH) \div 240
GridBottom == (216 * ScreenH) \div 240
NoCell == -1
KeyCell(p) ==
  IF p = Nowhere \/ p[2] < GridTop \/ p[2] >= GridBottom \/ p[1] < 0 \/ p[1] >= ScreenW
  THEN NoCell
  ELSE (((p[2] - GridTop) * 5) \div (GridBottom - GridTop)) * 10 + (p[1] * 10) \div ScreenW

\* kKeyGrid: two cells are sticky modifiers, four are one space bar, the
\* others type a key of their own.
Shift == 30
Ctrl == 38
Sticky == {Shift, Ctrl}
Usage(cell) == IF cell \in 42..45 THEN 42 ELSE cell
Arrow == [LEFT |-> 46, DOWN |-> 47, UP |-> 48, RIGHT |-> 49, ENTER |-> 39]

-----------------------------------------------------------------------------
(* build_mouse *)

Untouched ==
  [frames |-> -1, ready |-> FALSE, latch |-> {}, padOrigin |-> FALSE, inPad |-> FALSE,
   last |-> Nowhere, moved |-> 0, pending |-> Nowhere, dragLock |-> FALSE]

Abs(n) == IF n < 0 THEN -n ELSE n
Less(n) == IF n > 0 THEN n - 1 ELSE 0

\* The end of a contact: a short, nearly still one that began on the pad is a
\* click, and opens the window in which the next one drags.
IsTap(c) == c.padOrigin /\ c.frames <= TapMaxFrames /\ c.moved < TapMaxPx
Clicks(c) == c.frames >= 0 /\ IsTap(c) /\ ~c.dragLock

\* The first sample that is trusted decides what the contact is.
Classified(c, p, window) ==
  LET latch == Under(MouseButton, p)
      pad == latch = {} /\ ~In(MouseWheel, p) /\ In(MousePad, p)
  IN  [c EXCEPT !.ready = TRUE, !.latch = latch, !.padOrigin = pad,
                !.dragLock = pad /\ window > 0]

\* A delta is added one sample late, so that the last one before the finger
\* is lifted never moves the pointer.  Mutant: it is added at once.
CommittedAtOnce(c, delta) == delta
Committed(c, delta)       == c.pending

Moves(c, p) ==
  IF ~c.inPad
  THEN [c EXCEPT !.inPad = TRUE, !.last = p, !.pending = Nowhere]
  ELSE LET delta == <<p[1] - c.last[1], p[2] - c.last[2]>>
           add == Committed(c, delta)
       IN  [c EXCEPT !.pending = delta, !.last = p,
                     !.moved = IF add = Nowhere THEN @ ELSE @ + Abs(add[1]) + Abs(add[2])]
Gain(c, p) ==
  LET add == IF c.inPad THEN Committed(c, <<p[1] - c.last[1], p[2] - c.last[2]>>) ELSE Nowhere
  IN  IF add = Nowhere THEN <<0, 0>> ELSE <<add[1] * Sens, add[2] * Sens>>

\* The contact after one touching frame, and before its movement.
Begun(c) == [c EXCEPT !.frames = @ + 1]
Settled(c, p, window) ==
  IF ~c.ready /\ c.frames >= SettleFrames THEN Classified(c, p, window) ELSE c
OnPad(c, p) == In(MousePad, p) /\ ~In(MouseWheel, p) /\ c.frames >= SettleFrames

\* C's division: towards zero.
Detents(carry) == IF carry < 0 THEN -((-carry) \div Detent) ELSE carry \div Detent

Wheeled(w, p) ==
  IF ~In(MouseWheel, p) THEN [w EXCEPT !.last = Nowhere, !.turned = 0]
  ELSE IF w.last = Nowhere THEN [w EXCEPT !.last = p, !.turned = 0]
  ELSE LET carry == w.carry - (p[2] - w.last[2])
       IN  [last |-> p, carry |-> carry - Detents(carry) * Detent, turned |-> Detents(carry)]

BuildMouse(m, p, held, active) ==
  LET at == IF active THEN p ELSE Nowhere
      window == Less(m.window)
      begun == Settled(Begun(m.contact), at, window)
      touched == IF OnPad(begun, at) THEN Moves(begun, at) ELSE [begun EXCEPT !.inPad = FALSE]
      after == IF at = Nowhere THEN Untouched ELSE touched
      wheel == Wheeled(m.wheel, at)
  IN  [contact |-> after,
       window |-> IF at = Nowhere THEN IF Clicks(m.contact) THEN TapDragFrames ELSE window
                  ELSE IF begun.ready /\ ~m.contact.ready THEN 0 ELSE window,
       wheel |-> wheel,
       queue |-> IF at = Nowhere /\ Clicks(m.contact) THEN <<"DOWN", "UP">> ELSE <<>>,
       buttons |-> IF active
                   THEN after.latch \cup (IF "L" \in held \/ after.dragLock THEN {"LEFT"} ELSE {})
                                    \cup (IF "R" \in held THEN {"RIGHT"} ELSE {})
                   ELSE {},
       motion |-> IF at # Nowhere /\ OnPad(begun, at) THEN Gain(begun, at) ELSE <<0, 0>>]

-----------------------------------------------------------------------------
(* build_keyboard *)

\* Releasing a key, by lifting or sliding off it, spends what it was pressed
\* with.  Mutant: only lifting does.
SpendsLift(k, cell) == cell = NoCell /\ k.cell # NoCell
Spends(k, cell)     == cell # k.cell /\ k.cell # NoCell

BuildKeys(k, p, active) ==
  LET cell == IF active THEN KeyCell(p) ELSE NoCell
      pressed == cell # NoCell /\ cell # k.cell
      armed == IF Spends(k, cell) THEN k.armed \ k.consume ELSE k.armed
      consume == IF Spends(k, cell) THEN {} ELSE k.consume
  IN  [cell |-> cell,
       armed |-> IF pressed /\ cell \in Sticky
                 THEN IF cell \in armed THEN armed \ {cell} ELSE armed \cup {cell}
                 ELSE armed,
       consume |-> IF pressed /\ cell \notin Sticky THEN armed ELSE consume]

\* The modifiers reach the wire with the key they are for, and a shoulder
\* button reaches it by itself.
Pressed(k, held, active) ==
  LET live == (IF "L" \in held THEN {Shift} ELSE {}) \cup (IF "R" \in held THEN {Ctrl} ELSE {})
  IN  IF ~active THEN {}
      ELSE live \cup IF k.cell = NoCell \/ k.cell \in Sticky THEN {}
                     ELSE k.armed \cup {Usage(k.cell)}

\* build_media: the D-pad's arrows are keys, and need the keyboard.
MediaHeld(p, active) == IF active THEN Under(MediaBox, p) ELSE {}
ArrowKeys(p, active, have_kb) ==
  IF active /\ have_kb /\ Under(MediaBox, p) = {} THEN {Arrow[a] : a \in Under(ArrowBox, p)} ELSE {}

-----------------------------------------------------------------------------
(* The session screen's frame *)

NothingShown == [queue |-> <<>>, buttons |-> {}, motion |-> <<0, 0>>, turned |-> 0,
                 keys |-> {}, media |-> {}]

\* A fresh touch on a tab changes the mode; a facility that is gone takes its
\* mode along.
Tabs(p, feats) ==
  IF finger = Nowhere /\ In(ModeStrip, p)
  THEN {m \in {"PAD", "MOUSE", "KEYS", "MEDIA"} : Available(m, feats)} \cup {mode}
  ELSE {mode}
Displayed(m, feats) == IF Available(m, feats) THEN m ELSE "PAD"

\* Without a mouse on offer its builder is not called.
MouseFrame(feats, p, held, now) ==
  IF "MOUSE" \in feats THEN BuildMouse(mouse, p, held, now = "MOUSE")
  ELSE [queue |-> <<>>, buttons |-> {}, motion |-> <<0, 0>>] @@ mouse

\* History: a contact's samples, what it gave, whether it is a drag, and how
\* long ago the last click was, if no contact has settled since.
Followed(points, ago) ==
  LET settles == Len(points) = SettleFrames + 1
  IN  [ago |-> IF settles THEN TapDragFrames ELSE ago,
       drag |-> settles /\ ago < TapDragFrames /\ In(MousePad, Last(points))]
Sampled(p, isMouse, built) ==
  LET ago == IF built.queue # <<>> THEN 0 ELSE Smaller(contact.ago + 1, TapDragFrames)
      fresh == contact.over \/ contact.points = <<>>
      points == IF fresh THEN <<p>> ELSE Append(contact.points, p)
      f == Followed(points, ago)
      gain == IF fresh THEN <<0, 0>> ELSE contact.gain
  IN  IF p # Nowhere /\ isMouse
      THEN [points |-> points, over |-> FALSE, ago |-> f.ago,
            drag |-> f.drag \/ (~fresh /\ contact.drag),
            gain |-> <<gain[1] + built.motion[1], gain[2] + built.motion[2]>>]
      ELSE IF fresh THEN [NoContact EXCEPT !.ago = ago]
      ELSE [contact EXCEPT !.over = TRUE, !.ago = ago]

\* History: the modifiers armed for the next key, and those of the key in hand.
Intended(cell) ==
  IF cell = keys.cell THEN meant
  ELSE IF cell \in Sticky
       THEN [next |-> SymDiff(meant.next, {cell}), with |-> {}]
  ELSE IF cell = NoCell THEN [meant EXCEPT !.with = {}]
  ELSE [next |-> {}, with |-> meant.next]

Frame ==
  \E p \in Places \cup {Nowhere}, held \in SUBSET Shoulders, feats \in SUBSET features :
    \E m \in Tabs(p, feats) :
      LET now == Displayed(m, feats)
          built == MouseFrame(feats, p, held, now)
          typed == BuildKeys(keys, p, now = "KEYS")
          have_kb == "KEYBOARD" \in feats
      IN  /\ p # Nowhere /\ ~contact.over => Len(contact.points) < MaxSamples
          /\ mode' = now /\ features' = feats /\ finger' = p /\ shoulders' = held
          /\ keys' = typed
          /\ mouse' = [contact |-> built.contact, window |-> built.window, wheel |-> built.wheel]
          /\ shown' =
               [queue |-> built.queue, buttons |-> built.buttons, motion |-> built.motion,
                turned |-> built.wheel.turned,
                keys |-> Pressed(typed, held, now = "KEYS") \cup ArrowKeys(p, now = "MEDIA", have_kb),
                media |-> MediaHeld(p, now = "MEDIA")]
          /\ contact' = IF "MOUSE" \in feats THEN Sampled(p, now = "MOUSE", built) ELSE NoContact
          /\ meant' = Intended(typed.cell)

TouchFresh ==
  /\ mode = "PAD" /\ finger = Nowhere /\ shoulders = {}
  /\ mouse = [contact |-> Untouched, window |-> 0,
              wheel |-> [last |-> Nowhere, carry |-> 0, turned |-> 0]]
  /\ keys = [cell |-> NoCell, armed |-> {}, consume |-> {}]
  /\ shown = NothingShown /\ contact = NoContact
  /\ meant = [next |-> {}, with |-> {}]

TouchInit == features \in Offers /\ TouchFresh

TouchSpec == TouchInit /\ [][Frame]_touchVars

-----------------------------------------------------------------------------
(* Properties *)

\* What a contact with these samples is, told from the samples alone.
OnThePad(i) == In(MousePad, contact.points[i])
Settle == SettleFrames + 1
BegunOnPad == Len(contact.points) >= Settle /\ OnThePad(Settle)
Step(i) == <<contact.points[i][1] - contact.points[i - 1][1],
             contact.points[i][2] - contact.points[i - 1][2]>>
\* The movements that count: between two trusted samples on the pad, neither
\* the last one before the finger leaves it.
Movements ==
  {i \in Settle + 1 .. Len(contact.points) - 1 :
     OnThePad(i - 1) /\ OnThePad(i) /\ OnThePad(i + 1)}
Travelled == MapThenSumSet(LAMBDA i : Abs(Step(i)[1]) + Abs(Step(i)[2]), Movements)
Tapped == BegunOnPad /\ Len(contact.points) <= TapMaxFrames + 1 /\ Travelled < TapMaxPx

\* A contact on the pad is a click exactly if it was short and nearly still,
\* and then one click; a drag holds the button from the sample that settles it
\* to the last and is no click; a footer button is held for as long as the
\* finger that began on it is down; and the pointer moves by the trusted
\* middle of the contact, whatever facility or mode is left in between.
TapsAndDrags ==
  LET touching == contact.points # <<>> /\ ~contact.over
      settled == Len(contact.points) >= Settle
  IN  /\ shown.queue # <<>> <=> contact.over /\ Tapped /\ ~contact.drag
      /\ touching =>
           shown.buttons =
             (IF "L" \in shoulders \/ contact.drag THEN {"LEFT"} ELSE {})
             \cup (IF "R" \in shoulders THEN {"RIGHT"} ELSE {})
             \cup (IF settled THEN Under(MouseButton, contact.points[Settle]) ELSE {})
      /\ contact.gain = <<Sens * MapThenSumSet(LAMBDA i : Step(i)[1], Movements),
                          Sens * MapThenSumSet(LAMBDA i : Step(i)[2], Movements)>>

\* A sticky modifier reaches the wire with the next key and only that key,
\* whether the finger lifts, slides to a neighbour, changes its mind by
\* tapping the modifier again, or the mode changes under it; alone it never
\* does, unless a shoulder button says so.
OneShotModifiers ==
  mode = "KEYS" =>
    shown.keys \cap Sticky =
      meant.with \cup (IF "L" \in shoulders THEN {Shift} ELSE {})
                 \cup (IF "R" \in shoulders THEN {Ctrl} ELSE {})

TouchAsMeant == TapsAndDrags /\ OneShotModifiers
=============================================================================
