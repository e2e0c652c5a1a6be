------------------------------- MODULE Mapping -------------------------------
(***************************************************************************)
(* server/src/mapping.c, the mapping engine: one INPUT_STATE and a profile *)
(* make one pad state.  Everything is a function of the input except the   *)
(* delta touch stick, which is relative to where its contact began.        *)
(*                                                                         *)
(* A fraction is an integer in units of 1/Full and a quotient is cut off,  *)
(* where the code computes in double: results agree to Rounding units.     *)
(***************************************************************************)
EXTENDS Integers, SequencesExt, FiniteSetsExt

CONSTANTS
  Full,       \* full scale: 32768 on the wire, 1.0 in a profile
  Rounding,   \* what the cut-off quotients may cost
  Inputs,     \* the INPUT_STATEs a client may send
  Profiles,   \* the profiles that may be chosen
  CapSets     \* what a client may advertise, of "STICK_L" ... "TOUCH"

ASSUME MappingAssumption ==
  /\ Full \in Nat \ {0, 1} /\ Rounding \in Nat
  /\ CapSets \subseteq SUBSET {"STICK_L", "STICK_R", "TRIGGERS", "GYRO", "TOUCH"}

VARIABLES
  caps,      \* from HELLO
  profile,   \* the session's profile
  tracking,  \* map_state: where the contact being tracked began, or NoAnchor
  mapped,    \* history: the session's profile has mapped an INPUT_STATE
  seen,      \* the one it mapped last
  pad,       \* the apad_pad_state made of it
  began,     \* history: where the contact on the screen now began, or NoAnchor
  astray     \* history: a profile changed during a contact, and no delta
             \* profile has seen the screen untouched since

mappingVars == <<caps, profile, tracking, mapped, seen, pad, began, astray>>

NoAnchor == <<>>
NoInput == "none"
Pull == Full - 1        \* APAD_TRIGGER_MAX
Directions == {"UP", "DOWN", "LEFT", "RIGHT"}

-----------------------------------------------------------------------------
(* Shaping *)

Magnitude(v) == IF v < 0 THEN -v ELSE v
Like(v, n) == IF v < 0 THEN -n ELSE n
AtMost(n, bound) == IF n > bound THEN bound ELSE n
AtLeast(n, bound) == IF n < bound THEN bound ELSE n

\* C's division: towards zero.
Quotient(a, b) == Like(a, Magnitude(a) \div b)
Times(a, b) == Quotient(a * b, Full)

Curved(mag, curve) ==
  CASE curve = "LINEAR" -> mag
    [] curve = "CUBIC" -> Times(mag, Times(mag, mag))
    [] OTHER -> Times(mag, mag)

\* A magnitude beyond the dead zone, rescaled to start from nothing.
ShapedMagnitude(mag, deadzone, curve) ==
  IF deadzone >= Full \/ mag < deadzone THEN 0
  ELSE Curved(AtMost(((mag - deadzone) * Full) \div (Full - deadzone), Full), curve)

ShapeAxis(v, deadzone, curve) == Like(v, ShapedMagnitude(Magnitude(v), deadzone, curve))

Root(n) == CHOOSE r \in 0 .. 2 * Full : r * r <= n /\ n < (r + 1) * (r + 1)

\* A stick is shaped as a vector.  Mutant: axis by axis, as it was before.
ShapePerAxis(x, y, deadzone, curve) ==
  <<ShapeAxis(x, deadzone, curve), ShapeAxis(y, deadzone, curve)>>
ShapeStick(x, y, deadzone, curve) ==
  LET mag == Root(x * x + y * y)
      shaped == ShapedMagnitude(AtMost(mag, Full), deadzone, curve)
  IN  IF shaped = 0 THEN <<0, 0>>
      ELSE <<Quotient(x * shaped, mag), Quotient(y * shaped, mag)>>

ToAxis(v) == AtLeast(AtMost(Times(v, Full - 1), Full - 1), -Full)

-----------------------------------------------------------------------------
(* Touch and gyro *)

InRegion(r, p) == /\ p[1] >= r.rect[1] /\ p[1] <= r.rect[3]
                  /\ p[2] >= r.rect[2] /\ p[2] <= r.rect[4]

\* A touch is in -Full .. Full - 1, a region's rectangle in 0 .. Full.
ToUnit(p) == <<((p[1] + Full) * Full) \div (2 * Full - 1),
               ((p[2] + Full) * Full) \div (2 * Full - 1)>>

\* How far along the longer side of the rectangle.
Depth(r, p) ==
  LET w == r.rect[3] - r.rect[1]
      h == r.rect[4] - r.rect[2]
      along == IF h >= w THEN <<p[2] - r.rect[2], h>> ELSE <<p[1] - r.rect[1], w>>
  IN  IF along[2] <= 0 THEN 0 ELSE AtMost(AtLeast((along[1] * Full) \div along[2], 0), Full)

\* What each contact does, in the first region it is in.
Around(tp, at) == {k \in DOMAIN tp.regions : InRegion(tp.regions[k], at)}
Regions(in, tp) ==
  IF tp.mode # "REGIONS" THEN {}
  ELSE LET places == {ToUnit(in.touches[i]) : i \in DOMAIN in.touches}
       IN  {[region |-> tp.regions[Min(Around(tp, at))], at |-> at] :
              at \in {q \in places : Around(tp, q) # {}}}

RegionPull(t) == IF t.region.analog THEN ToAxis(Depth(t.region, t.at)) ELSE Pull

Flip(v, invert) == IF invert THEN -v ELSE v

\* The anchor after an input.  Mutant: it outlives the contact.
AnchorStays(in, tp) ==
  IF tp.mode # "DELTA" \/ in.touches = <<>> \/ tracking # NoAnchor THEN tracking ELSE in.touches[1]
Anchor(in, tp) ==
  IF tp.mode # "DELTA" THEN tracking
  ELSE IF in.touches = <<>> THEN NoAnchor
  ELSE IF tracking = NoAnchor THEN in.touches[1] ELSE tracking

\* A touch is +Y down, a stick +Y up.
Deflected(in, tp, from) ==
  LET p == in.touches[1]
      dx == Flip(Times(p[1] - from[1], tp.sensitivity), tp.invert_x)
      dy == Flip(Times(from[2] - p[2], tp.sensitivity), tp.invert_y)
  IN  IF in.touches = <<>> THEN <<0, 0>>
      ELSE <<ToAxis(ShapeAxis(dx, tp.deadzone, "LINEAR")),
             ToAxis(ShapeAxis(dy, tp.deadzone, "LINEAR"))>>
TouchStick(in, tp) ==
  Deflected(in, tp, IF tp.mode = "DELTA" THEN Anchor(in, tp) ELSE <<0, 0>>)

\* A rate, as a fraction of the full-scale rate.
GyroStick(in, gp) ==
  <<ToAxis(ShapeAxis(Flip(Times(in.gyro[gp.axis_x], gp.sensitivity), gp.invert_x), gp.deadzone, "LINEAR")),
    ToAxis(ShapeAxis(Flip(Times(in.gyro[gp.axis_y], gp.sensitivity), gp.invert_y), gp.deadzone, "LINEAR"))>>

\* Mutant: the sum wraps as an int16 does.
AddWraps(a, b)   == ((a + b + Full) % (2 * Full)) - Full
ClampAdd(a, b)   == AtLeast(AtMost(a + b, Full - 1), -Full)

-----------------------------------------------------------------------------
(* One stick, and the pad *)

StickCap(side) == IF side = "RIGHT" THEN "STICK_R" ELSE "STICK_L"

Physical(side, in, p) ==
  LET st == p.stick[side]
      shaped == ShapeStick(Flip(in.stick[side][1], st.invert_x), Flip(in.stick[side][2], st.invert_y),
                           st.deadzone, st.curve)
  IN  <<ToAxis(shaped[1]), ToAxis(shaped[2])>>

GyroOn(side, p) == "GYRO" \in caps /\ p.gyro.mode # "NONE" /\ p.gyro.side = side
TouchOn(side, p) ==
  "TOUCH" \in caps /\ p.touch.mode \in {"DELTA", "ABSOLUTE"} /\ p.touch.side = side

\* A stick the client has, with the gyro on top when aiming; else the touch
\* screen, else the gyro, in its place.
Stick(side, in, p) ==
  IF StickCap(side) \in caps
  THEN IF GyroOn(side, p) /\ p.gyro.mode = "AIM"
       THEN <<ClampAdd(Physical(side, in, p)[1], GyroStick(in, p.gyro)[1]),
              ClampAdd(Physical(side, in, p)[2], GyroStick(in, p.gyro)[2])>>
       ELSE Physical(side, in, p)
  ELSE IF TouchOn(side, p) THEN TouchStick(in, p.touch)
  ELSE IF GyroOn(side, p) THEN GyroStick(in, p.gyro)
  ELSE <<0, 0>>

\* apad_hat_lut: clockwise from north, 8 for none.
HatLut == <<8, 0, 4, 8, 6, 7, 5, 6, 2, 1, 3, 2, 8, 0, 4, 8>>
Hat(buttons) ==
  LET bit(d, n) == IF d \in buttons THEN n ELSE 0
  IN  HatLut[1 + bit("UP", 1) + bit("DOWN", 2) + bit("LEFT", 4) + bit("RIGHT", 8)]

\* ZL and ZR stand in for triggers the client does not have.
OwnTrigger(target, in, p) ==
  IF "TRIGGERS" \in caps
  THEN ToAxis(ShapeAxis(AtLeast(in.trigger[target], 0), p.triggerDeadzone, "LINEAR"))
  ELSE IF (IF target = "LT" THEN "ZL" ELSE "ZR") \in in.buttons THEN Pull ELSE 0

\* A button aimed at a trigger.  Mutant: it sets the trigger, held or not.
AimedSets(target, in, p, pulled) ==
  IF \E b \in DOMAIN p.buttons : p.buttons[b] = target
  THEN IF \E b \in in.buttons \cap DOMAIN p.buttons : p.buttons[b] = target THEN Pull ELSE 0
  ELSE pulled
Aimed(target, in, p, pulled) ==
  IF \E b \in in.buttons \cap DOMAIN p.buttons : p.buttons[b] = target
  THEN AtLeast(pulled, Pull) ELSE pulled

Mapped(in, p) ==
  LET touched == IF "TOUCH" \in caps THEN Regions(in, p.touch) ELSE {}
      trigger(target) ==
        Aimed(target, in, p, Max({OwnTrigger(target, in, p)} \cup
          {RegionPull(t) : t \in {u \in touched : u.region.emit = target}}))
  IN  [buttons |-> ({p.buttons[b] : b \in in.buttons \cap DOMAIN p.buttons}
                    \cup {t.region.emit : t \in touched}) \ {"LT", "RT"},
       hat |-> Hat(in.buttons),
       stick |-> [side \in {"LEFT", "RIGHT"} |-> Stick(side, in, p)],
       trigger |-> [target \in {"LT", "RT"} |-> trigger(target)]]

\* The touch stick is only computed, and the anchor only kept, for a stick the
\* client does not have.
Tracks(p) == TouchOn(p.touch.side, p) /\ StickCap(p.touch.side) \notin caps
Tracked(in, p) == IF Tracks(p) THEN Anchor(in, p.touch) ELSE tracking

-----------------------------------------------------------------------------

\* handle_input_state: apad_mapping_apply.  History: a contact begins with the
\* first input that has one.
Apply ==
  \E in \in Inputs :
    /\ pad' = Mapped(in, profile) /\ tracking' = Tracked(in, profile)
    /\ mapped' = TRUE /\ seen' = in
    /\ began' = IF in.touches = <<>> THEN NoAnchor
                ELSE IF began = NoAnchor THEN in.touches[1] ELSE began
    /\ astray' = (astray /\ ~(in.touches = <<>> /\ Tracks(profile) /\ profile.touch.mode = "DELTA"))
    /\ UNCHANGED <<caps, profile>>

\* apad_server_set_profile, apad_server_reload_profiles: nothing but the
\* profile changes.
ChangeProfile ==
  \E p \in Profiles \ {profile} :
    /\ profile' = p
    /\ astray' = (astray \/ began # NoAnchor)
    /\ mapped' = FALSE /\ seen' = NoInput /\ pad' = NoInput
    /\ UNCHANGED <<caps, tracking, began>>

\* A slot's new occupant: apad_mapping_state_init.
MappingInit ==
  /\ caps \in CapSets /\ profile \in Profiles
  /\ tracking = NoAnchor /\ mapped = FALSE /\ seen = NoInput /\ pad = NoInput
  /\ began = NoAnchor /\ astray = FALSE

MappingNext == Apply \/ ChangeProfile

MappingSpec == MappingInit /\ [][MappingNext]_mappingVars

-----------------------------------------------------------------------------
(* Properties *)

Length(v) == Root(v[1] * v[1] + v[2] * v[2])
Sides == {"LEFT", "RIGHT"}

\* "A diagonal reaches the same speed as a cardinal push" (mapping.c:64): what
\* a stick gives depends on how far it is pushed and not on the direction, and
\* points where it was pushed; what the gyro adds while aiming only ever moves
\* it the way the console turns.
RoundStick ==
  mapped =>
    \A side \in {s \in Sides : StickCap(s) \in caps} :
      LET st == profile.stick[side]
          x == Flip(seen.stick[side][1], st.invert_x)
          y == Flip(seen.stick[side][2], st.invert_y)
          out == pad.stick[side]
          pushed == AtMost(Length(<<x, y>>), Full)
          cardinal == ToAxis(ShapeAxis(pushed, st.deadzone, st.curve))
          turned == GyroStick(seen, profile.gyro)
      IN  IF GyroOn(side, profile) /\ profile.gyro.mode = "AIM"
          THEN \A i \in {1, 2} : (out[i] - Physical(side, seen, profile)[i]) * turned[i] >= 0
          ELSE /\ Magnitude(Length(out) - cardinal) <= Rounding
               /\ Magnitude(x * out[2] - y * out[1]) <= Rounding * Length(<<x, y>>)
               /\ x * out[1] >= 0 /\ y * out[2] >= 0

\* Sources compose "in any order of presence" (mapping.c:486): letting go of a
\* button or lifting a finger never pulls a trigger further or presses
\* anything, nor does a released button take from a trigger that is pulled;
\* opposite directions of the pad cancel; and on a client without the stick,
\* aiming is substituting (mapping.c:333).
SourcesCompose ==
  mapped =>
    LET substitute == [profile EXCEPT !.gyro.mode = IF @ = "AIM" THEN "SUBSTITUTE" ELSE @]
        without(d, e) == seen.buttons \ {d, e}
    IN  /\ \A less \in {[seen EXCEPT !.buttons = @ \ {b}] : b \in seen.buttons \ Directions}
                       \cup {[seen EXCEPT !.touches = Tail(@)] : t \in {1} \cap DOMAIN seen.touches} :
             /\ Mapped(less, profile).buttons \subseteq pad.buttons
             /\ \A target \in {"LT", "RT"} :
                  Mapped(less, profile).trigger[target] <= pad.trigger[target]
        /\ \A target \in {"LT", "RT"} :
             OwnTrigger(target, seen, profile) <= pad.trigger[target]
        /\ {"UP", "DOWN"} \subseteq seen.buttons => pad.hat = Hat(without("UP", "DOWN"))
        /\ {"LEFT", "RIGHT"} \subseteq seen.buttons => pad.hat = Hat(without("LEFT", "RIGHT"))
        /\ \A side \in {s \in Sides : StickCap(s) \notin caps} :
             Stick(side, seen, substitute) = Stick(side, seen, profile)

\* A delta touch stick is "relative to wherever the contact started" and
\* "must snap back to centre the instant the contact lifts" (mapping.h:31).
FromItsStart ==
  mapped /\ Tracks(profile) /\ profile.touch.mode = "DELTA" =>
    pad.stick[profile.touch.side] = Deflected(seen, profile.touch, began)

\* The code keeps it except for a contact that outlives its profile.
FromItsStartUndisturbed == ~astray => FromItsStart

MapsAsMeant == RoundStick /\ SourcesCompose /\ FromItsStartUndisturbed
=============================================================================
