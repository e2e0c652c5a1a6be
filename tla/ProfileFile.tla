---------------------------- MODULE ProfileFile ----------------------------
(***************************************************************************)
(* What a profile's text means (server/src/profiles.c, build_profile and   *)
(* the read_ functions) and the editor's round trip through it: GET        *)
(* /api/profile/{name} shows the loaded profile as JSON, the editor or a   *)
(* script changes the text, PUT writes it to a file that the next load     *)
(* reads (profile_json.h, webui.h).  Profiles has the directory and the    *)
(* table around it.                                                        *)
(***************************************************************************)
EXTENDS Integers, SequencesExt, Jsonc

CONSTANTS
  WireButtons,  \* the wire's buttons in their order, with their built-in targets
  MaxRegions,   \* APAD_PROFILE_MAX_REGIONS
  Requests,     \* bodies somebody may write
  SavedName,    \* the profile that is saved, never a shipped one
  EditSymbols,  \* symbols an edit may put in
  EditPlaces,   \* bound: the positions in a text where an edit is tried
  MaxEdits      \* bound: symbols put in or taken out of what was written or shown

VARIABLES
  body,     \* the JSON text in the editor's or the script's hand
  edits,    \* symbols changed in it
  answer,   \* the status of the last PUT, or 0
  file,     \* the profile's file, or NoText
  current   \* the profile the server has loaded from it

fileVars == <<body, edits, answer, file, current>>

NoText == <<>>
PadButtons == {"A", "B", "X", "Y", "LB", "RB", "BACK", "START", "GUIDE", "LTHUMB", "RTHUMB"}
Triggers == {"LT", "RT"}
Targets == PadButtons \cup Triggers \cup {"NONE"}
One == [Zero EXCEPT !.n = 1]
Hundredths(n) == [Zero EXCEPT !.n = n, !.e = -2]

-----------------------------------------------------------------------------
(* build_profile *)

\* A name of an enumeration; an unknown one counts as none.
Named(value, key, names, fallback) ==
  LET str == StringIn(value, key, <<>>)
  IN  IF Len(str) = 1 /\ str[1] \in names THEN str[1] ELSE fallback
Side(value) == IF StringIn(value, "stick", <<>>) = <<"right">> THEN "right" ELSE "left"

ButtonNames == [i \in DOMAIN WireButtons |-> WireButtons[i][1]]
BuiltinStick == [deadzone |-> Hundredths(8), curve |-> "quadratic", invert_x |-> FALSE, invert_y |-> FALSE]
NoTouch == [mode |-> "none", stick |-> "left", sensitivity |-> Zero, deadzone |-> Zero,
            invert_x |-> FALSE, invert_y |-> FALSE, regions |-> <<>>]
NoGyro == [mode |-> "none", stick |-> "left", axis_x |-> "pitch", axis_y |-> "pitch",
           sensitivity |-> Zero, deadzone |-> Zero, invert_x |-> FALSE, invert_y |-> FALSE]
BuiltinDefault ==
  [name |-> <<"builtin">>, match |-> <<>>, buttons |-> [i \in DOMAIN WireButtons |-> WireButtons[i][2]],
   left |-> BuiltinStick, right |-> BuiltinStick, trigger |-> Hundredths(2),
   touch |-> NoTouch, gyro |-> NoGyro]

ReadButtons(value) ==
  [i \in DOMAIN WireButtons |-> Named(value, ButtonNames[i], Targets, WireButtons[i][2])]

\* "invert" is both axes, and has the last word.
ReadStick(value, st) ==
  LET both == Has(value, "invert")
      invert == BooleanIn(value, "invert", FALSE)
  IN  [deadzone |-> NumberIn(value, "deadzone", st.deadzone),
       curve    |-> Named(value, "curve", {"linear", "quadratic", "cubic"}, st.curve),
       invert_x |-> IF both THEN invert ELSE BooleanIn(value, "invert_x", st.invert_x),
       invert_y |-> IF both THEN invert ELSE BooleanIn(value, "invert_y", st.invert_y)]
\* What both sticks share, then what one of them has for itself.
ReadSide(sticks, side) == ReadStick(Get(sticks, side), ReadStick(sticks, BuiltinStick))

ReadRegion(value) ==
  LET rect == Get(value, "rect").items
      edge(i, fallback) == IF rect[i].kind = "NUMBER" THEN rect[i].num ELSE fallback
  IN  [rect |-> <<edge(1, Zero), edge(2, Zero), edge(3, One), edge(4, One)>>,
       emit |-> Named(value, "emit", Targets, "?"), analog |-> BooleanIn(value, "analog", FALSE)]
\* A region without a rectangle or a target is skipped.
ReadRegions(value) ==
  LET rect(item) == Get(item, "rect")
      good == SelectSeq(value.items, LAMBDA item :
                rect(item).kind = "ARRAY" /\ Len(rect(item).items) = 4
                /\ Named(item, "emit", Targets, "?") # "?")
      taken == IF Len(good) > MaxRegions THEN SubSeq(good, 1, MaxRegions) ELSE good
  IN  IF value.kind # "ARRAY" THEN <<>> ELSE [i \in DOMAIN taken |-> ReadRegion(taken[i])]
ReadTouch(root) ==
  LET value == Get(root, "touch")
  IN  IF ~Has(root, "touch") THEN NoTouch
      ELSE [mode |-> Named(value, "mode", {"regions", "delta_stick", "absolute_stick"}, "none"),
            stick |-> Side(value), sensitivity |-> NumberIn(value, "sensitivity", One),
            deadzone |-> NumberIn(value, "deadzone", Zero),
            invert_x |-> BooleanIn(value, "invert_x", FALSE), invert_y |-> BooleanIn(value, "invert_y", FALSE),
            regions |-> ReadRegions(Get(value, "regions"))]

\* The rest of a gyro that is off is not read.
ReadGyro(root) ==
  LET value == Get(root, "gyro")
      mode == Named(value, "mode", {"substitute", "aim"}, "none")
      axes == {"pitch", "roll", "yaw"}
  IN  IF mode = "none" THEN NoGyro
      ELSE [mode |-> mode, stick |-> Side(value),
            axis_x |-> Named(value, "axis_x", axes, "yaw"), axis_y |-> Named(value, "axis_y", axes, "pitch"),
            sensitivity |-> NumberIn(value, "sensitivity", One),
            deadzone |-> NumberIn(value, "deadzone", Hundredths(2)),
            invert_x |-> BooleanIn(value, "invert_x", FALSE), invert_y |-> BooleanIn(value, "invert_y", FALSE)]

Build(root, stem) ==
  [name |-> StringIn(root, "profile", <<stem>>), match |-> StringIn(Get(root, "match"), "device", <<>>),
   buttons |-> ReadButtons(Get(root, "buttons")),
   left |-> ReadSide(Get(root, "sticks"), "left"), right |-> ReadSide(Get(root, "sticks"), "right"),
   trigger |-> NumberIn(Get(root, "triggers"), "deadzone", BuiltinDefault.trigger),
   touch |-> ReadTouch(root), gyro |-> ReadGyro(root)]

-----------------------------------------------------------------------------
(* profile_json_serialize: a GET's answer *)

Fields(pairs) == ObjectOf([i \in DOMAIN pairs |-> <<pairs[i][1]>>], [i \in DOMAIN pairs |-> pairs[i][2]])
Word(name) == String(<<name>>)
Inverts(x) == <<<<"invert_x", Boolean(x.invert_x)>>, <<"invert_y", Boolean(x.invert_y)>>>>
StickTree(st) ==
  Fields(<<<<"deadzone", Number(st.deadzone)>>, <<"curve", Word(st.curve)>>>> \o Inverts(st))
RegionTree(r) ==
  Fields(<<<<"rect", ListOf([i \in 1..4 |-> Number(r.rect[i])])>>, <<"emit", Word(r.emit)>>,
           <<"analog", Boolean(r.analog)>>>>)
TouchTree(t) ==
  Fields(<<<<"mode", Word(t.mode)>>, <<"stick", Word(t.stick)>>,
           <<"sensitivity", Number(t.sensitivity)>>, <<"deadzone", Number(t.deadzone)>>>> \o Inverts(t)
         \o <<<<"regions", ListOf([i \in DOMAIN t.regions |-> RegionTree(t.regions[i])])>>>>)
GyroTree(g) ==
  Fields(<<<<"mode", Word(g.mode)>>, <<"stick", Word(g.stick)>>, <<"axis_x", Word(g.axis_x)>>,
           <<"axis_y", Word(g.axis_y)>>, <<"sensitivity", Number(g.sensitivity)>>,
           <<"deadzone", Number(g.deadzone)>>>> \o Inverts(g))
Serialize(p) ==
  Write(Fields(
    <<<<"profile", String(p.name)>>, <<"match", Fields(<<<<"device", String(p.match)>>>>)>>,
      <<"buttons", Fields([i \in DOMAIN p.buttons |-> <<ButtonNames[i], Word(p.buttons[i])>>])>>,
      <<"sticks", Fields(<<<<"left", StickTree(p.left)>>, <<"right", StickTree(p.right)>>>>)>>,
      <<"triggers", Fields(<<<<"deadzone", Number(p.trigger)>>>>)>>,
      <<"touch", TouchTree(p.touch)>>, <<"gyro", GyroTree(p.gyro)>>,
      <<"builtin", Boolean(FALSE)>>, <<"editable", Boolean(TRUE)>>>>))

\* profile_json_build_jsonc: the file says whose it is, whatever the body says.
Entries(root, dropped) ==
  SelectSeq([i \in DOMAIN root.keys |-> <<root.keys[i], root.items[i]>>],
            LAMBDA entry : entry[1] \notin dropped)
Annotations == {<<"profile">>, <<"builtin">>, <<"editable">>}
BuildJsonc(root, name) ==
  <<"/", "/", SP, "generated", NL, "{", NL, "\"", "profile", "\"", ":", SP>> \o Quoted(<<name>>)
  \o LET kept == Entries(root, Annotations)
     IN  FlattenSeq([i \in DOMAIN kept |->
           <<",", NL, SP>> \o Quoted(kept[i][1]) \o <<":", SP>> \o Write(kept[i][2])])
  \o <<NL, "}", NL>>

-----------------------------------------------------------------------------

\* A symbol is put into the body or taken out of it.
Edit ==
  /\ edits < MaxEdits
  /\ \E i \in EditPlaces \cap DOMAIN body :
       \/ body' = RemoveAt(body, i)
       \/ \E c \in EditSymbols : body' = InsertAt(body, i, c)
  /\ edits' = edits + 1 /\ answer' = 0
  /\ UNCHANGED <<file, current>>

\* PUT: the body is read, the file's text made and read once more, the file
\* written and loaded.  Profiles has what can go wrong with the file.
Put ==
  /\ answer = 0
  /\ \E root \in {Parse(body)} : \E text \in {BuildJsonc(root.value, SavedName)} :
       \E again \in {Parse(text)} :
         /\ answer' = IF ~root.ok THEN 400 ELSE IF ~again.ok THEN 500 ELSE 200
         /\ file' = IF answer' = 200 THEN text ELSE file
         /\ current' = IF answer' = 200 THEN Build(again.value, SavedName) ELSE current
  /\ UNCHANGED <<body, edits>>

Show ==
  /\ file # NoText /\ body # Serialize(current)
  /\ body' = Serialize(current) /\ answer' = 0
  /\ UNCHANGED <<edits, file, current>>

FileInit ==
  /\ body \in Requests /\ edits = 0 /\ answer = 0
  /\ file = NoText /\ current = BuiltinDefault

FileNext == Edit \/ Put \/ Show

FileSpec == FileInit /\ [][FileNext]_fileVars

-----------------------------------------------------------------------------
(* Properties *)

RECURSIVE Finite(_)
Finite(value) == ~value.num.infinite /\ \A i \in DOMAIN value.items : Finite(value.items[i])

\* A body that reads as JSON is saved, and what is loaded from the file is what
\* the body means, under the file's own name, whatever the body quotes, repeats,
\* leaves out, or has of the wrong kind.  Only a number too large for a double
\* is refused, as "a bug, not a bad request" (webui.h:996).
SavedAsMeant ==
  \A root \in {Parse(body)} :
    /\ answer = 200 => current = [Build(root.value, SavedName) EXCEPT !.name = <<SavedName>>]
    /\ answer = 500 => ~Finite(root.value)

\* What the editor is shown reads back as the profile it was made from: saving
\* it unchanged changes nothing.
ShownAsLoaded ==
  \A root \in {Parse(Serialize(current)).value} : Build(root, SavedName) = current

TextsKeepMeaning == SavedAsMeant /\ ShownAsLoaded
=============================================================================
