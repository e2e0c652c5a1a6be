----------------------------- MODULE MCSurface -----------------------------
(***************************************************************************)
(* What a person has to do with, each explored by itself in a slice while  *)
(* the others rest: the touchscreen as mouse, keyboard and remote control,  *)
(* the mapping engine behind one session, a profile's text on its way from  *)
(* the editor to the server, the host's web page, the start of the host.    *)
(***************************************************************************)
EXTENDS KbmTouch, Mapping, ProfileFile, WebUi, HostStart

VARIABLE slice  \* the component that is explored

-----------------------------------------------------------------------------
(* TOUCH: the 3DS's bottom screen.  A place is a tab, or the pad, a button   *)
(* or the wheel of the mouse and a key or a sticky modifier of the keyboard. *)

MCPlaces == {<<100, 100>>, <<102, 101>>, <<10, 150>>, <<50, 200>>, <<10, 10>>}
MCOffers == {{"KEYBOARD", "MOUSE"}}

-----------------------------------------------------------------------------
(* MAPPING: profiles like the shipped ones, and a delta stick; pushes along  *)
(* the axes, along the diagonals, into the corner and around the dead zone.  *)

Centred == [LEFT |-> <<0, 0>>, RIGHT |-> <<0, 0>>]
Resting == [buttons |-> {}, stick |-> Centred, trigger |-> [LT |-> 0, RT |-> 0],
         gyro |-> [PITCH |-> 0, YAW |-> 0], touches |-> <<>>]

Pushes == {<<99, 0>>, <<-100, 0>>, <<70, 70>>, <<-70, 70>>, <<99, -99>>, <<50, 0>>,
           <<36, 35>>, <<7, 3>>, <<60, -20>>}
Contacts == {<<<<-60, 40>>>>, <<<<10, 40>>>>, <<<<80, -100>>>>, <<<<-60, 40>>, <<80, 0>>>>}

MCInputs ==
  {[Resting EXCEPT !.touches = t] : t \in Contacts \cup {<<>>}}
  \cup {[Resting EXCEPT !.stick.LEFT = v, !.stick.RIGHT = v] : v \in Pushes}
  \cup {[Resting EXCEPT !.stick.RIGHT = v, !.gyro.YAW = g, !.gyro.PITCH = -g, !.touches = t] :
          v \in {<<0, 0>>, <<99, 0>>, <<-100, -7>>}, g \in {90, -150}, t \in {<<>>, <<<<10, 40>>>>}}
  \cup {[Resting EXCEPT !.buttons = b, !.trigger.LT = n, !.touches = t] :
          b \in SUBSET {"L", "ZL", "A"}, n \in {0, 40},
          t \in {<<>>, <<<<-60, 40>>, <<80, 0>>>>}}
  \cup {[Resting EXCEPT !.buttons = b] : b \in SUBSET Directions}

Shape(deadzone, curve, invert) ==
  [deadzone |-> deadzone, curve |-> curve, invert_x |-> FALSE, invert_y |-> invert]
Touch(m, side) ==
  [mode |-> m, side |-> side, sensitivity |-> 115, deadzone |-> 5,
   invert_x |-> FALSE, invert_y |-> FALSE,
   regions |-> <<[rect |-> <<0, 0, 50, 100>>, emit |-> "LT", analog |-> TRUE],
                 [rect |-> <<0, 0, 100, 60>>, emit |-> "RT", analog |-> FALSE],
                 [rect |-> <<0, 0, 100, 100>>, emit |-> "X", analog |-> FALSE]>>]
Gyro(m, side) ==
  [mode |-> m, side |-> side, axis_x |-> "YAW", axis_y |-> "PITCH", sensitivity |-> 150,
   deadzone |-> 2, invert_x |-> FALSE, invert_y |-> TRUE]

MCProfile(b, curve, touch, gyro) ==
  [buttons |-> b, stick |-> [LEFT |-> Shape(8, curve, FALSE), RIGHT |-> Shape(8, curve, TRUE)],
   triggerDeadzone |-> 2, touch |-> touch, gyro |-> gyro]
Faces == [A |-> "B", L |-> "LB"]
MCProfiles ==
  {MCProfile(Faces, "QUADRATIC", Touch("NONE", "RIGHT"), Gyro("NONE", "RIGHT")),
   MCProfile(Faces, "LINEAR", Touch("REGIONS", "RIGHT"), Gyro("AIM", "RIGHT")),
   MCProfile([A |-> "A", L |-> "LT"], "CUBIC", Touch("REGIONS", "LEFT"), Gyro("SUBSTITUTE", "LEFT")),
   MCProfile(Faces, "QUADRATIC", Touch("DELTA", "RIGHT"), Gyro("AIM", "LEFT")),
   MCProfile(Faces, "QUADRATIC", Touch("ABSOLUTE", "LEFT"), Gyro("NONE", "LEFT"))}
MCCapSets ==
  {{"STICK_L", "TOUCH", "GYRO"}, {"STICK_L", "STICK_R", "TRIGGERS", "TOUCH", "GYRO"}, {"TOUCH"}}

-----------------------------------------------------------------------------
(* FILE: texts somebody may write by hand. *)

Q(words) == <<"\"">> \o words \o <<"\"">>
Key(name) == Q(<<name>>) \o <<":">>

\* A comment of each kind, a string with everything that is escaped, two equal
\* keys, a trailing comma, numbers of each shape and settings of a wrong kind.
HandWritten ==
  <<"/", "/", "mine", "\"", NL, "{">>
  \o Key("profile") \o Q(<<"other">>) \o <<",", SP>>
  \o Key("match") \o <<"{">> \o Key("device")
    \o Q(<<"3DS", "\\", "\"", "/", "/", "\\", "\\", "\\", "n", NL, "\\", "u001f">>) \o <<"}", ",">>
  \o Key("buttons") \o <<"{">> \o Key("A") \o Q(<<"LT">>) \o <<",">> \o Key("A") \o Q(<<"B">>)
    \o <<",">> \o Key("L") \o <<"1", "}", ",">>
  \o Key("sticks") \o <<"{">> \o Key("invert") \o <<"true", ",">> \o Key("deadzone") \o <<"0", ".", "1", "5", ",">>
    \o Key("left") \o <<"{">> \o Key("curve") \o Q(<<"cubic">>) \o <<"}", "}", ",">>
  \o <<"/", "*", "*", "/">>
  \o Key("gyro") \o <<"{">> \o Key("mode") \o Q(<<"aim">>) \o <<",">> \o Key("sensitivity") \o <<"-", "1", "e", "5", "}", ",", "}">>
Regions2 ==
  <<"{">> \o Key("touch") \o <<"{">> \o Key("mode") \o Q(<<"regions">>) \o <<",">> \o Key("regions") \o <<"[">>
      \o <<"{">> \o Key("rect") \o <<"[", "0", ",", "null", ",", "0", ".", "5", ",", "1", "]", ",">> \o Key("emit") \o Q(<<"RT">>)
      \o <<",">> \o Key("analog") \o <<"true", "}", ",">>
      \o <<"{">> \o Key("rect") \o <<"[", "1", ",", "1", ",", "1", "]", ",">> \o Key("emit") \o Q(<<"X">>) \o <<"}", ",">>
      \o <<"{">> \o Key("rect") \o <<"[", "0", ",", "0", ",", "1", "e", "-", "5", ",", "1", "]", ",">> \o Key("emit") \o Q(<<"NONE">>) \o <<"}">>
      \o <<"]", "}", "}">>
Huge == <<"{">> \o Key("triggers") \o <<"{">> \o Key("deadzone") \o <<"1", "e", "9", "9", "}", ",">> \o Key("builtin") \o <<"true", "}">>
MCWire == <<<<"A", "B">>, <<"L", "LB">>>>
MCRequests == {HandWritten, Regions2, Huge, <<"[", "1", "]">>}
MCEditPlaces == {9 * k + 4 : k \in 0 .. 60}
MCEditSymbols == {"\"", ",", "9"}

-----------------------------------------------------------------------------
(* WEB: what a browser may send, well made or not; one shipped profile, one  *)
(* a person may save, one put beside.                                        *)

McShipped == <<Profile("generic", "", 0)>>
McDevices == {{"3DS"}}
McStemOrder == <<"aim", "generic", "zoom">>
McHandTexts == {Unreadable, Profile("generic", "3DS", 1)}

Sends(method, route) ==
  [method |-> method, route |-> route, arrived |-> "whole", host |-> "loopback", origin |-> "none",
   name |-> "aim", slot |-> 1, address |-> "gone", body |-> "good"]
McSaves  == {Sends(method, "profile") : method \in {"GET", "PUT", "DELETE"}}
McWrites == {Sends("POST", route) : route \in {"begin", "cancel", "reload", "client"}}
McWebRequests ==
  McSaves \cup McWrites
  \cup {Sends("GET", route) : route \in {"page", "state", "qr", "profiles", "client", "nowhere"}}
  \cup {[req EXCEPT !.origin = "other"] : req \in McSaves}
  \cup {[Sends("PUT", "profile") EXCEPT !.name = name] : name \in {"generic", "a/b"}}
  \cup {[Sends("PUT", "profile") EXCEPT !.body = "bad"],
        [Sends("DELETE", "profile") EXCEPT !.name = "generic"],
        [Sends("GET", "profile") EXCEPT !.name = "zoom"],
        [Sends("GET", "qr") EXCEPT !.address = "A"],
        [Sends("GET", "state") EXCEPT !.host = "other"],
        [Sends("POST", "begin") EXCEPT !.arrived = "late"],
        [Sends("POST", "reload") EXCEPT !.arrived = "torn"],
        [Sends("POST", "client") EXCEPT !.name = "zoom"],
        [Sends("POST", "client") EXCEPT !.slot = 9],
        Sends("HEAD", "page")}
McOwnLists == {<< >>, <<"B", "A">>}

-----------------------------------------------------------------------------
(* START: the interfaces of four machines, one of them without any.          *)

Nic(type, wireless, cgnat, broadcast, address) ==
  [type |-> type, wireless |-> wireless, cgnat |-> cgnat, broadcast |-> broadcast,
   up |-> TRUE, loopback |-> FALSE, ipv4 |-> TRUE, address |-> address]
Lo == [Nic("nic", FALSE, FALSE, FALSE, "lo") EXCEPT !.loopback = TRUE]
McInterfaceLists ==
  {<<Lo>>,
   <<Lo, Nic("bridge", FALSE, FALSE, TRUE, "docker"), Nic("nic", FALSE, FALSE, TRUE, "cable"),
     Nic("nic", TRUE, FALSE, TRUE, "air")>>,
   <<Nic("tailscale", FALSE, TRUE, FALSE, "tail"), Nic("nic", FALSE, FALSE, TRUE, "cable")>>,
   <<Nic("nic", TRUE, TRUE, FALSE, "carrier"), Nic("nic", FALSE, FALSE, TRUE, "cable")>>}

-----------------------------------------------------------------------------

WebRests   == WebInit /\ own = << >>
StartRests == HostStartInit /\ program = "linux" /\ nics = <<Lo>>
              /\ options = [ask |-> "start", headless |-> TRUE, mdns |-> FALSE, browser |-> FALSE]

SurfaceInit ==
  /\ slice \in {"TOUCH", "MAPPING", "FILE", "WEB", "START"}
  /\ TouchFresh /\ IF slice = "TOUCH" THEN features \in Offers ELSE features = {}
  /\ IF slice = "MAPPING" THEN MappingInit
     ELSE /\ caps = {} /\ profile = NoInput /\ tracking = NoAnchor /\ mapped = FALSE
          /\ seen = NoInput /\ pad = NoInput /\ began = NoAnchor /\ astray = FALSE
  /\ IF slice = "FILE" THEN FileInit
     ELSE body = NoText /\ edits = 0 /\ answer = 0 /\ file = NoText /\ current = BuiltinDefault
  /\ IF slice = "WEB" THEN WebInit ELSE WebRests
  /\ IF slice = "START" THEN HostStartInit ELSE StartRests

SurfaceNext ==
  /\ UNCHANGED slice
  /\ \/ slice = "TOUCH" /\ Frame /\ UNCHANGED <<mappingVars, fileVars, webVars, startVars>>
     \/ slice = "MAPPING" /\ MappingNext /\ UNCHANGED <<touchVars, fileVars, webVars, startVars>>
     \/ slice = "FILE" /\ FileNext /\ UNCHANGED <<touchVars, mappingVars, webVars, startVars>>
     \/ slice = "WEB" /\ WebNext /\ UNCHANGED <<touchVars, mappingVars, fileVars, startVars>>
     \/ slice = "START" /\ HostStartNext /\ UNCHANGED <<touchVars, mappingVars, fileVars, webVars>>

SurfaceSpec ==
  SurfaceInit /\ [][SurfaceNext]_<<slice, touchVars, mappingVars, fileVars, webVars, startVars>>

-----------------------------------------------------------------------------

\* KbmTouch's promise about the touchscreen.
TouchActsAsMeant == slice = "TOUCH" => TouchAsMeant

\* Mapping's promise about a pad state and the input it is made of.
PadsAsMeant == slice = "MAPPING" => MapsAsMeant

\* ProfileFile's promise about a profile and its texts.
ProfilesAsMeant == slice = "FILE" => TextsKeepMeaning
=============================================================================
