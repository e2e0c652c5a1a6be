------------------------------- MODULE MCHost -------------------------------
(***************************************************************************)
(* The machines inside the host program that share no state with each other,*)
(* in one run: every initial state starts one of them and holds the others  *)
(* in an initial state of theirs, because their product would add nothing.  *)
(***************************************************************************)
EXTENDS Mdns, Profiles, Backends, HostLoop, ErrorLimiter

\* Mdns
MCAddressLists == {<<"eth", "wlan">>, <<"wlan">>, <<>>}

Asks(name, type, from, legacy, unicast) ==
  [name |-> name, type |-> type, class |-> "IN", from |-> from, legacy |-> legacy, unicast |-> unicast]

MCQuestions ==
  {Asks("service", "PTR", from, FALSE, FALSE) : from \in {"eth", "wlan", "LO"}} \cup
  {Asks("instance", "ANY", "wlan", TRUE, FALSE), Asks("hostname", "A", "eth", FALSE, TRUE),
   Asks("meta", "PTR", "eth", FALSE, FALSE), Asks("instance", "SRV", "wlan", FALSE, FALSE),
   Asks("other", "ANY", "wlan", FALSE, FALSE)}

\* Profiles
McShipped == <<Profile("generic", "", 0)>>
McDevices == {{"3DS"}}
McStemOrder == <<"aim", "generic", "zoom">>
McHandTexts == {Unreadable, Profile("generic", "3DS", 1)}

\* Backends
\* Two buttons pressed together, one let go while the other stays, the hat
\* and the stick.
McFrames == {AtRest, [buttons |-> {1, 2}, stick |-> 1, hat |-> 0],
                     [buttons |-> {1}, stick |-> 0, hat |-> 1]}
\* Two usages share a key, as in apad_hid_to_evdev.
McEvdev == <<11, 11>>

-----------------------------------------------------------------------------
VARIABLE machine

MdnsHeld     == MdnsInit /\ responder = Opened("DISABLED") /\ truth.free = 1 /\ truth.addrs = << >>
HostLoopHeld == HostLoopInit /\ host = "linux"
LimiterHeld  == LimiterInit /\ now = 0
BackendsHeld == BackendsInit /\ system = "LINUX"

MCHostInit ==
  /\ machine \in {"mdns", "loop", "profiles", "limiter", "backends"}
  /\ IF machine = "mdns" THEN MdnsInit ELSE MdnsHeld
  /\ IF machine = "loop" THEN HostLoopInit ELSE HostLoopHeld
  /\ IF machine = "limiter" THEN LimiterInit ELSE LimiterHeld
  /\ IF machine = "backends" THEN BackendsInit ELSE BackendsHeld
  /\ ProfilesInit

MCHostNext ==
  \/ machine = "mdns" /\ MdnsNext
     /\ UNCHANGED <<machine, loopVars, profileVars, limiterVars, backendVars>>
  \/ machine = "loop" /\ HostLoopNext
     /\ UNCHANGED <<machine, mdnsVars, profileVars, limiterVars, backendVars>>
  \/ machine = "profiles" /\ ProfilesNext
     /\ UNCHANGED <<machine, mdnsVars, loopVars, limiterVars, backendVars>>
  \/ machine = "limiter" /\ LimiterNext
     /\ UNCHANGED <<machine, mdnsVars, loopVars, profileVars, backendVars>>
  \/ machine = "backends" /\ BackendsNext
     /\ UNCHANGED <<machine, mdnsVars, loopVars, profileVars, limiterVars>>

MCHostSpec == MCHostInit /\ [][MCHostNext]_<<machine, mdnsVars, loopVars, profileVars, limiterVars, backendVars>>
=============================================================================
