---------------------------- MODULE HostDevices ----------------------------
(***************************************************************************)
(* What a backend promises the server library (server/backends/backend.h), *)
(* as another program on the host sees it: virtual devices appear at rest, *)
(* show what they were last told as long as no write to them has failed,   *)
(* and vanish.  Nothing done to one device disturbs another.               *)
(***************************************************************************)
EXTENDS FiniteSets

CONSTANTS
  Devices,      \* <<slot, kind>>
  Values(_),    \* device -> what it can be told
  Rest(_)       \* device -> what it shows when nobody has told it anything

VARIABLE devices   \* the devices there are: what each was asked last, what it
                   \* shows, and whether it can be relied on

State(d) == [asked : Values(d), shows : Values(d), sure : BOOLEAN]
Only(d)  == devices' = [e \in DOMAIN devices \cup {d} |-> IF e = d THEN devices'[d] ELSE devices[e]]

\* create_pad
Appears(d) ==
  /\ d \in DOMAIN devices' \ DOMAIN devices
  /\ devices'[d] = [asked |-> Rest(d), shows |-> Rest(d), sure |-> TRUE]
  /\ Only(d)

\* update_pad, kbm_events; a keyboard is created by the first report for it.
Told(d) ==
  /\ d \in DOMAIN devices'
  /\ d \in DOMAIN devices \/ d[2] # "PAD"
  /\ devices'[d] \in State(d)
  /\ devices'[d].sure => devices'[d].shows = devices'[d].asked
  /\ Only(d)

\* destroy_pad, destroy_kbm, shutdown
Vanish == devices' = [d \in DOMAIN devices \cap DOMAIN devices' |-> devices[d]]

HostDevicesInit == devices = << >>

HostDevicesNext == Vanish \/ \E d \in Devices : Appears(d) \/ Told(d)

HostDevicesSpec == HostDevicesInit /\ [][HostDevicesNext]_devices
=============================================================================
