---------------------------- MODULE ErrorLimiter ----------------------------
(***************************************************************************)
(* The limiter in front of every ERROR the server sends, server.c          *)
(* error_rate_allow(): a table of a few source addresses, each with a ring *)
(* of the instants of its last sends, and the entry that has been silent   *)
(* longest evicted for a new address.  Instants are those of a clock that  *)
(* wraps (seq.c, apad_time_since), here without % as in SeqArith.          *)
(***************************************************************************)
EXTENDS Integers, FiniteSets

CONSTANTS
  Askers,    \* source addresses; ports do not count
  TrackSlots,   \* ERROR_RATE_TRACK_SLOTS
  Limit,        \* ERROR_RATE_LIMIT_PER_SEC
  Window,       \* ERROR_RATE_WINDOW_MS
  ClockModulus  \* 2^32

\* The first send of an entry makes place 1 the next: there are at least two.
ASSUME ErrorLimiterAssumption ==
  /\ IsFiniteSet(Askers)
  /\ {TrackSlots, Window, ClockModulus} \subseteq Nat \ {0} /\ Limit \in Nat \ {0, 1}

VARIABLES
  now,      \* apad_ticks_ms()
  rates,    \* the table: error_rate_slot by position
  sends,    \* history: address -> the ages of the last Limit + 1 ERRORs it was sent,
            \* the latest first; Window is any age not within the window
  lastAsked \* history: address -> how long ago one was last due to it

limiterVars == <<now, rates, sends, lastAsked>>
Slots == 1..TrackSlots
Recent == 1..(Limit + 1)

\* apad_time_since: unsigned subtraction.  Mutant: a comparison of raw instants.
TimeSinceRaw(at, then) == IF at > then THEN at - then ELSE 0
TimeSince(at, then)    == IF at >= then THEN at - then ELSE at - then + ClockModulus

Unused == [in_use |-> FALSE, ip |-> "none", ts |-> [i \in 0..(Limit - 1) |-> 0],
           count |-> 0, next |-> 0, last_seen |-> 0]

\* The entry of an address, if it has one: the first that is in use for it.
EntriesOf(ip) == {i \in Slots : rates[i].in_use /\ rates[i].ip = ip}
FirstOf(set) == CHOOSE i \in set : \A j \in set : i <= j

\* A send takes the oldest place of the ring.
Stamped(slot) == [slot EXCEPT !.ts[slot.next] = now,
                              !.next = IF @ + 1 = Limit THEN 0 ELSE @ + 1,
                              !.count = IF @ < Limit THEN @ + 1 ELSE @,
                              !.last_seen = now]
HasRoom(slot) == \/ slot.count < Limit
                 \/ TimeSince(now, slot.ts[slot.next]) >= Window

\* A free place if there is one, otherwise whoever has been silent longest.
\* Mutant: always the first place.
PlaceFirst == 1
Place ==
  LET free == {i \in Slots : ~rates[i].in_use}
      idle == {i \in Slots : \A j \in Slots :
                 TimeSince(now, rates[i].last_seen) >= TimeSince(now, rates[j].last_seen)}
  IN  FirstOf(IF free # {} THEN free ELSE idle)
Fresh(ip) == [Unused EXCEPT !.in_use = TRUE, !.ip = ip, !.last_seen = now,
                            !.ts[0] = now, !.next = 1, !.count = 1]

-----------------------------------------------------------------------------
\* How long ago addresses asked and were sent something, up to the window.
AddressAsked(ip) == lastAsked' = [lastAsked EXCEPT ![ip] = 0]

\* error_rate_allow, called for an ERROR to ip
Passes(ip) ==
  \/ /\ EntriesOf(ip) # {} /\ HasRoom(rates[FirstOf(EntriesOf(ip))])
     /\ rates' = [rates EXCEPT ![FirstOf(EntriesOf(ip))] = Stamped(@)]
  \/ /\ EntriesOf(ip) = {}
     /\ rates' = [rates EXCEPT ![Place] = Fresh(ip)]

Sent(ip) ==
  /\ Passes(ip)
  /\ sends' = [sends EXCEPT ![ip] = [j \in Recent |-> IF j = 1 THEN 0 ELSE @[j - 1]]]
  /\ AddressAsked(ip)
  /\ UNCHANGED now

Held(ip) ==
  /\ EntriesOf(ip) # {} /\ ~HasRoom(rates[FirstOf(EntriesOf(ip))])
  /\ rates' = [rates EXCEPT ![FirstOf(EntriesOf(ip))].last_seen = now]
  /\ AddressAsked(ip)
  /\ UNCHANGED <<now, sends>>

Aged(age) == IF age < Window THEN age + 1 ELSE Window
Oldest(slot) == slot.ts[IF slot.count < Limit THEN 0 ELSE slot.next]

\* A millisecond.  Bound: every instant the table holds is younger than one
\* turn of the clock, 49 days.
Passing ==
  /\ \A i \in Slots : rates[i].in_use =>
       \A then \in {rates[i].last_seen, Oldest(rates[i])} : TimeSince(now, then) + 1 < ClockModulus
  /\ now' = IF now + 1 = ClockModulus THEN 0 ELSE now + 1
  /\ sends' = [ip \in Askers |-> [j \in Recent |-> Aged(sends[ip][j])]]
  /\ lastAsked' = [ip \in Askers |-> Aged(lastAsked[ip])]
  /\ UNCHANGED rates

LimiterInit ==
  /\ now \in 0..(ClockModulus - 1)
  /\ rates = [i \in Slots |-> Unused]
  /\ sends = [ip \in Askers |-> [j \in Recent |-> Window]]
  /\ lastAsked = [ip \in Askers |-> Window]

LimiterNext == (\E ip \in Askers : Sent(ip) \/ Held(ip)) \/ Passing

LimiterSpec == LimiterInit /\ [][LimiterNext]_limiterVars

-----------------------------------------------------------------------------
(* Properties *)

\* No address is sent more than Limit ERRORs within any window, not even
\* across a wrap of the clock, unless the table was too small for the crowd:
\* at least TrackSlots other addresses asked within the same window, so that
\* the entry had to be forgotten (server.c, "a true sliding window"); and an
\* address that was sent nothing within the window is never held back, however
\* full the table is.
ErrorsLimited ==
  /\ \A ip \in Askers :
       sends[ip][Limit + 1] < Window =>
         Cardinality({other \in Askers \ {ip} : lastAsked[other] < Window}) >= TrackSlots
  /\ \A ip \in Askers :
       sends[ip][1] = Window /\ EntriesOf(ip) # {} => HasRoom(rates[FirstOf(EntriesOf(ip))])
=============================================================================
