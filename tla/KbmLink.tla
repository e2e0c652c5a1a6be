------------------------------ MODULE KbmLink -------------------------------
(***************************************************************************)
(* One facility of one ACTIVE session, from the user's finger to the host:  *)
(* the client's KbmSender, a network that may lose, repeat and overtake     *)
(* datagrams, and the server's Kbm with the receive window of core's        *)
(* session in front of it.  What the user made and what the host was told   *)
(* are kept as histories, so that the two can be compared edge by edge.     *)
(*                                                                         *)
(* Every loss, repetition, overtaking, late pump or failed device creation  *)
(* costs one of MaxFaults faults; while none is spent a pending datagram    *)
(* arrives before the clock moves and the pump is called when it asked to.  *)
(***************************************************************************)
EXTENDS KbmSender, SequencesExt

CONSTANTS
  Queues,        \* facility -> the transition queues a caller may submit
  MouseRates,    \* mouse_rate_hz of the server's INPUTCAPS
  MaxEdges,      \* bound: edges the user makes in the session
  MaxMotion,     \* bound: the mouse's motion accumulator
  MaxFaults      \* bound: faults of network, scheduler and backend

ASSUME KbmLinkAssumption ==
  /\ \A f \in Facilities :
       /\ IsFiniteSet(Codes[f])
       /\ Queues[f] \subseteq Seq([code : Codes[f], down : BOOLEAN])
  /\ MaxMotion \in Nat

VARIABLES
  fac,           \* the facility this behaviour is about
  snd,           \* the client's send state
  tx_seq,        \* header sequence of the client's next datagram
  net,           \* datagrams on their way to the server, in order
  st, down,      \* the server's apad_kbm_state and what the backend holds down
  rx_kbm,        \* the newest header sequence accepted, or NoSeq
  phase,         \* "ACTIVE", then "CLOSED" once the client said BYE
  serving,       \* the server still has the session
  made,          \* history: every edge pushed into the ring, with its meaning
  done,          \* history: what became of each edge on the host
  mistyped,      \* history: a letter was pressed under the wrong modifiers
  faults

vars == <<fac, snd, tx_seq, net, st, down, rx_kbm, phase, serving,
          made, done, mistyped, faults>>

NoSeq == SeqModulus
Lost == [code |-> 0, down |-> FALSE, mods |-> {}]

-----------------------------------------------------------------------------
(* The client.                                                              *)

\* A caller's submissions: any queue, any snapshot, any motion.
Submissions(f) ==
  [queue : Queues[f], held : SUBSET Codes[f],
   accum : IF f = "MOUSE" THEN snd.accum .. Earliest(snd.accum + 1, MaxMotion) ELSE {0}]

\* What the user meant by an edge: with which modifiers down.  The queue is in
\* the caller's own order; a snapshot is meant as one chord.
Meaning(s, in) ==
  LET edges == Edges(fac, s, in)
  IN  [k \in DOMAIN edges |->
        [code |-> edges[k].code, down |-> edges[k].down,
         mods |-> Modifiers \cap
                    IF k <= Len(in.queue) THEN AfterEvents(s.held, SubSeq(in.queue, 1, k))
                                          ELSE in.held]]

Carries(s, type) == [type |-> type, seq |-> tx_seq, msg |-> Datagram(s), n |-> Len(made')]

SendIf(cond, s) ==
  /\ net' = IF cond THEN Append(net, Carries(s, "KBM")) ELSE net
  /\ tx_seq' = IF cond THEN SeqNext(tx_seq) ELSE tx_seq

\* kbm_pump with a submission: ingest, then whatever is due.
Submit ==
  /\ phase = "ACTIVE" /\ snd.serial
  /\ \E in \in Submissions(fac) :
       LET more == Meaning(snd, in)
           fed == Ingest(fac, snd, in)
       IN  /\ Len(made) + Len(more) <= MaxEdges
           /\ made' = made \o more
           /\ snd' = PumpKbm(fac, fed)
           /\ SendIf(SendDue(fac, fed), fed)
  /\ UNCHANGED <<fac, st, down, rx_kbm, phase, serving, done, mistyped, faults>>

\* kbm_pump with kbm = NULL: repeats and trailing copies are still owed.
PumpOwed ==
  /\ phase = "ACTIVE" /\ SendDue(fac, snd)
  /\ snd' = PumpKbm(fac, snd)
  /\ made' = made
  /\ SendIf(TRUE, snd)
  /\ UNCHANGED <<fac, st, down, rx_kbm, phase, serving, done, mistyped, faults>>

HearInputcaps ==
  /\ phase = "ACTIVE" /\ ~snd.serial
  /\ \E rate \in MouseRates : snd' = StoreCaps(snd, rate)
  /\ UNCHANGED <<fac, tx_seq, net, st, down, rx_kbm, phase, serving, made, done,
                 mistyped, faults>>

\* apad_client_disconnect: release what is held, then BYE.
Disconnect ==
  /\ phase = "ACTIVE"
  /\ LET let == SenderReleaseAll(snd)
         bye == [type |-> "BYE", seq |-> tx_seq, msg |-> Datagram(let), n |-> Len(made')]
     IN  /\ made' = made \o [k \in DOMAIN ReleaseEdges(snd) |->
                       [code |-> ReleaseEdges(snd)[k].code, down |-> FALSE, mods |-> {}]]
         /\ snd' = let
         /\ net' = net \o (IF ReleaseSends(snd) THEN <<Carries(let, "KBM")>> ELSE <<>>)
                       \o <<[bye EXCEPT !.seq = IF ReleaseSends(snd) THEN SeqNext(@) ELSE @]>>
         /\ tx_seq' = IF ReleaseSends(snd) THEN SeqNext(SeqNext(tx_seq)) ELSE SeqNext(tx_seq)
  /\ phase' = "CLOSED"
  /\ UNCHANGED <<fac, st, down, rx_kbm, serving, done, mistyped, faults>>

-----------------------------------------------------------------------------
(* The server.                                                              *)

\* The reconcile in the order of the report: modifier transitions first, then
\* the others, ascending within each group.
ReconcileEvents(m) ==
  LET changed == Changed(st, m, RingDepth[fac])
  IN  Transitions(changed \cap Modifiers, m.held) \o Transitions(changed \ Modifiers, m.held)

ReplayEvents(m) == Replay(st, m, RingDepth[fac])

\* What becomes of the edges up to this datagram's newest: the baseline takes
\* them as state, overflow reports the oldest as lost, the rest are replayed.
Account(d) ==
  IF ~st.baseline
    THEN [k \in 1 .. d.n |-> Lost]
    ELSE [k \in 1 .. LostEvents(st, d.msg, RingDepth[fac]) |-> Lost] \o ReplayEvents(d.msg)

\* A letter is typed wrong when the modifiers the host holds at its press are
\* not those it was meant with.  Replayed edges answer to the user's order as
\* long as none was lost; the reconcile answers to the snapshot.
Mistypes(d) ==
  LET replay == ReplayEvents(d.msg)
      batch  == replay \o ReconcileEvents(d.msg)
      mods(k) == AfterEvents(down, SubSeq(batch, 1, k)) \cap Modifiers
      letter(k) == /\ fac = "KEYBOARD" /\ batch[k].down
                   /\ batch[k].code \notin Modifiers
      first == d.n - Len(replay)
      insync == down = AfterEvents({}, SubSeq(made, 1, first)) /\ first = Len(done)
  IN  \E k \in DOMAIN batch :
        /\ letter(k)
        /\ \/ k <= Len(replay) /\ insync /\ mods(k) # made[first + k].mods
           \/ k > Len(replay) /\ mods(k) # d.msg.held \cap Modifiers

Fresh(d) == rx_kbm = NoSeq \/ SeqNewer(d.seq, rx_kbm)

\* A datagram of the facility: window, device, replay, reconcile.
HearKbm(d, fails) ==
  IF serving /\ Fresh(d)
    THEN /\ rx_kbm' = d.seq
         /\ IF fails /\ ~st.created
              THEN UNCHANGED <<st, down, done, mistyped>>
              ELSE /\ st' = Apply(fac, KbmNoteCreated(st), d.msg)
                   /\ down' = HostAfter(down, st, d.msg, RingDepth[fac])
                   /\ done' = done \o Account(d)
                   /\ mistyped' = (mistyped \/ Mistypes(d))
         /\ UNCHANGED serving
    ELSE UNCHANGED <<rx_kbm, st, down, done, mistyped, serving>>

\* BYE frees the session: everything held is lifted and the device destroyed.
HearBye ==
  /\ serving' = FALSE
  /\ st' = IF serving THEN ReleaseAll(st) ELSE st
  /\ down' = IF serving THEN HostReleased(down, st) ELSE down
  /\ UNCHANGED <<rx_kbm, done, mistyped>>

Hear(d, fails) ==
  IF d.type = "BYE" THEN HearBye ELSE HearKbm(d, fails)

\* The next datagram arrives; a fault repeats it.
Deliver ==
  /\ net # <<>> /\ Hear(Head(net), FALSE)
  /\ \/ net' = Tail(net) /\ UNCHANGED faults
     \/ faults < MaxFaults /\ faults' = faults + 1 /\ UNCHANGED net
  /\ UNCHANGED <<fac, snd, tx_seq, phase, made>>

\* A later datagram arrives before the ones in front of it.
Overtake ==
  /\ faults < MaxFaults /\ faults' = faults + 1
  /\ \E k \in DOMAIN net \ {1} : Hear(net[k], FALSE) /\ net' = RemoveAt(net, k)
  /\ UNCHANGED <<fac, snd, tx_seq, phase, made>>

Lose ==
  /\ faults < MaxFaults /\ faults' = faults + 1
  /\ net # <<>> /\ net' = Tail(net)
  /\ UNCHANGED <<fac, snd, tx_seq, st, down, rx_kbm, phase, serving, made, done, mistyped>>

\* create_kbm fails: the datagram is spent, nothing is applied.
CreateFails ==
  /\ faults < MaxFaults /\ faults' = faults + 1
  /\ net # <<>> /\ Head(net).type = "KBM" /\ ~st.created /\ serving
  /\ HearKbm(Head(net), TRUE) /\ net' = Tail(net)
  /\ UNCHANGED <<fac, snd, tx_seq, phase, made>>

HostWatchdog ==
  /\ serving /\ WatchdogFires(st)
  /\ st' = WatchdogTick(st)
  /\ down' = HostReleased(down, st)
  /\ st' # st
  /\ UNCHANGED <<fac, snd, tx_seq, net, rx_kbm, phase, serving, made, done, mistyped, faults>>

-----------------------------------------------------------------------------

Late == net # <<>> \/ (phase = "ACTIVE" /\ PumpOverdue(fac, snd))

KbmElapse ==
  /\ IF Late THEN faults < MaxFaults /\ faults' = faults + 1 ELSE UNCHANGED faults
  /\ snd' = SenderAge(snd)
  /\ st' = KbmAge(st)
  /\ UNCHANGED <<fac, tx_seq, net, down, rx_kbm, phase, serving, made, done, mistyped>>

KbmLinkInit ==
  /\ fac \in Facilities
  /\ snd = SenderReset(fac)
  /\ tx_seq = 0 /\ net = <<>>
  /\ st = KbmInit /\ down = {} /\ rx_kbm = NoSeq
  /\ phase = "ACTIVE" /\ serving = TRUE
  /\ made = <<>> /\ done = <<>> /\ mistyped = FALSE /\ faults = 0

KbmLinkNext ==
  \/ Submit \/ PumpOwed \/ HearInputcaps \/ Disconnect
  \/ Deliver \/ Overtake \/ Lose \/ CreateFails \/ HostWatchdog
  \/ KbmElapse

KbmLinkSpec == KbmLinkInit /\ [][KbmLinkNext]_vars

-----------------------------------------------------------------------------

KbmLinkType ==
  /\ fac \in Facilities
  /\ snd \in SenderType(fac)
  /\ st \in KbmType
  /\ down \subseteq Codes[fac]
  /\ tx_seq \in Seqs /\ rx_kbm \in Seqs \cup {NoSeq}

\* Section 6.20: the host is told of every edge the user made after its
\* baseline exactly once and in order, or it is told how many it missed;
\* whatever is lost, repeated, overtaken or refused by the backend on the way.
EdgesExactlyOnce ==
  /\ Len(done) <= Len(made)
  /\ st.baseline => st.applied = Len(done) % SeqModulus
  /\ \A k \in DOMAIN done :
       done[k] # Lost => /\ done[k].code = made[k].code
                         /\ done[k].down = made[k].down

\* A letter is typed with the modifiers it was meant with, also when Shift and
\* the letter travel in one snapshot, and also after a gap.
TypedAsMeant == ~mistyped

EdgesAsMeant == EdgesExactlyOnce /\ TypedAsMeant

\* The client owes nothing and nothing is on its way.
Quiet ==
  /\ phase = "ACTIVE" /\ net = <<>> /\ MayPump(snd)
  /\ ~snd.dirty /\ snd.held = {} /\ snd.trail = 0

\* The trailing copies carry a release and a tap that lives only in the ring
\* across as many lost datagrams as there are copies.
EdgesArrive ==
  Quiet /\ faults <= TrailCopies =>
    /\ Len(done) = Len(made)
    /\ down = {}

\* Section 6.20: what the user holds and the host holds down is repeated at
\* better than the floor, whatever rate the server asked the pointer for.
HeldRepeats ==
  phase = "ACTIVE" /\ faults = 0 /\ down \cap snd.held # {} => st.age <= KbmRepeat

\* The watchdog, which frees the keys of a client that died, never lets go of
\* a key still under the user's finger while fewer datagrams than it waits for
\* are lost or late.
NoReleaseUnderFinger ==
  [][ HostWatchdog =>
        \/ phase = "CLOSED" \/ down \cap snd.held = {}
        \/ faults >= (KbmWatchdog \div KbmRepeat) - 1 ]_vars

\* The release datagram and the BYE each suffice: one of them may be lost
\* and still nothing stays down on the host without waiting for the watchdog,
\* unless the last change was still waiting for its slot.
EitherGoodbyeReleases ==
  phase = "CLOSED" /\ net = <<>> /\ faults <= 1 /\ ~snd.dirty => down = {}

\* What is lost on the way, the copies that follow make up for.
LossesAreCovered == EdgesArrive /\ EitherGoodbyeReleases
=============================================================================
