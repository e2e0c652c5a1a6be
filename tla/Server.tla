------------------------------- MODULE Server -------------------------------
(***************************************************************************)
(* server/src/server.c: the sans-I/O server library.  A host calls it with  *)
(* every datagram it receives (apad_server_on_datagram), polls it           *)
(* (apad_server_tick), and opens and cancels pairing windows; it never      *)
(* calls anything concurrently, so each call is one atomic action.  Elapse  *)
(* is the passage of one unit of time between two calls: the host may poll  *)
(* late, and datagrams may arrive between a deadline and the next tick.     *)
(*                                                                         *)
(* Any datagram may arrive at any time from any peer: a network that loses, *)
(* repeats and reorders what honest clients send can produce no other.      *)
(*                                                                         *)
(* Left out because no decision depends on them: the names, counters, RTT   *)
(* and battery figures kept for the UI, the profile a session is matched    *)
(* with, and the text of the ERRORs.  Whether an ERROR is swallowed by the  *)
(* rate limiter or the reply filter is a choice out of ErrorsPass.          *)
(***************************************************************************)
EXTENDS FiniteSets, Session, Pairing, Kbm, Delivery

CONSTANTS
  NSlots,          \* APAD_MAX_SESSIONS
  Peers, NoPeer,   \* transport addresses a datagram may come from
  Nonces, NoNonce, \* what cfg.on_random yields for server_nonce
  ForgedKeys,      \* stand for the keys that are not any live session's
  NoWelcome,       \* retx_len = 0
  MaxGeneration,   \* bound on pairing.generation, for the state space only
  KbmFeatures,     \* kbm_features: the facilities the backend advertises
  TouchProfile,    \* whether profiles map the touchscreen (send_touchmap)
  PingPeriod,      \* 1000u in apad_server_tick
  RandomFails,     \* whether cfg.on_random may fail
  DevicesFail,     \* whether the backend may refuse to create a device
  InboundTypes,    \* message types peers send in this instance
  HelloKinds,      \* "GOOD"; "VERSION", another proto_major; "RATE", too high
  ErrorsPass,      \* what the limiter and the reply filter may answer an ERROR
  AckedSeqs,       \* sequences ACKs acknowledge
  InputSeqs,       \* header sequences of INPUT_STATE and KBM datagrams
  KbmMsgs          \* facility -> payloads of KBM datagrams

VARIABLES
  sessions,   \* s->sessions
  pairing,    \* s->pairing
  backend,    \* what exists and is held down on the far side of s->backend
  sent        \* the datagrams the last call handed to cfg.on_send

vars == <<sessions, pairing, backend, sent>>

Slots == 0 .. NSlots - 1

Key(generation, nonce) == [generation |-> generation, nonce |-> nonce]

ASSUME ServerAssumption ==
  /\ NSlots \in Nat \ {0}
  /\ MaxGeneration \in Nat
  /\ PingPeriod \in Nat
  /\ NoPeer \notin Peers
  /\ NoNonce \notin Nonces
  /\ \A g \in 0 .. MaxGeneration, n \in Nonces : Key(g, n) \in Keys
  /\ ForgedKeys \cap (Keys \cup {NoKey}) = {}
  /\ KbmClasses = Facilities
  /\ KbmFeatures \subseteq Facilities
  /\ {RandomFails, DevicesFail, TouchProfile} \cup ErrorsPass \subseteq BOOLEAN
  /\ AckedSeqs \cup InputSeqs \subseteq Seqs
  /\ \A f \in Facilities : KbmMsgs[f] \subseteq KbmMsgType(f)

RandomOutcomes == IF RandomFails THEN BOOLEAN ELSE {TRUE}
CreateOutcomes == IF DevicesFail THEN BOOLEAN ELSE {TRUE}

-----------------------------------------------------------------------------
(* Datagrams.  Outbound ones carry their destination and the key their tag  *)
(* was made with.  A WELCOME is always the first datagram of its session,   *)
(* so its header sequence is 0 and an ACK of 0 is an ACK of the WELCOME.    *)

WelcomeSeq == 0

ErrorMsg(to, code) == [type |-> "ERROR", to |-> to, code |-> code]

AnnounceMsg(to) ==
  [type |-> "ANNOUNCE", to |-> to, pairing_required |-> PairingIsOpen(pairing),
   free |-> Cardinality({i \in Slots : ~sessions[i].in_use})]

WelcomeMsg(s, auth, nonce) ==
  [type |-> "WELCOME", to |-> s.peer, sid |-> s.core.session_id,
   tag |-> HeaderTag(s.core), auth |-> auth, nonce |-> nonce]

AckMsg(s, acked) ==
  [type |-> "ACK", to |-> s.peer, sid |-> s.core.session_id,
   tag |-> HeaderTag(s.core), acks |-> acked]

CapsMsg(s) ==
  [type |-> "INPUTCAPS", to |-> s.peer, sid |-> s.core.session_id,
   tag |-> HeaderTag(s.core), ready |-> {f \in Facilities : s.kbm[f].created}]

PlainMsg(s, type) ==
  [type |-> type, to |-> s.peer, sid |-> s.core.session_id, tag |-> HeaderTag(s.core)]

\* An ERROR goes out unless the limiter or the reply filter swallows it.
Refuse(to, code) ==
  \E passes \in ErrorsPass : sent' = {m \in {ErrorMsg(to, code)} : passes}

\* A tag either verifies against the session's key or does not: a forged
\* one stands for every key other than those of the live sessions.
Tags == {NoKey} \cup ForgedKeys \cup {sessions[i].core.key : i \in Slots}

Sids == 0 .. NSlots

PlainTypes == {"DISCOVER", "PING", "BYE", "OTHER"}

InboundDatagrams ==
  LET Some(types) == types \cap InboundTypes
  IN  UNION {
    [type : Some(PlainTypes), sid : Sids, tag : Tags],
    [type : Some({"HELLO"}), sid : Sids, tag : Tags, kind : HelloKinds],
    [type : Some({"ACK"}), sid : Sids, tag : Tags, acks : AckedSeqs],
    [type : Some({"PONG"}), sid : Sids, tag : Tags, answers : BOOLEAN],
    [type : Some({"INPUT_STATE"}), sid : Sids, tag : Tags, seq : InputSeqs],
    UNION {[type : Some({f}), sid : Sids, tag : Tags, seq : InputSeqs, msg : KbmMsgs[f]]
             : f \in Facilities}}

-----------------------------------------------------------------------------
(* The session table.                                                       *)

NeverUsedSlot ==
  [in_use |-> FALSE, pad_created |-> FALSE, peer |-> NoPeer, core |-> SessionInit(TRUE),
   welcome |-> NoWelcome, auth_required |-> FALSE, auth_verified |-> FALSE,
   auth_charged |-> FALSE, pair_generation |-> 0, have_last_input |-> FALSE,
   ping_age |-> 0, ping_pending |-> FALSE, touchmap |-> TouchInit,
   inputcaps |-> CapsInit, kbm |-> [f \in Facilities |-> KbmInit]]

\* Mutant: the INPUTCAPS bookkeeping outlives its session.
FreeSlotKeepsCaps(s) ==
  [s EXCEPT !.in_use = FALSE, !.pad_created = FALSE,
            !.kbm = [f \in Facilities |-> ReleaseAll(s.kbm[f])],
            !.core = SessionClose(@, "LOCAL"), !.welcome = NoWelcome,
            !.auth_required = FALSE, !.auth_verified = FALSE,
            !.auth_charged = FALSE, !.pair_generation = 0,
            !.touchmap = TouchInit,
            !.ping_age = 0, !.ping_pending = FALSE,
            !.have_last_input = FALSE, !.peer = NoPeer]

FreeSlot(s) ==
  [s EXCEPT !.in_use = FALSE, !.pad_created = FALSE,
            !.kbm = [f \in Facilities |-> ReleaseAll(s.kbm[f])],
            !.core = SessionClose(@, "LOCAL"), !.welcome = NoWelcome,
            !.auth_required = FALSE, !.auth_verified = FALSE,
            !.auth_charged = FALSE, !.pair_generation = 0,
            !.touchmap = TouchInit, !.inputcaps = CapsInit,
            !.ping_age = 0, !.ping_pending = FALSE,
            !.have_last_input = FALSE, !.peer = NoPeer]

\* handle_hello's claim of a free slot for a new occupant, up to the creation
\* of its pad.  What it does not reset, FreeSlot must have.
ClaimSlot(s, from) ==
  [s EXCEPT !.core = OnRecvHello(SessionInit(TRUE)), !.peer = from,
            !.in_use = TRUE, !.pad_created = FALSE, !.welcome = NoWelcome,
            !.ping_age = 0, !.ping_pending = FALSE,
            !.kbm = [f \in Facilities |-> KbmInit]]

NoDevices == [pad |-> FALSE, dev |-> {}, down |-> [f \in Facilities |-> {}]]

\* Mutant: devices destroyed with their keys still down.
BackendFreeHolding(b, s) ==
  [b EXCEPT !.pad = @ /\ ~s.pad_created, !.dev = @ \ {f \in Facilities : s.kbm[f].created}]

\* The host's side of free_session: keys released, then devices destroyed.
BackendFree(b, s) ==
  LET created == {f \in Facilities : s.kbm[f].created}
  IN  [pad |-> b.pad /\ ~s.pad_created,
       dev |-> b.dev \ created,
       down |-> [f \in Facilities |->
                   IF f \in created THEN HostReleased(b.down[f], s.kbm[f])
                                    ELSE b.down[f]]]

Unproven(s) == s.in_use /\ s.auth_required /\ ~s.auth_verified

DropUnproven(table) ==
  [i \in Slots |-> IF Unproven(table[i]) THEN FreeSlot(table[i]) ELSE table[i]]

BackendDropUnproven(table) ==
  [i \in Slots |-> IF Unproven(table[i]) THEN BackendFree(backend[i], table[i])
                                         ELSE backend[i]]

FreeSlots == {i \in Slots : ~sessions[i].in_use}
HasSession(from) == \E i \in Slots : sessions[i].in_use /\ sessions[i].peer = from

Known(i, d) ==
  d.sid # 0 /\ sessions[i].in_use /\ sessions[i].core.session_id = d.sid

Unknown(d) == \A i \in Slots : ~Known(i, d)

-----------------------------------------------------------------------------
(* check_auth, in front of every handler.                                   *)

Tagged(d) == d.tag # NoKey

\* There is a key to verify against and the tag was made with another one.
BadTag(i, from, d) ==
  /\ Known(i, d) /\ Tagged(d) /\ sessions[i].peer = from
  /\ sessions[i].core.key # NoKey
  /\ sessions[i].core.key # d.tag

GoodTag(i, from, d) ==
  /\ Known(i, d) /\ Tagged(d) /\ sessions[i].peer = from
  /\ sessions[i].core.key = d.tag

\* Mutant: tags are verified when present but never demanded.
NoTagDemanded(i, from, d) == ~Tagged(d)

\* Untagged datagrams are for sessions that need no tag, but for the ACK that
\* discharges WELCOME: its sender cannot hold the key yet.
NoTagNeeded(i, from, d) ==
  /\ ~Tagged(d)
  /\ (Known(i, d) /\ sessions[i].auth_required /\ sessions[i].peer = from)
        => (d.type = "ACK" /\ ~sessions[i].auth_verified)

CheckAuth(from, d) ==
  \/ \E i \in Slots : GoodTag(i, from, d)
  \/ \A i \in Slots : NoTagNeeded(i, from, d)

\* The first tag that verifies proves the secret and arms INPUTCAPS.
Verified(s) ==
  [s EXCEPT !.auth_verified = TRUE,
            !.inputcaps = IF ~s.auth_verified /\ KbmFeatures # {}
                            THEN CapsArm(@) ELSE @]

Checked(from, d) ==
  [i \in Slots |-> IF GoodTag(i, from, d) THEN Verified(sessions[i]) ELSE sessions[i]]

\* Mutant: a wrong tag is charged datagram by datagram, the session lives on.
AuthFailedPerDatagram(from, d) ==
  \E i \in Slots :
    /\ BadTag(i, from, d)
    /\ \E ok \in RandomOutcomes :
         pairing' = PairingFail(pairing, sessions[i].pair_generation, ok)
    /\ pairing'.generation <= MaxGeneration
    /\ Refuse(from, "AUTH_FAILED")
    /\ UNCHANGED <<sessions, backend>>

\* A wrong tag costs the session its life and the secret at most one attempt.
AuthFailed(from, d) ==
  \E i \in Slots :
    LET s == sessions[i]
        charge == s.auth_required /\ ~s.auth_charged
    IN  /\ BadTag(i, from, d)
        /\ sessions' = [sessions EXCEPT ![i] = FreeSlot(s)]
        /\ backend' = [backend EXCEPT ![i] = BackendFree(@, s)]
        /\ \E ok \in RandomOutcomes :
             pairing' = IF charge THEN PairingFail(pairing, s.pair_generation, ok)
                                  ELSE pairing
        /\ pairing'.generation <= MaxGeneration
        /\ Refuse(from, "AUTH_FAILED")

AuthDropped(from, d) ==
  /\ ~CheckAuth(from, d)
  /\ \A i \in Slots : ~BadTag(i, from, d)
  /\ sent' = {}
  /\ UNCHANGED <<sessions, pairing, backend>>

-----------------------------------------------------------------------------
(* Handlers of messages that precede a session.                             *)

HandleDiscover(from, d) ==
  /\ d.type = "DISCOVER" /\ d.sid = 0
  /\ \E passes \in ErrorsPass :
       sent' = {m \in {AnnounceMsg(from)} : passes}
  /\ UNCHANGED <<sessions, pairing, backend>>

\* A HELLO of another protocol version, whatever else is wrong with it.
HelloRejected(from, d) ==
  /\ d.type = "HELLO" /\ d.kind = "VERSION"
  /\ Refuse(from, "VERSION_MISMATCH")
  /\ sessions' = Checked(from, d)
  /\ UNCHANGED <<pairing, backend>>

\* DISCOVER and HELLO carry session id 0; with another one they start nothing.
HandshakeWithSid(from, d) ==
  /\ \/ d.type = "DISCOVER"
     \/ d.type = "HELLO" /\ d.kind # "VERSION"
  /\ d.sid # 0
  /\ IF Unknown(d) THEN Refuse(from, "UNKNOWN_SESSION") ELSE sent' = {}
  /\ sessions' = Checked(from, d)
  /\ UNCHANGED <<pairing, backend>>

ReadableHello(from, d) ==
  /\ d.type = "HELLO" /\ d.kind # "VERSION"
  /\ d.sid = 0

\* Mutant: a duplicate HELLO is accepted all over again.
HelloDuplicateReaccepts(from, d) ==
  /\ ReadableHello(from, d)
  /\ \E i \in Slots :
       /\ sessions[i].in_use /\ sessions[i].peer = from
       /\ sessions' = [sessions EXCEPT ![i].core =
                         SessionOnSent(SessionServerAccept(@, i + 1), "WELCOME", WelcomeSeq)]
       /\ sent' = {sessions[i].welcome}
  /\ UNCHANGED <<pairing, backend>>

\* Mutant: a duplicate HELLO is answered with a WELCOME built anew.
HelloDuplicateRebuilds(from, d) ==
  /\ ReadableHello(from, d)
  /\ \E i \in Slots :
       /\ sessions[i].in_use /\ sessions[i].peer = from
       /\ sessions' = [sessions EXCEPT ![i].core = SessionHeard(@)]
       /\ sent' = {WelcomeMsg(sessions[i], sessions[i].auth_required, NoNonce)}
  /\ UNCHANGED <<pairing, backend>>

\* A HELLO for a live session: the original WELCOME again, and liveness, and
\* nothing else.  (A slot in use is always ACTIVE with its WELCOME cached.)
HelloDuplicate(from, d) ==
  /\ ReadableHello(from, d)
  /\ \E i \in Slots :
       /\ sessions[i].in_use /\ sessions[i].peer = from
       /\ sessions' = [sessions EXCEPT ![i].core = SessionHeard(@)]
       /\ sent' = {sessions[i].welcome}
  /\ UNCHANGED <<pairing, backend>>

HelloNoSlot(from, d) ==
  /\ ReadableHello(from, d)
  /\ ~HasSession(from) /\ FreeSlots = {}
  /\ Refuse(from, "NO_FREE_SLOT")
  /\ UNCHANGED <<sessions, pairing, backend>>

\* The lowest free slot goes to a peer that has none.
Allots(i, from, d) ==
  /\ ReadableHello(from, d)
  /\ ~HasSession(from)
  /\ i \in FreeSlots /\ \A j \in FreeSlots : i <= j

HelloPadFails(from, d) ==
  /\ DevicesFail
  /\ \E i \in Slots :
       /\ Allots(i, from, d)
       /\ sessions' = [sessions EXCEPT ![i] = FreeSlot(ClaimSlot(@, from))]
       /\ backend' = [backend EXCEPT ![i] = BackendFree(@, ClaimSlot(sessions[i], from))]
  /\ Refuse(from, "NO_FREE_SLOT")
  /\ UNCHANGED pairing

\* The slot once its pad exists.
WithPad(s, from) == [ClaimSlot(s, from) EXCEPT !.pad_created = TRUE]
BackendWithPad(b) == [b EXCEPT !.pad = TRUE]

\* Mutant: the refused session keeps its slot.
HelloRateRefusedKeeps(from, d) ==
  /\ d.type = "HELLO" /\ d.kind = "RATE"
  /\ \E i \in Slots :
       /\ Allots(i, from, d)
       /\ sessions' = [sessions EXCEPT ![i] = WithPad(@, from)]
       /\ backend' = [backend EXCEPT ![i] = BackendWithPad(@)]
  /\ Refuse(from, "MALFORMED")
  /\ UNCHANGED pairing

\* server_accept refuses the rate after the pad was created: both go again.
HelloRateRefused(from, d) ==
  /\ d.type = "HELLO" /\ d.kind = "RATE"
  /\ \E i \in Slots :
       /\ Allots(i, from, d)
       /\ sessions' = [sessions EXCEPT ![i] = FreeSlot(WithPad(@, from))]
       /\ backend' = [backend EXCEPT ![i] =
                        BackendFree(BackendWithPad(@), WithPad(sessions[i], from))]
  /\ Refuse(from, "MALFORMED")
  /\ UNCHANGED pairing

\* apad_session_server_accept, then WELCOME through send_via_session.
Accepted(s, i, from) ==
  [WithPad(s, from) EXCEPT !.core = SessionServerAccept(@, i + 1)]

Welcomed(s, auth, nonce) ==
  [s EXCEPT !.welcome = WelcomeMsg(s, auth, nonce),
            !.core = SessionOnSent(@, "WELCOME", WelcomeSeq)]

\* No window: a plain session.
HelloPlain(from, d) ==
  /\ d.type = "HELLO" /\ d.kind = "GOOD"
  /\ ~PairingIsOpen(pairing)
  /\ \E i \in Slots :
       LET s == Welcomed(Accepted(sessions[i], i, from), FALSE, NoNonce)
       IN  /\ Allots(i, from, d)
           /\ sessions' = [sessions EXCEPT ![i] = s]
           /\ backend' = [backend EXCEPT ![i] = BackendWithPad(@)]
           /\ sent' = {s.welcome}
  /\ UNCHANGED pairing

\* A window: the WELCOME carries a nonce no live session was salted with, and
\* the key derived from it is installed only once the WELCOME has gone.
Keyed(s, generation, nonce) ==
  [s EXCEPT !.core = SessionSetKey(@, Key(generation, nonce)),
            !.auth_required = TRUE, !.auth_verified = FALSE, !.auth_charged = FALSE,
            !.pair_generation = generation]

NonceInUse(nonce) ==
  \E i \in Slots : sessions[i].in_use /\ sessions[i].auth_required
                   /\ sessions[i].welcome.nonce = nonce

HelloPairing(from, d) ==
  /\ d.type = "HELLO" /\ d.kind = "GOOD"
  /\ PairingIsOpen(pairing)
  /\ \E i \in Slots, nonce \in Nonces :
       LET s == Welcomed(Accepted(sessions[i], i, from), TRUE, nonce)
       IN  /\ Allots(i, from, d)
           /\ ~NonceInUse(nonce)
           /\ sessions' = [sessions EXCEPT ![i] = Keyed(s, pairing.generation, nonce)]
           /\ backend' = [backend EXCEPT ![i] = BackendWithPad(@)]
           /\ sent' = {s.welcome}
  /\ UNCHANGED pairing

\* A window, but no entropy for the nonce: the window closes with the session.
HelloNoEntropy(from, d) ==
  /\ RandomFails
  /\ d.type = "HELLO" /\ d.kind = "GOOD"
  /\ PairingIsOpen(pairing)
  /\ \E i \in Slots :
       /\ Allots(i, from, d)
       /\ sessions' = [sessions EXCEPT ![i] = FreeSlot(Accepted(@, i, from))]
       /\ backend' = [backend EXCEPT ![i] =
                        BackendFree(BackendWithPad(@), Accepted(sessions[i], i, from))]
  /\ pairing' = PairingClose(pairing)
  /\ Refuse(from, "PAIRING_CLOSED")

-----------------------------------------------------------------------------
(* Handlers of messages inside a session.                                   *)

SilentTypes == {"INPUT_STATE"} \cup Facilities
SessionTypes == SilentTypes \cup {"PING", "PONG", "BYE", "ACK", "OTHER"}

\* Mutant: a session id alone admits a datagram.
ReachesById(i, from, d) == Known(i, d)

\* Only a known session id, from that session's own peer, reaches a handler.
Reaches(i, from, d) ==
  Known(i, d) /\ sessions[i].peer = from

UnknownSession(from, d) ==
  /\ d.type \in SessionTypes /\ Unknown(d)
  /\ IF d.sid = 0 \/ d.type \in SilentTypes THEN sent' = {}
                                            ELSE Refuse(from, "UNKNOWN_SESSION")
  /\ UNCHANGED <<sessions, pairing, backend>>

NotFromPeer(from, d) ==
  /\ d.type \in SessionTypes
  /\ \E i \in Slots : Known(i, d) /\ sessions[i].peer # from
  /\ sent' = {}
  /\ UNCHANGED <<sessions, pairing, backend>>

\* A stale INPUT_STATE keeps the session alive and changes nothing else.
HandleInputState(from, d) ==
  /\ d.type = "INPUT_STATE"
  /\ \E i \in Slots :
       LET s == Checked(from, d)[i]
       IN  /\ Reaches(i, from, d)
           /\ sessions' = [Checked(from, d) EXCEPT ![i] =
                [s EXCEPT !.core = OnRecvInput(@, d.seq),
                          !.have_last_input = @ \/ AcceptsInput(s.core, d.seq)]]
  /\ sent' = {}
  /\ UNCHANGED <<pairing, backend>>

\* KEYBOARD, MOUSE and MEDIA differ in their tables only.  The device is made
\* by the first accepted datagram; if that fails, the datagram is lost.
HandleKbm(from, d) ==
  /\ d.type \in Facilities
  /\ \E i \in Slots, created \in CreateOutcomes :
       LET f == d.type
           s == Checked(from, d)[i]
           heard == [s EXCEPT !.core = OnRecvKbm(@, f, d.seq)]
           fresh == AcceptsKbm(s.core, f, d.seq) /\ f \in KbmFeatures
           had == s.kbm[f].created
           st == KbmNoteCreated(s.kbm[f])
       IN  /\ Reaches(i, from, d)
           /\ ~created => (fresh /\ ~had)
           /\ IF fresh /\ (had \/ created)
                THEN /\ sessions' = [Checked(from, d) EXCEPT ![i] =
                          [heard EXCEPT !.kbm[f] = Apply(f, st, d.msg),
                                        !.inputcaps = IF had THEN @ ELSE CapsRearm(@)]]
                     /\ backend' = [backend EXCEPT
                          ![i].dev = @ \cup {f},
                          ![i].down[f] = HostAfter(@, st, d.msg, RingDepth[f])]
                ELSE /\ sessions' = [Checked(from, d) EXCEPT ![i] = heard]
                     /\ UNCHANGED backend
  /\ sent' = {}
  /\ UNCHANGED pairing

HandlePing(from, d) ==
  /\ d.type = "PING"
  /\ \E i \in Slots :
       LET s == Checked(from, d)[i]
       IN  /\ Reaches(i, from, d)
           /\ sessions' = [Checked(from, d) EXCEPT ![i] =
                             [s EXCEPT !.core = SessionHeard(@)]]
           /\ sent' = {PlainMsg(s, "PONG")}
  /\ UNCHANGED <<pairing, backend>>

\* Only an echo of the outstanding PING's origin is a measurement.
HandlePong(from, d) ==
  /\ d.type = "PONG"
  /\ \E i \in Slots :
       LET s == Checked(from, d)[i]
       IN  /\ Reaches(i, from, d)
           /\ sessions' = [Checked(from, d) EXCEPT ![i] =
                             [s EXCEPT !.core = SessionHeard(@),
                                       !.ping_pending = @ /\ ~d.answers]]
  /\ sent' = {}
  /\ UNCHANGED <<pairing, backend>>

\* Mutant: the ACK is built after the slot was freed.
HandleByeFreesFirst(from, d) ==
  /\ d.type = "BYE"
  /\ \E i \in Slots :
       LET s == Checked(from, d)[i]
       IN  /\ Reaches(i, from, d)
           /\ sessions' = [Checked(from, d) EXCEPT ![i] = FreeSlot(s)]
           /\ backend' = [backend EXCEPT ![i] = BackendFree(@, s)]
           /\ sent' = {AckMsg(FreeSlot(s), "BYE")}
  /\ UNCHANGED pairing

\* ACKed once, while there is still a session to ACK it in.
HandleBye(from, d) ==
  /\ d.type = "BYE"
  /\ \E i \in Slots :
       LET s == Checked(from, d)[i]
       IN  /\ Reaches(i, from, d)
           /\ sessions' = [Checked(from, d) EXCEPT ![i] =
                             FreeSlot([s EXCEPT !.core = OnRecvBye(@)])]
           /\ backend' = [backend EXCEPT ![i] = BackendFree(@, s)]
           /\ sent' = {AckMsg(s, "BYE")}
  /\ UNCHANGED pairing

\* An ACK marks the touch layout for delivery, and INPUTCAPS too when no key
\* will ever be needed to read it.
HandleAck(from, d) ==
  /\ d.type = "ACK"
  /\ \E i \in Slots :
       LET s == Checked(from, d)[i]
       IN  /\ Reaches(i, from, d)
           /\ sessions' = [Checked(from, d) EXCEPT ![i] =
                [s EXCEPT !.core = OnRecvAck(@, d.acks),
                          !.touchmap.dirty = TRUE,
                          !.inputcaps = IF ~s.auth_required /\ KbmFeatures # {}
                                          THEN CapsArm(@) ELSE @]]
  /\ sent' = {}
  /\ UNCHANGED <<pairing, backend>>

\* Server-to-client types sent the wrong way: a sign of life and no more.
HandleOther(from, d) ==
  /\ d.type = "OTHER"
  /\ \E i \in Slots :
       /\ Reaches(i, from, d)
       /\ sessions' = [Checked(from, d) EXCEPT ![i].core = SessionHeard(@)]
  /\ sent' = {}
  /\ UNCHANGED <<pairing, backend>>

\* What apad_packet_parse rejects never gets past the switch: silence, or an
\* ERROR for a version or a length.  (So every payload that does get past it
\* has its type's length, and no handler's decoder can fail.)
Unparsable(from) ==
  /\ \/ Refuse(from, "VERSION_MISMATCH")
     \/ Refuse(from, "MALFORMED")
  /\ UNCHANGED <<sessions, pairing, backend>>

\* apad_server_on_datagram: what apad_packet_parse accepted from one peer.
Dispatch(from, d) ==
  \/ HandleDiscover(from, d)
  \/ HelloRejected(from, d) \/ HandshakeWithSid(from, d) \/ HelloDuplicate(from, d)
  \/ HelloNoSlot(from, d) \/ HelloPadFails(from, d) \/ HelloRateRefused(from, d)
  \/ HelloPlain(from, d) \/ HelloPairing(from, d) \/ HelloNoEntropy(from, d)
  \/ UnknownSession(from, d) \/ NotFromPeer(from, d)
  \/ HandleInputState(from, d) \/ HandleKbm(from, d)
  \/ HandlePing(from, d) \/ HandlePong(from, d)
  \/ HandleBye(from, d) \/ HandleAck(from, d) \/ HandleOther(from, d)

OnDatagram(from, d) ==
  \/ CheckAuth(from, d) /\ Dispatch(from, d)
  \/ AuthFailed(from, d)
  \/ AuthDropped(from, d)

-----------------------------------------------------------------------------
(* apad_server_tick, in the order of its two loops.                          *)

\* First loop: TOUCHMAP and INPUTCAPS fall due, and the watchdog bites.
Delivered(s) ==
  IF s.in_use
    THEN [s EXCEPT !.touchmap = TouchTick(@), !.inputcaps = CapsTick(@),
                   !.kbm = [f \in Facilities |-> WatchdogTick(@[f])]]
    ELSE s

WatchdogReleases(b, s) ==
  [b EXCEPT !.down = [f \in Facilities |->
     IF s.in_use /\ WatchdogFires(s.kbm[f]) THEN HostReleased(@[f], s.kbm[f]) ELSE @[f]]]

\* Mutant: expiry closes the window and leaves its handshakes.
ExpiresAlone(s) == FALSE

\* Between the loops: a window past its deadline takes its handshakes along.
ExpiresWith(s) == PairingExpired(pairing) /\ Unproven(s)

\* Second loop: the session timers, and a PING once the WELCOME is discharged.
TimesOut(s) == s.in_use /\ TickAct(s.core) = "TIMEOUT"

PingDue(s) ==
  /\ s.in_use /\ s.core.state = "ACTIVE" /\ ~s.core.retx.armed
  /\ s.ping_age >= PingPeriod

Serviced(s) ==
  LET ticked == [s EXCEPT !.core = SessionTick(@)]
  IN  CASE ~s.in_use -> s
        [] TimesOut(s) -> FreeSlot(ticked)
        [] OTHER -> IF PingDue(ticked)
                      THEN [ticked EXCEPT !.ping_age = 0, !.ping_pending = TRUE]
                      ELSE ticked

Ticked(s) ==
  LET d == Delivered(s)
  IN  IF ExpiresWith(d) THEN FreeSlot(d) ELSE Serviced(d)

BackendTicked(b, s) ==
  LET released == WatchdogReleases(b, s)
  IN  IF ExpiresWith(s) \/ TimesOut(s) THEN BackendFree(released, Delivered(s))
                                       ELSE released

TickSends(s) ==
  LET d == Delivered(s)
      lives == s.in_use /\ ~ExpiresWith(s)
  IN  {m \in {PlainMsg(s, "TOUCHMAP")} : s.in_use /\ TouchSends(s.touchmap) /\ TouchProfile}
      \cup {m \in {CapsMsg(s)} : s.in_use /\ CapsSends(s.inputcaps)}
      \cup {m \in {s.welcome} : lives /\ TickAct(s.core) = "RETRANSMIT"}
      \cup {m \in {PlainMsg(s, "PING")} : lives /\ ~TimesOut(s) /\ PingDue(d)}

Tick ==
  /\ sessions' = [i \in Slots |-> Ticked(sessions[i])]
  /\ backend' = [i \in Slots |-> BackendTicked(backend[i], sessions[i])]
  /\ pairing' = PairingTick(pairing)
  /\ sent' = UNION {TickSends(sessions[i]) : i \in Slots}

-----------------------------------------------------------------------------
(* Calls the host makes on behalf of its user.                               *)

\* Replacing a window takes its unproven handshakes with it, before the draw.
BeginPairing ==
  /\ pairing.generation < MaxGeneration
  /\ \E ok \in RandomOutcomes : pairing' = PairingOpen(pairing, ok)
  /\ sessions' = IF pairing.open THEN DropUnproven(sessions) ELSE sessions
  /\ backend' = IF pairing.open THEN BackendDropUnproven(sessions) ELSE backend
  /\ sent' = {}

\* Mutant: cancelling leaves the handshakes.
CancelPairingAlone ==
  /\ pairing.open
  /\ pairing' = PairingClose(pairing)
  /\ sent' = {}
  /\ UNCHANGED <<sessions, backend>>

CancelPairing ==
  /\ pairing.open
  /\ pairing' = PairingClose(pairing)
  /\ sessions' = DropUnproven(sessions)
  /\ backend' = BackendDropUnproven(sessions)
  /\ sent' = {}

\* apad_server_set_profile: the new touch layout has to be sent.
SetProfile(i) ==
  /\ sessions[i].in_use
  /\ sessions' = [sessions EXCEPT ![i].touchmap.dirty = TRUE]
  /\ sent' = {}
  /\ UNCHANGED <<pairing, backend>>

-----------------------------------------------------------------------------
(* One unit of time between two calls.                                       *)

Aged(s) ==
  IF s.in_use
    THEN [s EXCEPT !.core = SessionAge(@), !.ping_age = Saturate(@ + 1, PingPeriod),
                   !.touchmap = TouchAge(@), !.inputcaps = CapsAge(@),
                   !.kbm = [f \in Facilities |-> KbmAge(@[f])]]
    ELSE s

Elapse ==
  /\ sessions' = [i \in Slots |-> Aged(sessions[i])]
  /\ pairing' = PairingAge(pairing)
  /\ sent' = {}
  /\ UNCHANGED backend

-----------------------------------------------------------------------------

Init ==
  /\ sessions = [i \in Slots |-> NeverUsedSlot]
  /\ pairing = PairingInit
  /\ backend = [i \in Slots |-> NoDevices]
  /\ sent = {}

Receive == \E from \in Peers : Unparsable(from) \/ \E d \in InboundDatagrams : OnDatagram(from, d)

Next ==
  \/ Receive
  \/ Tick
  \/ Elapse
  \/ BeginPairing
  \/ CancelPairing
  \/ \E i \in Slots : SetProfile(i)

Spec == Init /\ [][Next]_vars

\* The host keeps polling and time keeps passing.  Nothing is assumed of the
\* network or of the user.
FairSpec == Spec /\ WF_vars(Tick) /\ WF_vars(Elapse)

-----------------------------------------------------------------------------
(* Properties.                                                               *)

WelcomeType ==
  [type : {"WELCOME"}, to : Peers, sid : 1 .. NSlots, tag : {NoKey},
   auth : BOOLEAN, nonce : Nonces \cup {NoNonce}]

\* A cleared retransmit buffer is no datagram.
ASSUME WelcomeAssumption == NoWelcome \notin WelcomeType

Welcomes == WelcomeType \cup {NoWelcome}
PeerOrNone == Peers \cup {NoPeer}
PingAges == 0 .. PingPeriod
KbmStates == [Facilities -> KbmType]

SlotType ==
  [in_use : BOOLEAN, pad_created : BOOLEAN, peer : PeerOrNone, core : SessionType,
   welcome : Welcomes, auth_required : BOOLEAN, auth_verified : BOOLEAN,
   auth_charged : BOOLEAN, pair_generation : Nat, have_last_input : BOOLEAN,
   ping_age : PingAges, ping_pending : BOOLEAN, touchmap : TouchType,
   inputcaps : CapsType, kbm : KbmStates]

BackendType ==
  [pad : BOOLEAN, dev : SUBSET Facilities, down : [Facilities -> Held]]

\* Every field of the table, the window and the host's devices keeps its range
\* (an attempt counter never reaches the maximum, no timer passes its limit),
\* and nothing is ever sent to the zeroed address of a freed slot.
TypeOK ==
  /\ sessions \in [Slots -> SlotType]
  /\ pairing \in PairingType
  /\ backend \in [Slots -> BackendType]
  /\ \A m \in sent : m.to \in Peers

\* What handle_hello's duplicate branch, and every scan by address or by id,
\* rely on between calls: a slot in use is ACTIVE under its own id, has its pad
\* and a WELCOME to repeat, is the only one of its peer, and retransmits
\* nothing but that WELCOME.
SlotsWellFormed ==
  \A i \in Slots : sessions[i].in_use =>
    LET s == sessions[i]
    IN  /\ s.core.state = "ACTIVE" /\ s.core.session_id = i + 1
        /\ s.pad_created /\ s.peer \in Peers
        /\ s.welcome # NoWelcome /\ s.welcome.to = s.peer /\ s.welcome.sid = i + 1
        /\ s.core.retx.armed => s.core.retx.type = "WELCOME" /\ s.core.retx.seq = WelcomeSeq
        /\ \A j \in Slots \ {i} : sessions[j].in_use => sessions[j].peer # s.peer

\* free_session and handle_hello's claim share the clearing of a slot between
\* them: whatever a slot went through, its next occupant starts exactly like
\* the first occupant of a slot never used.
NothingInherited ==
  \A i \in Slots, p \in Peers :
    ~sessions[i].in_use => ClaimSlot(sessions[i], p) = ClaimSlot(NeverUsedSlot, p)

\* What the host should have for a slot, going by the table.
DevicesOf(s) ==
  [pad |-> s.pad_created,
   dev |-> {f \in Facilities : s.kbm[f].created},
   down |-> [f \in Facilities |-> IF s.kbm[f].created THEN s.kbm[f].shadow ELSE {}]]

\* The host has exactly the devices the table believes it has, and holds down
\* exactly the keys the shadows say: no device outlives its session and no key
\* stays down that nobody will ever release (server.c's free_session, kbm.c).
DevicesMatch == backend = [i \in Slots |-> DevicesOf(sessions[i])]

\* Nothing injected, no device made, nothing offered, no window moved.
Untouched(s) ==
  /\ ~s.have_last_input
  /\ s.core.rx_input = NoSeq
  /\ \A f \in Facilities : ~s.kbm[f].created /\ s.core.rx_kbm[f] = NoSeq
  /\ ~s.inputcaps.can_arm

\* Section 10, check_auth: a session told AUTH_REQUIRED that has not shown a
\* verifying tag has injected nothing, created nothing and been offered nothing.
ProofGate == \A i \in Slots : Unproven(sessions[i]) => Untouched(sessions[i])

\* A session's key is the one its cached WELCOME's nonce salts, no two live
\* sessions share one, and a WELCOME on the wire is always the cached one of a
\* live session and never carries a tag.
KeysFollowWelcomes ==
  /\ \A i \in Slots : sessions[i].in_use =>
       LET s == sessions[i]
       IN  /\ s.welcome.auth = s.auth_required
           /\ s.core.key = IF s.auth_required THEN Key(s.pair_generation, s.welcome.nonce)
                                              ELSE NoKey
           /\ \A j \in Slots \ {i} :
                sessions[j].core.key = s.core.key => s.core.key = NoKey
  /\ \A m \in sent : m.type = "WELCOME" =>
       m.tag = NoKey /\ \E i \in Slots : sessions[i].in_use /\ sessions[i].welcome = m

\* Section 10: a secret is good while its window is open and never otherwise,
\* so a handshake that has not proved it does not outlive the window.
UnprovenHasWindow ==
  \A i \in Slots : Unproven(sessions[i]) =>
    pairing.open /\ sessions[i].pair_generation <= pairing.generation

\* One guess per session: an attempt is counted, or the secret rotated, only in
\* the step that tears down a session keyed from the current secret and not
\* charged before, and a rotation never moves the window's deadline.
GuessPaid ==
  (pairing'.attempts > pairing.attempts
     \/ (pairing'.generation > pairing.generation /\ ~BeginPairing))
  => /\ pairing'.remaining = pairing.remaining
     /\ pairing'.generation <= pairing.generation + 1
     /\ \E i \in Slots :
          /\ sessions[i].in_use /\ ~sessions'[i].in_use
          /\ sessions[i].auth_required /\ ~sessions[i].auth_charged
          /\ sessions[i].pair_generation = pairing.generation

\* No guess at the secret is free (auth_charge, pairing.c).
GuessesArePaid == [][GuessPaid]_vars

\* Only the host lengthens a window, and no handshake begun with an older
\* window's secret is still waiting when it does.
DeadlineMovedByHost ==
  pairing'.remaining > pairing.remaining
    => BeginPairing /\ \A i \in Slots : ~Unproven(sessions'[i])

\* No datagram and no tick gives a secret more time (section 10).
DeadlineIsTheHosts == [][DeadlineMovedByHost]_vars

\* While a session lives, its identity does not change: the same peer, id, key,
\* generation and WELCOME, a proof is never unlearnt, and a WELCOME once
\* discharged is never armed again (a duplicate HELLO re-answers, no more).
IdentityKept ==
  \A i \in Slots : sessions[i].in_use /\ sessions'[i].in_use =>
    LET s == sessions[i]
        t == sessions'[i]
    IN  /\ t.peer = s.peer /\ t.welcome = s.welcome
        /\ t.core.session_id = s.core.session_id /\ t.core.key = s.core.key
        /\ t.auth_required = s.auth_required
        /\ t.pair_generation = s.pair_generation
        /\ s.auth_verified => t.auth_verified
        /\ t.core.retx.armed => s.core.retx.armed

\* No call replaces a session by another in one step.
IdentityIsFixed == [][IdentityKept]_vars

\* A window that moves, moves forward in serial-number order, and one that holds
\* a sequence never becomes empty again.
Advances(old, new) ==
  new # old => new # NoSeq /\ (old = NoSeq \/ SeqNewer(new, old))

\* Sections 6.20 and 9: while a session lives a receive window only moves
\* forward, and it never reopens, so nothing stale is let back in.
WindowsAdvance ==
  \A i \in Slots : sessions[i].in_use /\ sessions'[i].in_use =>
    LET s == sessions[i].core
        t == sessions'[i].core
    IN  /\ Advances(s.rx_input, t.rx_input)
        /\ \A f \in Facilities : Advances(s.rx_kbm[f], t.rx_kbm[f])

\* No step of any kind moves a receive window back.
WindowsOnlyAdvance == [][WindowsAdvance]_vars

\* Whatever one peer sends, forged ids and tags included, no other peer's
\* session and none of its devices changes.
OthersUntouched ==
  \A i \in Slots, p \in Peers :
    /\ sessions[i].in_use /\ sessions[i].peer # p
    /\ <<sessions'[i], backend'[i]>> # <<sessions[i], backend[i]>>
    => ~\E d \in InboundDatagrams : OnDatagram(p, d)

\* No datagram reaches another peer's session.
PeersAreIsolated == [][OthersUntouched]_vars

-----------------------------------------------------------------------------
(* Liveness, under FairSpec.                                                 *)

\* A session does not stay both silent and open: it is heard from or it ends.
SilentSessionEnds ==
  \A i \in Slots :
    (sessions[i].in_use /\ sessions[i].core.idle > 0)
      ~> (~sessions[i].in_use \/ sessions[i].core.idle = 0)

\* A WELCOME is acknowledged or its session fails, whatever else is received.
WelcomeSettles ==
  \A i \in Slots : sessions[i].core.retx.armed ~> ~sessions[i].core.retx.armed

\* Every handshake is settled: it proves the secret or it is torn down.
HandshakeSettles ==
  \A i \in Slots : Unproven(sessions[i]) ~> ~Unproven(sessions[i])

\* Every key held down on the host is let go or held on by a fresh datagram.
HeldKeysLetGo ==
  \A i \in Slots, f \in Facilities :
    (backend[i].down[f] # {} /\ sessions[i].kbm[f].age > 0)
      ~> (backend[i].down[f] = {} \/ sessions[i].kbm[f].age = 0)

\* Nothing that waits for the other side waits for ever: not a silent session,
\* not a WELCOME, not a handshake, and not a key the host holds down.
NothingLingers == SilentSessionEnds /\ WelcomeSettles /\ HandshakeSettles /\ HeldKeysLetGo

Sends(type, i) == \E m \in sent : m.type = type /\ m.sid = i + 1

\* Section 6.19: once a session may be told what the server can inject, it is
\* told, and told again for as long as it is open, although no copy is ever
\* acknowledged and any may be lost; unless each burst is marked anew before
\* its first copy goes, as ACKs without end would.
OffersKeepComing ==
  \A i \in Slots :
    <>[](~sessions[i].inputcaps.dirty)
      => ((sessions[i].in_use /\ sessions[i].inputcaps.can_arm)
            ~> (~sessions[i].in_use \/ Sends("INPUTCAPS", i)))

\* Section 6.12: a layout marked for delivery by the WELCOME's ACK or by a
\* change of profile goes out, or its session ends.
LayoutsGoOut ==
  \A i \in Slots :
    <>[](~sessions[i].touchmap.dirty)
      => (sessions[i].touchmap.dirty ~> (~sessions[i].in_use \/ Sends("TOUCHMAP", i)))

\* What the server says unasked and never hears acknowledged reaches the
\* network: the offer of its facilities and the layout of the touch screen.
TellsItsClients == OffersKeepComing /\ LayoutsGoOut
=============================================================================
