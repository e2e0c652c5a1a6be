-------------------------- MODULE ServerSafetyProofs --------------------------
(***************************************************************************)
(* The rest of the server's safety: what a slot's next occupant inherits,   *)
(* keys and nonces, the identity and the receive windows of a live session, *)
(* the pairing window, and the isolation of the peers from one another; for *)
(* every number of slots, peers and nonces.                                 *)
(*                                                                         *)
(* IInv speaks of one slot at a time.  What is stated here relates slots to *)
(* one another, to the pairing window and to the datagrams on the wire, and *)
(* needs SInv: IInv, the order of the whole table (Registry) and the cached *)
(* WELCOMEs.  The first part says what one call of the library may do to    *)
(* the table: each slot is left alone, lives on with its identity, or falls *)
(* vacant (Settles), or exactly one vacant slot opens and the others are    *)
(* left alone (Opens).  The theorems of the second are all read off that    *)
(* one relation, AnyStep.                                                   *)
(***************************************************************************)
EXTENDS ServerProofs

-----------------------------------------------------------------------------
(* What a call does to the table                                           *)

\* What a live session keeps of its record, and how its windows move.
CoreLives(x, y) ==
  /\ y.session_id = x.session_id /\ y.key = x.key /\ y.state = x.state
  /\ y.retx.armed => x.retx.armed /\ y.retx.type = x.retx.type /\ y.retx.seq = x.retx.seq
  /\ Advances(x.rx_input, y.rx_input)
  /\ \A f \in Facilities : Advances(x.rx_kbm[f], y.rx_kbm[f])

\* The same session, later.
Lives(s, t) ==
  /\ s.in_use /\ t.in_use
  /\ t.peer = s.peer /\ t.welcome = s.welcome /\ t.pad_created = s.pad_created
  /\ t.auth_required = s.auth_required /\ t.pair_generation = s.pair_generation
  /\ s.auth_verified => t.auth_verified
  /\ CoreLives(s.core, t.core)

\* What handle_hello's claim of a slot does not reset, somebody else must have.
Vacant(s) ==
  /\ ~s.in_use
  /\ ~s.auth_required /\ ~s.auth_verified /\ ~s.auth_charged /\ s.pair_generation = 0
  /\ ~s.have_last_input /\ s.touchmap = TouchInit /\ s.inputcaps = CapsInit
  /\ s.core.key = NoKey

Settles(s, t) == t = s \/ Lives(s, t) \/ Vacant(t)

\* A slot in use, seen by every scan for an address, an id, a key or a nonce.
Housed(i, s) ==
  /\ s.core.state = "ACTIVE" /\ s.pad_created
  /\ s.welcome.to = s.peer /\ s.welcome.sid = i + 1 /\ s.welcome.auth = s.auth_required
  /\ s.core.retx.armed => s.core.retx.type = "WELCOME" /\ s.core.retx.seq = WelcomeSeq
  /\ s.auth_required => s.welcome.nonce \in Nonces
  /\ s.core.key = IF s.auth_required THEN Key(s.pair_generation, s.welcome.nonce) ELSE NoKey

Opens(i, t) ==
  /\ t.in_use /\ Housed(i, t)
  /\ ~HasSession(t.peer)
  /\ t.auth_required => /\ PairingIsOpen(pairing) /\ t.pair_generation = pairing.generation
                        /\ ~NonceInUse(t.welcome.nonce)

SettlesAll == \A i \in Slots : Settles(sessions[i], sessions'[i])

\* The sender of a HELLO gets a slot and, in the same call, its WELCOME.
OpensFor(from) ==
  \E i \in Slots :
    /\ ~sessions[i].in_use /\ Opens(i, sessions'[i]) /\ sessions'[i].peer = from
    /\ sent' = {sessions'[i].welcome}
    /\ \A j \in Slots \ {i} : sessions'[j] = sessions[j]
OpensOne == \E from \in Peers : OpensFor(from)

\* Every WELCOME handed to the network is the cached one of a live session.
Cached(msgs, table) ==
  \A m \in msgs : m.type = "WELCOME" =>
    \E i \in Slots : table[i].in_use /\ table[i].welcome = m

SettlesStep    == SettlesAll /\ Cached(sent', sessions')
OpensStep(from) == OpensFor(from) /\ Cached(sent', sessions')
AnyStep == (SettlesAll \/ OpensOne) /\ Cached(sent', sessions')

\* Vacant slots are vacant: what a claim relies on.
Vacated == \A i \in Slots : ~sessions[i].in_use => Vacant(sessions[i])

-----------------------------------------------------------------------------
(* The session record.                                                       *)

LEMMA HeardLives ==
  ASSUME NEW s \in SessionType
  PROVE  CoreLives(s, SessionHeard(s))
  BY DEF SessionHeard, SessionType, CoreLives, Advances

LEMMA InputLives ==
  ASSUME NEW s \in SessionType, NEW q \in Seqs
  PROVE  CoreLives(s, OnRecvInput(s, q))
  <1>1. q # NoSeq
    BY SessionAssumption, SeqModAssumption DEF Seqs
  <1>2. CASE AcceptsInput(s, q)
    BY <1>1, <1>2
    DEF OnRecvInput, AcceptsInput, FreshAgainst, SessionType, CoreLives, Advances
  <1>3. CASE ~AcceptsInput(s, q)
    BY <1>3, HeardLives DEF OnRecvInput
  <1> QED BY <1>2, <1>3

LEMMA KbmLives ==
  ASSUME NEW s \in SessionType, NEW c \in KbmClasses, NEW q \in Seqs
  PROVE  CoreLives(s, OnRecvKbm(s, c, q))
  <1>1. q # NoSeq
    BY SessionAssumption, SeqModAssumption DEF Seqs
  <1>2. CASE AcceptsKbm(s, c, q)
    <2> DEFINE w == [s.rx_kbm EXCEPT ![c] = q]
               x == [s EXCEPT !.idle = 0, !.rx_kbm = w]
    <2>1. OnRecvKbm(s, c, q) = x
      BY <1>2 DEF OnRecvKbm, SessionType
    <2>2. \A f \in Facilities : Advances(s.rx_kbm[f], w[f])
      BY <1>1, <1>2, ServerAssumption
      DEF AcceptsKbm, FreshAgainst, SessionType, KbmWindows, Advances
    <2> HIDE DEF w
    <2>3. /\ x.session_id = s.session_id /\ x.key = s.key /\ x.state = s.state
          /\ x.retx = s.retx /\ x.rx_input = s.rx_input /\ x.rx_kbm = w
      BY DEF SessionType
    <2> QED BY <2>1, <2>2, <2>3 DEF CoreLives, Advances
  <1>3. CASE ~AcceptsKbm(s, c, q)
    BY <1>3, HeardLives DEF OnRecvKbm
  <1> QED BY <1>2, <1>3

LEMMA AckLives ==
  ASSUME NEW s \in SessionType, NEW q
  PROVE  CoreLives(s, OnRecvAck(s, q))
  BY DEF OnRecvAck, NoRetx, SessionType, CoreLives, Advances

LEMMA AgeLives ==
  ASSUME NEW s \in SessionType
  PROVE  CoreLives(s, SessionAge(s))
  <1>1. CASE s.state = "CLOSED"
    BY <1>1 DEF SessionAge, CoreLives, Advances
  <1>2. CASE s.state # "CLOSED"
    <2> DEFINE r == [s.retx EXCEPT !.due = CountDown(s.retx.due)]
               x == SessionAge(s)
    <2>1. /\ x.session_id = s.session_id /\ x.key = s.key /\ x.state = s.state
          /\ x.retx = r /\ x.rx_input = s.rx_input /\ x.rx_kbm = s.rx_kbm
      BY <1>2 DEF SessionAge, SessionType
    <2>2. r.armed = s.retx.armed /\ r.type = s.retx.type /\ r.seq = s.retx.seq
      BY DEF SessionType, RetxType
    <2> QED BY <2>1, <2>2 DEF CoreLives, Advances
  <1> QED BY <1>1, <1>2

LEMMA TickLives ==
  ASSUME NEW s \in SessionType, TickAct(s) # "TIMEOUT"
  PROVE  CoreLives(s, SessionTick(s))
  <1>1. CASE TickAct(s) = "RETRANSMIT"
    <2> DEFINE r == [s.retx EXCEPT !.attempt = s.retx.attempt + 1,
                                   !.due = DelayAfter(s.retx.attempt + 1)]
               x == SessionTick(s)
    <2>1. /\ x.session_id = s.session_id /\ x.key = s.key /\ x.state = s.state
          /\ x.retx = r /\ x.rx_input = s.rx_input /\ x.rx_kbm = s.rx_kbm
      BY <1>1 DEF SessionTick, SessionType, RetxType
    <2>2. r.armed = s.retx.armed /\ r.type = s.retx.type /\ r.seq = s.retx.seq
      BY DEF SessionType, RetxType
    <2> QED BY <2>1, <2>2 DEF CoreLives, Advances
  <1>2. CASE TickAct(s) # "RETRANSMIT"
    BY <1>2 DEF SessionTick, CoreLives, Advances
  <1> QED BY <1>1, <1>2

-----------------------------------------------------------------------------
(* Slots.                                                                    *)

\* free_session leaves nothing for the next occupant.
LEMMA FreeSlotVacant ==
  ASSUME NEW s \in SlotType
  PROVE  Vacant(FreeSlot(s))
  <1> DEFINE k == [f \in Facilities |-> ReleaseAll(s.kbm[f])]
             x == SessionClose(s.core, "LOCAL")
             c == FreeSlot(s)
  <1>1. x.key = NoKey
    BY DEF SessionClose, SlotType, SessionType
  <1>2. c = [s EXCEPT !.in_use = FALSE, !.pad_created = FALSE, !.kbm = k, !.core = x,
                      !.welcome = NoWelcome, !.auth_required = FALSE,
                      !.auth_verified = FALSE, !.auth_charged = FALSE,
                      !.pair_generation = 0, !.touchmap = TouchInit,
                      !.inputcaps = CapsInit, !.ping_age = 0, !.ping_pending = FALSE,
                      !.have_last_input = FALSE, !.peer = NoPeer]
    BY DEF FreeSlot
  <1> HIDE DEF k, x, c
  <1>3. Vacant(c)
    BY <1>1, <1>2 DEF Vacant, SlotType
  <1> QED BY <1>3 DEF c

\* Only the session record changes, and only as a live session's does.
LEMMA CoreSlotLives ==
  ASSUME NEW s \in SlotType, s.in_use, NEW x, CoreLives(s.core, x)
  PROVE  Lives(s, [s EXCEPT !.core = x])
  BY DEF Lives, SlotType

LEMMA CoreLivesSame ==
  ASSUME NEW x
  PROVE  CoreLives(x, x)
  BY DEF CoreLives, Advances

LEMMA VerifiedLives ==
  ASSUME NEW s \in SlotType, s.in_use
  PROVE  Lives(s, Verified(s))
  <1> DEFINE caps == IF ~s.auth_verified /\ KbmFeatures # {}
                       THEN CapsArm(s.inputcaps) ELSE s.inputcaps
  <1>1. Verified(s) = [s EXCEPT !.auth_verified = TRUE, !.inputcaps = caps]
    BY DEF Verified, SlotType
  <1> HIDE DEF caps
  <1> QED BY <1>1, CoreLivesSame DEF Lives, SlotType

\* A slot that lives on stays housed, and what is later on is later from here.
LEMMA LivesHoused ==
  ASSUME NEW i, NEW s, NEW t, Lives(s, t), Housed(i, s)
  PROVE  Housed(i, t)
  BY DEF Lives, CoreLives, Housed

\* check_auth in front of a handler.
LEMMA CheckedSettles ==
  ASSUME IInv, NEW from, NEW d, NEW j \in Slots
  PROVE  LET s == sessions[j]
             c == Checked(from, d)[j]
         IN  /\ Settles(s, c)
             /\ \A t : Lives(c, t) => Lives(s, t)
  <1> DEFINE s == sessions[j]
             c == Checked(from, d)[j]
  <1>1. CASE ~GoodTag(j, from, d)
    <2>1. c = s
      BY <1>1 DEF Checked
    <2> QED BY <2>1 DEF Settles
  <1>2. CASE GoodTag(j, from, d)
    <2>1. c = Verified(s)
      BY <1>2 DEF Checked
    <2>2. s \in SlotType /\ s.in_use
      BY <1>2, UsedSlot DEF IInv, GoodTag, Known
    <2>3. Lives(s, c) /\ c.core = s.core
      BY <2>1, <2>2, VerifiedLives DEF Verified, SlotType
    <2> QED BY <2>3 DEF Settles, Lives
  <1> QED BY <1>1, <1>2

\* One slot of the checked table changes, by a handler that keeps or ends it.
LEMMA HandlerSettles ==
  ASSUME IInv, NEW from, NEW d, NEW i \in Slots, NEW c,
         Lives(Checked(from, d)[i], c) \/ Vacant(c),
         sessions' = [Checked(from, d) EXCEPT ![i] = c]
  PROVE  SettlesAll
  <1> DEFINE t == Checked(from, d)
  <1>1. Settles(sessions[i], c)
    BY CheckedSettles DEF Settles
  <1>2. t = [j \in Slots |-> t[j]]
    BY DEF Checked
  <1> HIDE DEF t
  <1>3. sessions'[i] = c /\ \A j \in Slots \ {i} : sessions'[j] = t[j]
    BY <1>2 DEF t
  <1>4. ASSUME NEW j \in Slots \ {i}
        PROVE  Settles(sessions[j], sessions'[j])
    BY <1>3, CheckedSettles DEF t
  <1> QED BY <1>1, <1>3, <1>4 DEF SettlesAll

\* One slot of the table changes.
LEMMA PutSettles ==
  ASSUME IInv, NEW i \in Slots, NEW c, Settles(sessions[i], c),
         sessions' = [sessions EXCEPT ![i] = c]
  PROVE  SettlesAll
  <1>1. sessions'[i] = c /\ \A j \in Slots \ {i} : sessions'[j] = sessions[j]
    BY DEF IInv, Table
  <1> QED BY <1>1 DEF SettlesAll, Settles

LEMMA SameSettles ==
  ASSUME sessions' = sessions
  PROVE  SettlesAll
  BY DEF SettlesAll, Settles

\* What is sent.
LEMMA SilenceCached ==
  ASSUME NEW table
  PROVE  Cached({}, table)
  BY DEF Cached

LEMMA OtherCached ==
  ASSUME NEW m, m.type # "WELCOME", NEW table
  PROVE  Cached({m}, table)
  BY DEF Cached

LEMMA RefusalCached ==
  ASSUME NEW to, NEW code, Refuse(to, code), NEW table
  PROVE  Cached(sent', table)
  BY DEF Refuse, ErrorMsg, Cached

LEMMA WelcomeCached ==
  ASSUME NEW table, NEW i \in Slots, table[i].in_use
  PROVE  Cached({table[i].welcome}, table)
  BY DEF Cached

-----------------------------------------------------------------------------
(* The handlers.                                                             *)

LEMMA RefusalStep ==
  ASSUME IInv, NEW from \in Peers, NEW d,
         \/ HandleDiscover(from, d) \/ HelloRejected(from, d) \/ HandshakeWithSid(from, d)
         \/ HelloNoSlot(from, d) \/ UnknownSession(from, d) \/ NotFromPeer(from, d)
         \/ AuthDropped(from, d) \/ Unparsable(from)
  PROVE  SettlesStep
  <1>1. sessions' \in {sessions, Checked(from, d)}
    BY DEF HandleDiscover, HelloRejected, HandshakeWithSid, HelloNoSlot, UnknownSession,
           NotFromPeer, AuthDropped, Unparsable
  <1>2. SettlesAll
    BY <1>1, CheckedSettles, SameSettles DEF SettlesAll
  <1>3. Cached(sent', sessions')
    <2>1. CASE HandleDiscover(from, d)
      BY <2>1 DEF HandleDiscover, AnnounceMsg, Cached
    <2>2. CASE sent' = {} \/ \E code : Refuse(from, code)
      BY <2>2, RefusalCached, SilenceCached
    <2>3. CASE ~HandleDiscover(from, d)
      <3>1. sent' = {} \/ \E code : Refuse(from, code)
        BY <2>3 DEF HelloRejected, HandshakeWithSid, HelloNoSlot, UnknownSession,
           NotFromPeer, AuthDropped, Unparsable
      <3> QED BY <3>1, <2>2
    <2> QED BY <2>1, <2>3
  <1> QED BY <1>2, <1>3 DEF SettlesStep

LEMMA AuthFailedStep ==
  ASSUME IInv, NEW from \in Peers, NEW d, AuthFailed(from, d)
  PROVE  SettlesStep
  <1>1. PICK i \in Slots :
          sessions' = [sessions EXCEPT ![i] = FreeSlot(sessions[i])]
          /\ Refuse(from, "AUTH_FAILED")
    BY DEF AuthFailed
  <1>2. SettlesAll
    BY <1>1, UsedSlot, FreeSlotVacant, PutSettles DEF IInv, Settles
  <1> QED BY <1>1, <1>2, RefusalCached DEF SettlesStep

LEMMA HelloDuplicateStep ==
  ASSUME IInv, NEW from \in Peers, NEW d, HelloDuplicate(from, d)
  PROVE  SettlesStep
  <1>1. PICK i \in Slots :
          /\ sessions[i].in_use
          /\ sessions' = [sessions EXCEPT ![i] =
                            [sessions[i] EXCEPT !.core = SessionHeard(sessions[i].core)]]
          /\ sent' = {sessions[i].welcome}
    BY DEF HelloDuplicate
  <1> DEFINE s == sessions[i]
             c == [s EXCEPT !.core = SessionHeard(s.core)]
  <1>2. s \in SlotType /\ s.core \in SessionType /\ s.in_use
    BY <1>1, UsedSlot DEF IInv
  <1>3. Lives(s, c)
    BY <1>2, HeardLives, CoreSlotLives
  <1>4. SettlesAll
    BY <1>1, <1>3, PutSettles DEF Settles
  <1>5. sessions'[i] = c
    BY <1>1 DEF IInv, Table
  <1>6. sent' = {sessions'[i].welcome} /\ sessions'[i].in_use
    BY <1>1, <1>3, <1>5 DEF Lives
  <1> QED BY <1>4, <1>6, WelcomeCached DEF SettlesStep

\* A free slot is claimed and given up again.
LEMMA GivenUpStep ==
  ASSUME IInv, NEW i \in Slots, NEW c \in SlotType,
         sessions' = [sessions EXCEPT ![i] = FreeSlot(c)],
         NEW to, NEW code, Refuse(to, code)
  PROVE  SettlesStep
  <1>1. Settles(sessions[i], FreeSlot(c))
    BY FreeSlotVacant DEF Settles
  <1> QED BY <1>1, PutSettles, RefusalCached DEF SettlesStep

LEMMA HelloGivenUpStep ==
  ASSUME IInv, NEW from \in Peers, NEW d,
         HelloPadFails(from, d) \/ HelloRateRefused(from, d) \/ HelloNoEntropy(from, d)
  PROVE  SettlesStep
  <1>1. PICK i \in Slots :
          /\ Allots(i, from, d)
          /\ sessions' \in {[sessions EXCEPT ![i] = FreeSlot(ClaimSlot(sessions[i], from))],
                            [sessions EXCEPT ![i] = FreeSlot(WithPad(sessions[i], from))],
                            [sessions EXCEPT ![i] = FreeSlot(Accepted(sessions[i], i, from))]}
          /\ \E code : Refuse(from, code)
    BY DEF HelloPadFails, HelloRateRefused, HelloNoEntropy
  <1>2. SlotInv(i, sessions[i]) /\ ~sessions[i].in_use
    BY <1>1, Allotted
  <1>3. \A c \in {ClaimSlot(sessions[i], from), WithPad(sessions[i], from),
                  Accepted(sessions[i], i, from)} : c \in SlotType
    BY <1>2, ClaimSlotInv, WithPadInv, AcceptedInv
  <1> QED BY <1>1, <1>3, GivenUpStep

\* The slot handle_hello builds for a new session, before and after its key.
LEMMA WelcomedOpens ==
  ASSUME NEW i \in Slots, NEW s, SlotInv(i, s), Vacant(s), NEW p \in Peers,
         NEW auth \in BOOLEAN, NEW nonce \in Nonces \cup {NoNonce}
  PROVE  LET c == Welcomed(Accepted(s, i, p), auth, nonce)
         IN  /\ c \in SlotType /\ c.core \in SessionType /\ c.in_use /\ c.peer = p
             /\ c.pad_created /\ ~c.auth_required /\ c.core.state = "ACTIVE"
             /\ c.core.retx.type = "WELCOME" /\ c.core.retx.seq = WelcomeSeq
             /\ c.core.key = NoKey
             /\ c.welcome.to = p /\ c.welcome.sid = i + 1
             /\ c.welcome.auth = auth /\ c.welcome.nonce = nonce
  <1> DEFINE h == OnRecvHello(SessionInit(TRUE))
             b == ClaimSlot(s, p)
             w == WithPad(s, p)
             a == Accepted(s, i, p)
             y == SessionServerAccept(w.core, i + 1)
             c == Welcomed(a, auth, nonce)
             x == SessionOnSent(a.core, "WELCOME", WelcomeSeq)
  <1>1. s \in SlotType /\ ~s.in_use /\ ~s.auth_required
    BY DEF SlotInv, Vacant
  <1>2. b \in SlotType /\ w \in SlotType /\ a \in SlotType
    BY <1>1, ClaimSlotInv, WithPadInv, AcceptedInv
  <1>3. SlotInv(i, c)
    BY <1>1, WelcomedInv
  <1>4. /\ b.core = h /\ b.in_use /\ b.peer = p /\ ~b.auth_required
    BY <1>1 DEF ClaimSlot, SlotType
  <1>5. /\ w.core = h /\ w.in_use /\ w.peer = p /\ ~w.auth_required /\ w.pad_created
    BY <1>2, <1>4 DEF WithPad, SlotType
  <1> HIDE DEF h, w
  <1>6. /\ a.core = y /\ a.in_use /\ a.peer = p /\ ~a.auth_required /\ a.pad_created
    BY <1>2, <1>5 DEF Accepted, SlotType, w
  <1>7. w.core \in SessionType /\ w.core.key = NoKey /\ w.core.is_server
    BY <1>1, <1>2, WithPadInv DEF SlotType, w
  <1>8. y.state = "ACTIVE" /\ y.session_id = i + 1 /\ y.key = NoKey /\ y.is_server
    BY <1>7 DEF SessionServerAccept, SessionType
  <1> HIDE DEF y, a
  <1>9. a.core \in SessionType
    BY <1>2 DEF SlotType
  <1>10. /\ x.state = "ACTIVE" /\ x.key = NoKey
         /\ x.retx.type = "WELCOME" /\ x.retx.seq = WelcomeSeq
    BY <1>6, <1>8, <1>9 DEF SessionOnSent, SessionType, ReliableTypes
  <1> HIDE DEF x
  <1>11. /\ c.core = x /\ c.in_use /\ c.peer = p /\ ~c.auth_required /\ c.pad_created
         /\ c.welcome = WelcomeMsg(a, auth, nonce)
    BY <1>2, <1>6 DEF Welcomed, SlotType, x
  <1>12. /\ c.welcome.to = p /\ c.welcome.sid = i + 1
         /\ c.welcome.auth = auth /\ c.welcome.nonce = nonce
    BY <1>6, <1>8, <1>11 DEF WelcomeMsg
  <1>13. c \in SlotType /\ c.core \in SessionType
    BY <1>3 DEF SlotInv, SlotType
  <1> HIDE DEF c
  <1> QED BY <1>10, <1>11, <1>12, <1>13 DEF c, a

LEMMA HelloPlainStep ==
  ASSUME IInv, Vacated, NEW from \in Peers, NEW d, HelloPlain(from, d)
  PROVE  OpensStep(from)
  <1>1. PICK i \in Slots :
          LET s == Welcomed(Accepted(sessions[i], i, from), FALSE, NoNonce)
          IN  /\ Allots(i, from, d)
              /\ sessions' = [sessions EXCEPT ![i] = s]
              /\ sent' = {s.welcome}
    BY DEF HelloPlain
  <1> DEFINE c == Welcomed(Accepted(sessions[i], i, from), FALSE, NoNonce)
  <1>2. SlotInv(i, sessions[i]) /\ ~sessions[i].in_use /\ Vacant(sessions[i])
    BY <1>1, Allotted DEF Vacated
  <1>3. /\ c \in SlotType /\ c.core \in SessionType /\ c.in_use /\ c.peer = from
        /\ c.pad_created /\ ~c.auth_required /\ c.core.state = "ACTIVE"
        /\ c.core.retx.type = "WELCOME" /\ c.core.retx.seq = WelcomeSeq
        /\ c.core.key = NoKey
        /\ c.welcome.to = from /\ c.welcome.sid = i + 1 /\ c.welcome.auth = FALSE
    <2>1. ASSUME NEW a \in BOOLEAN, NEW n \in Nonces \cup {NoNonce}
          PROVE  LET w == Welcomed(Accepted(sessions[i], i, from), a, n)
                 IN  /\ w \in SlotType /\ w.core \in SessionType /\ w.in_use
                     /\ w.peer = from /\ w.pad_created /\ ~w.auth_required
                     /\ w.core.state = "ACTIVE" /\ w.core.key = NoKey
                     /\ w.core.retx.type = "WELCOME" /\ w.core.retx.seq = WelcomeSeq
                     /\ w.welcome.to = from /\ w.welcome.sid = i + 1
                     /\ w.welcome.auth = a /\ w.welcome.nonce = n
      BY <1>2, WelcomedOpens
    <2> QED BY <2>1
  <1>4. sessions' = [sessions EXCEPT ![i] = c] /\ sent' = {c.welcome}
    BY <1>1
  <1> HIDE DEF c
  <1>5. sessions'[i] = c /\ \A j \in Slots \ {i} : sessions'[j] = sessions[j]
    BY <1>4 DEF IInv, Table
  <1>6. ~HasSession(from)
    BY <1>1 DEF Allots
  <1>7. Opens(i, c)
    BY <1>3, <1>6 DEF Opens, Housed, SlotType
  <1>8. sent' = {sessions'[i].welcome} /\ sessions'[i].in_use
    BY <1>3, <1>4, <1>5
  <1>9. OpensFor(from)
    BY <1>2, <1>3, <1>5, <1>7, <1>8 DEF OpensFor
  <1> QED BY <1>8, <1>9, WelcomeCached DEF OpensStep

LEMMA HelloPairingStep ==
  ASSUME IInv, Vacated, NEW from \in Peers, NEW d, HelloPairing(from, d)
  PROVE  OpensStep(from)
  <1>1. PICK i \in Slots, nonce \in Nonces :
          LET s == Welcomed(Accepted(sessions[i], i, from), TRUE, nonce)
          IN  /\ Allots(i, from, d)
              /\ ~NonceInUse(nonce)
              /\ sessions' = [sessions EXCEPT ![i] = Keyed(s, pairing.generation, nonce)]
              /\ sent' = {s.welcome}
    BY DEF HelloPairing
  <1> DEFINE s == Welcomed(Accepted(sessions[i], i, from), TRUE, nonce)
             x == SessionSetKey(s.core, Key(pairing.generation, nonce))
             c == Keyed(s, pairing.generation, nonce)
  <1>2. SlotInv(i, sessions[i]) /\ ~sessions[i].in_use /\ Vacant(sessions[i])
    BY <1>1, Allotted DEF Vacated
  <1>3. /\ s \in SlotType /\ s.core \in SessionType /\ s.in_use /\ s.peer = from
        /\ s.pad_created /\ ~s.auth_required /\ s.core.state = "ACTIVE"
        /\ s.core.retx.type = "WELCOME" /\ s.core.retx.seq = WelcomeSeq
        /\ s.welcome.to = from /\ s.welcome.sid = i + 1 /\ s.welcome.auth = TRUE
        /\ s.welcome.nonce = nonce
    <2>1. ASSUME NEW a \in BOOLEAN, NEW n \in Nonces \cup {NoNonce}
          PROVE  LET w == Welcomed(Accepted(sessions[i], i, from), a, n)
                 IN  /\ w \in SlotType /\ w.core \in SessionType /\ w.in_use
                     /\ w.peer = from /\ w.pad_created /\ ~w.auth_required
                     /\ w.core.state = "ACTIVE" /\ w.core.key = NoKey
                     /\ w.core.retx.type = "WELCOME" /\ w.core.retx.seq = WelcomeSeq
                     /\ w.welcome.to = from /\ w.welcome.sid = i + 1
                     /\ w.welcome.auth = a /\ w.welcome.nonce = n
      BY <1>2, WelcomedOpens
    <2> QED BY <2>1
  <1>4. sessions' = [sessions EXCEPT ![i] = c] /\ sent' = {s.welcome}
    BY <1>1
  <1> HIDE DEF s
  <1>5. /\ x.state = s.core.state /\ x.retx = s.core.retx
        /\ x.key = Key(pairing.generation, nonce)
    BY <1>3 DEF SessionSetKey, SessionType
  <1> HIDE DEF x
  <1>6. /\ c.core = x /\ c.in_use /\ c.peer = from /\ c.pad_created
        /\ c.welcome = s.welcome /\ c.auth_required = TRUE
        /\ c.pair_generation = pairing.generation
    BY <1>3 DEF Keyed, SlotType, x
  <1> HIDE DEF c
  <1>7. sessions'[i] = c /\ \A j \in Slots \ {i} : sessions'[j] = sessions[j]
    BY <1>4 DEF IInv, Table
  <1>8. ~HasSession(from) /\ ~NonceInUse(nonce) /\ PairingIsOpen(pairing)
    BY <1>1 DEF Allots, HelloPairing
  <1>9. Opens(i, c)
    BY <1>3, <1>5, <1>6, <1>8 DEF Opens, Housed
  <1>10. sent' = {sessions'[i].welcome} /\ sessions'[i].in_use
    BY <1>4, <1>6, <1>7
  <1>11. OpensFor(from)
    BY <1>2, <1>6, <1>7, <1>9, <1>10 DEF OpensFor
  <1> QED BY <1>10, <1>11, WelcomeCached DEF OpensStep

\* Handlers of messages inside a session.
LEMMA ReachedSlot ==
  ASSUME IInv, NEW from \in Peers, NEW d, NEW i \in Slots,
         CheckAuth(from, d), Reaches(i, from, d)
  PROVE  LET c == Checked(from, d)[i]
         IN  c \in SlotType /\ c.core \in SessionType /\ c.in_use
  BY ReachedInv DEF IInv

LEMMA HandleInputStateStep ==
  ASSUME IInv, NEW from \in Peers, NEW d, Parsed(d), CheckAuth(from, d),
         HandleInputState(from, d)
  PROVE  SettlesStep
  <1> DEFINE t == Checked(from, d)
  <1>1. PICK i \in Slots :
          /\ Reaches(i, from, d)
          /\ sessions' = [t EXCEPT ![i] =
               [t[i] EXCEPT !.core = OnRecvInput(t[i].core, d.seq),
                            !.have_last_input = t[i].have_last_input
                                                  \/ AcceptsInput(t[i].core, d.seq)]]
    BY DEF HandleInputState
  <1> DEFINE s == t[i]
             x == OnRecvInput(s.core, d.seq)
             had == s.have_last_input \/ AcceptsInput(s.core, d.seq)
             c == [s EXCEPT !.core = x, !.have_last_input = had]
  <1>2. s \in SlotType /\ s.core \in SessionType /\ s.in_use
    BY <1>1, ReachedSlot
  <1>3. CoreLives(s.core, x)
    BY <1>2, InputLives DEF HandleInputState, Parsed
  <1> HIDE DEF x, had, t
  <1>4. Lives(s, c)
    BY <1>2, <1>3 DEF Lives, SlotType
  <1>5. SettlesAll
    BY <1>1, <1>4, HandlerSettles DEF x, had, t
  <1> QED BY <1>5, SilenceCached DEF SettlesStep, HandleInputState

LEMMA HandlePingStep ==
  ASSUME IInv, NEW from \in Peers, NEW d, CheckAuth(from, d),
         HandlePing(from, d) \/ HandleOther(from, d)
  PROVE  SettlesStep
  <1> DEFINE t == Checked(from, d)
  <1>1. PICK i \in Slots :
          /\ Reaches(i, from, d)
          /\ sessions' = [t EXCEPT ![i] = [t[i] EXCEPT !.core = SessionHeard(t[i].core)]]
          /\ sent' \in {{PlainMsg(t[i], "PONG")}, {}}
    BY DEF HandlePing, HandleOther, Checked
  <1> DEFINE s == t[i]
             c == [s EXCEPT !.core = SessionHeard(s.core)]
  <1>2. s \in SlotType /\ s.core \in SessionType /\ s.in_use
    BY <1>1, ReachedSlot
  <1>3. Lives(s, c)
    BY <1>2, HeardLives, CoreSlotLives
  <1>4. SettlesAll
    BY <1>1, <1>3, HandlerSettles
  <1>5. Cached(sent', sessions')
    BY <1>1, SilenceCached, OtherCached DEF PlainMsg
  <1> QED BY <1>4, <1>5 DEF SettlesStep

LEMMA HandlePongStep ==
  ASSUME IInv, NEW from \in Peers, NEW d, CheckAuth(from, d), HandlePong(from, d)
  PROVE  SettlesStep
  <1> DEFINE t == Checked(from, d)
  <1>1. PICK i \in Slots :
          /\ Reaches(i, from, d)
          /\ sessions' = [t EXCEPT ![i] =
               [t[i] EXCEPT !.core = SessionHeard(t[i].core),
                            !.ping_pending = t[i].ping_pending /\ ~d.answers]]
    BY DEF HandlePong
  <1> DEFINE s == t[i]
             x == SessionHeard(s.core)
             pending == s.ping_pending /\ ~d.answers
             c == [s EXCEPT !.core = x, !.ping_pending = pending]
  <1>2. s \in SlotType /\ s.core \in SessionType /\ s.in_use
    BY <1>1, ReachedSlot
  <1>3. CoreLives(s.core, x)
    BY <1>2, HeardLives
  <1> HIDE DEF x, pending, t
  <1>4. Lives(s, c)
    BY <1>2, <1>3 DEF Lives, SlotType
  <1>5. SettlesAll
    BY <1>1, <1>4, HandlerSettles DEF x, pending, t
  <1> QED BY <1>5, SilenceCached DEF SettlesStep, HandlePong

LEMMA HandleByeStep ==
  ASSUME IInv, NEW from \in Peers, NEW d, CheckAuth(from, d), HandleBye(from, d)
  PROVE  SettlesStep
  <1> DEFINE t == Checked(from, d)
  <1>1. PICK i \in Slots :
          /\ Reaches(i, from, d)
          /\ sessions' = [t EXCEPT ![i] = FreeSlot([t[i] EXCEPT !.core = OnRecvBye(t[i].core)])]
          /\ sent' = {AckMsg(t[i], "BYE")}
    BY DEF HandleBye
  <1> DEFINE s == t[i]
             x == OnRecvBye(s.core)
             c == [s EXCEPT !.core = x]
  <1>2. s \in SlotType /\ s.core \in SessionType
    BY <1>1, ReachedSlot
  <1>3. x \in SessionType
    BY <1>2, CloseType DEF OnRecvBye, CloseReasons
  <1> HIDE DEF x, t
  <1>4. Vacant(FreeSlot(c))
    BY <1>2, <1>3, FreeSlotVacant DEF SlotType
  <1>5. SettlesAll
    BY <1>1, <1>4, HandlerSettles DEF x, t
  <1> QED BY <1>1, <1>5, OtherCached DEF SettlesStep, AckMsg

LEMMA HandleAckStep ==
  ASSUME IInv, NEW from \in Peers, NEW d, CheckAuth(from, d), HandleAck(from, d)
  PROVE  SettlesStep
  <1> DEFINE t == Checked(from, d)
  <1>1. PICK i \in Slots :
          /\ Reaches(i, from, d)
          /\ sessions' = [t EXCEPT ![i] =
               [t[i] EXCEPT !.core = OnRecvAck(@, d.acks),
                            !.touchmap.dirty = TRUE,
                            !.inputcaps = IF ~t[i].auth_required /\ KbmFeatures # {}
                                            THEN CapsArm(@) ELSE @]]
    BY DEF HandleAck
  <1> DEFINE s == t[i]
             x == OnRecvAck(s.core, d.acks)
             touch == [s.touchmap EXCEPT !.dirty = TRUE]
             caps == IF ~s.auth_required /\ KbmFeatures # {}
                       THEN CapsArm(s.inputcaps) ELSE s.inputcaps
             c == [s EXCEPT !.core = x, !.touchmap = touch, !.inputcaps = caps]
  <1>2. s \in SlotType /\ s.core \in SessionType /\ s.in_use
    BY <1>1, ReachedSlot
  <1>3. CoreLives(s.core, x)
    BY <1>2, AckLives
  <1>4. sessions' = [t EXCEPT ![i] = c]
    BY <1>1, <1>2 DEF SlotType
  <1> HIDE DEF x, touch, caps, t
  <1>5. Lives(s, c)
    BY <1>2, <1>3 DEF Lives, SlotType
  <1>6. SettlesAll
    BY <1>4, <1>5, HandlerSettles DEF t
  <1> QED BY <1>6, SilenceCached DEF SettlesStep, HandleAck

LEMMA HandleKbmStep ==
  ASSUME IInv, NEW from \in Peers, NEW d, Parsed(d), CheckAuth(from, d),
         HandleKbm(from, d)
  PROVE  SettlesStep
  <1> DEFINE t == Checked(from, d)
             f == d.type
  <1>1. PICK i \in Slots :
          LET s == t[i]
              heard == [s EXCEPT !.core = OnRecvKbm(@, f, d.seq)]
              had == s.kbm[f].created
              st == KbmNoteCreated(s.kbm[f])
          IN  /\ Reaches(i, from, d)
              /\ sessions' \in {[t EXCEPT ![i] = heard],
                                [t EXCEPT ![i] =
                                   [heard EXCEPT !.kbm[f] = Apply(f, st, d.msg),
                                                 !.inputcaps = IF had THEN @ ELSE CapsRearm(@)]]}
    BY DEF HandleKbm
  <1> DEFINE s == t[i]
             x == OnRecvKbm(s.core, f, d.seq)
             k == [s.kbm EXCEPT ![f] = Apply(f, KbmNoteCreated(s.kbm[f]), d.msg)]
             caps == IF s.kbm[f].created THEN s.inputcaps ELSE CapsRearm(s.inputcaps)
             heard == [s EXCEPT !.core = x]
             c == [s EXCEPT !.core = x, !.kbm = k, !.inputcaps = caps]
  <1>2. s \in SlotType /\ s.core \in SessionType /\ s.in_use
    BY <1>1, ReachedSlot
  <1>3. CoreLives(s.core, x)
    BY <1>2, KbmLives, ServerAssumption DEF HandleKbm, Parsed
  <1>4. sessions' \in {[t EXCEPT ![i] = heard], [t EXCEPT ![i] = c]}
    BY <1>1, <1>2 DEF SlotType
  <1> HIDE DEF x, k, caps, t
  <1>5. Lives(s, heard) /\ Lives(s, c)
    BY <1>2, <1>3 DEF Lives, SlotType
  <1> HIDE DEF heard, c
  <1>6. SettlesAll
    BY <1>4, <1>5, HandlerSettles DEF t
  <1> QED BY <1>6, SilenceCached DEF SettlesStep, HandleKbm

-----------------------------------------------------------------------------
(* apad_server_tick, the host's calls, and time.                             *)

LEMMA DeliveredLives ==
  ASSUME NEW s \in SlotType, s.in_use
  PROVE  Lives(s, Delivered(s)) /\ Delivered(s).core = s.core
  <1> DEFINE touch == TouchTick(s.touchmap)
             caps == CapsTick(s.inputcaps)
             k == [f \in Facilities |-> WatchdogTick(s.kbm[f])]
  <1>1. Delivered(s) = [s EXCEPT !.touchmap = touch, !.inputcaps = caps, !.kbm = k]
    BY DEF Delivered, SlotType
  <1> HIDE DEF touch, caps, k
  <1> QED BY <1>1, CoreLivesSame DEF Lives, SlotType

\* A session that does not time out is serviced and lives on.
LEMMA ServicedLives ==
  ASSUME NEW i \in Slots, NEW s, SlotInv(i, s), s.in_use
  PROVE  IF TimesOut(s) THEN Vacant(Serviced(s)) ELSE Lives(s, Serviced(s))
  <1> DEFINE x == SessionTick(s.core)
             c == [s EXCEPT !.core = x]
             p == [c EXCEPT !.ping_age = 0, !.ping_pending = TRUE]
  <1>1. s \in SlotType /\ s.core \in SessionType
    BY DEF SlotInv, SlotType
  <1>2. x \in SessionType
    BY <1>1, TickType
  <1>3. CASE TimesOut(s)
    <2>1. Serviced(s) = FreeSlot(c)
      BY <1>3 DEF Serviced
    <2> HIDE DEF x
    <2>2. c \in SlotType
      BY <1>1, <1>2 DEF SlotType
    <2> QED BY <1>3, <2>1, <2>2, FreeSlotVacant
  <1>4. CASE ~TimesOut(s)
    <2>1. CoreLives(s.core, x)
      BY <1>1, <1>4, TickLives DEF TimesOut
    <2>2. Serviced(s) \in {c, p}
      BY <1>4 DEF Serviced
    <2> HIDE DEF x
    <2>3. Lives(s, c) /\ Lives(s, p)
      BY <1>1, <2>1 DEF Lives, SlotType
    <2> QED BY <1>4, <2>2, <2>3
  <1> QED BY <1>3, <1>4

LEMMA LivesOn ==
  ASSUME NEW s, NEW d, NEW t, Lives(s, d), d.core = s.core, Lives(d, t)
  PROVE  Lives(s, t)
  BY DEF Lives

LEMMA TickedSettles ==
  ASSUME NEW i \in Slots, NEW s, SlotInv(i, s)
  PROVE  /\ ~s.in_use => Ticked(s) = s
         /\ s.in_use /\ (ExpiresWith(s) \/ TimesOut(s)) => Vacant(Ticked(s))
         /\ s.in_use /\ ~ExpiresWith(s) /\ ~TimesOut(s) => Lives(s, Ticked(s))
  <1> DEFINE d == Delivered(s)
  <1>1. s \in SlotType
    BY DEF SlotInv
  <1>2. CASE ~s.in_use
    <2>1. d = s
      BY <1>2 DEF Delivered
    <2>2. ~ExpiresWith(s)
      BY <1>2 DEF ExpiresWith, Unproven
    <2>3. Serviced(s) = s
      BY <1>2 DEF Serviced, TimesOut
    <2>4. Ticked(s) = IF ExpiresWith(d) THEN FreeSlot(d) ELSE Serviced(d)
      BY DEF Ticked
    <2> QED BY <1>2, <2>1, <2>2, <2>3, <2>4
  <1>3. CASE s.in_use
    <2>1. /\ SlotInv(i, d) /\ d.in_use /\ d.core = s.core /\ Unproven(d) = Unproven(s)
          /\ Lives(s, d)
      BY <1>1, <1>3, DeliveredInv, DeliveredLives
    <2>2. ExpiresWith(d) = ExpiresWith(s) /\ TimesOut(d) = TimesOut(s)
      BY <1>3, <2>1 DEF ExpiresWith, TimesOut
    <2>3. Ticked(s) = IF ExpiresWith(d) THEN FreeSlot(d) ELSE Serviced(d)
      BY DEF Ticked
    <2> HIDE DEF d
    <2>4. Vacant(FreeSlot(d))
      BY <2>1, FreeSlotVacant DEF SlotInv
    <2>5. IF TimesOut(d) THEN Vacant(Serviced(d)) ELSE Lives(d, Serviced(d))
      BY <2>1, ServicedLives
    <2> QED BY <1>3, <2>1, <2>2, <2>3, <2>4, <2>5, LivesOn
  <1> QED BY <1>2, <1>3

LEMMA TickStep ==
  ASSUME IInv, Tick
  PROVE  SettlesStep
  <1>1. \A i \in Slots : SlotInv(i, sessions[i]) /\ sessions'[i] = Ticked(sessions[i])
    BY UsedSlot DEF IInv, Tick
  <1>2. SettlesAll
    BY <1>1, TickedSettles DEF SettlesAll, Settles
  <1>3. ASSUME NEW i \in Slots, NEW m \in TickSends(sessions[i]), m.type = "WELCOME"
        PROVE  sessions'[i].in_use /\ sessions'[i].welcome = m
    <2> DEFINE s == sessions[i]
    <2>1. m = s.welcome /\ s.in_use /\ ~ExpiresWith(s) /\ TickAct(s.core) = "RETRANSMIT"
      BY <1>3 DEF TickSends, PlainMsg, CapsMsg
    <2>2. ~TimesOut(s)
      BY <2>1 DEF TimesOut
    <2>3. Lives(s, Ticked(s))
      BY <1>1, <2>1, <2>2, TickedSettles
    <2> QED BY <1>1, <2>1, <2>3 DEF Lives
  <1>4. Cached(sent', sessions')
    BY <1>3 DEF Tick, Cached
  <1> QED BY <1>2, <1>4 DEF SettlesStep

LEMMA DropSettles ==
  ASSUME IInv, sessions' \in {sessions, DropUnproven(sessions)}
  PROVE  SettlesAll
  <1>1. ASSUME NEW i \in Slots
        PROVE  Settles(sessions[i], sessions'[i])
    BY UsedSlot, FreeSlotVacant DEF IInv, DropUnproven, Settles
  <1> QED BY <1>1 DEF SettlesAll

LEMMA PairingCallStep ==
  ASSUME IInv, BeginPairing \/ CancelPairing
  PROVE  SettlesStep
  <1>1. sessions' \in {sessions, DropUnproven(sessions)} /\ sent' = {}
    BY DEF BeginPairing, CancelPairing
  <1> QED BY <1>1, DropSettles, SilenceCached DEF SettlesStep

LEMMA SetProfileStep ==
  ASSUME IInv, NEW i \in Slots, SetProfile(i)
  PROVE  SettlesStep
  <1> DEFINE s == sessions[i]
             touch == [s.touchmap EXCEPT !.dirty = TRUE]
             c == [s EXCEPT !.touchmap = touch]
  <1>1. s \in SlotType /\ s.in_use
    BY UsedSlot DEF IInv, SetProfile
  <1>2. sessions' = [sessions EXCEPT ![i] = c]
    BY DEF SetProfile
  <1> HIDE DEF touch
  <1>3. Lives(s, c)
    BY <1>1, CoreLivesSame DEF Lives, SlotType
  <1>4. SettlesAll
    BY <1>2, <1>3, PutSettles DEF Settles
  <1> QED BY <1>4, SilenceCached DEF SettlesStep, SetProfile

LEMMA AgedLives ==
  ASSUME NEW s \in SlotType, s.in_use
  PROVE  Lives(s, Aged(s))
  <1> DEFINE x == SessionAge(s.core)
             touch == TouchAge(s.touchmap)
             caps == CapsAge(s.inputcaps)
             n == Saturate(s.ping_age + 1, PingPeriod)
             k == [f \in Facilities |-> KbmAge(s.kbm[f])]
  <1>1. CoreLives(s.core, x)
    BY AgeLives DEF SlotType
  <1>2. Aged(s) = [s EXCEPT !.core = x, !.ping_age = n, !.touchmap = touch,
                            !.inputcaps = caps, !.kbm = k]
    BY DEF Aged, SlotType
  <1> HIDE DEF x, touch, caps, n, k
  <1> QED BY <1>1, <1>2 DEF Lives, SlotType

LEMMA ElapseStep ==
  ASSUME IInv, Elapse
  PROVE  SettlesStep
  <1>1. ASSUME NEW i \in Slots
        PROVE  Settles(sessions[i], sessions'[i])
    <2>1. sessions'[i] = Aged(sessions[i]) /\ sessions[i] \in SlotType
      BY UsedSlot DEF IInv, Elapse
    <2>2. CASE sessions[i].in_use
      BY <2>1, <2>2, AgedLives DEF Settles
    <2>3. CASE ~sessions[i].in_use
      BY <2>1, <2>3 DEF Settles, Aged
    <2> QED BY <2>2, <2>3
  <1>2. SettlesAll
    BY <1>1 DEF SettlesAll
  <1> QED BY <1>2, SilenceCached DEF SettlesStep, Elapse

-----------------------------------------------------------------------------

LEMMA DispatchStep ==
  ASSUME IInv, Vacated, NEW from \in Peers, NEW d, Parsed(d), CheckAuth(from, d),
         Dispatch(from, d)
  PROVE  SettlesStep \/ OpensStep(from)
  BY RefusalStep, HelloDuplicateStep, HelloGivenUpStep, HelloPlainStep,
     HelloPairingStep, HandleInputStateStep, HandleKbmStep, HandlePingStep,
     HandlePongStep, HandleByeStep, HandleAckStep DEF Dispatch

LEMMA DatagramStep ==
  ASSUME IInv, Vacated, NEW from \in Peers, NEW d, Parsed(d), OnDatagram(from, d)
  PROVE  SettlesStep \/ OpensStep(from)
  BY DispatchStep, AuthFailedStep, RefusalStep DEF OnDatagram

LEMMA ReceiveStep ==
  ASSUME IInv, Vacated, Receive
  PROVE  AnyStep
  <1>1. PICK from \in Peers : Unparsable(from) \/ \E d \in InboundDatagrams : OnDatagram(from, d)
    BY DEF Receive
  <1>2. CASE Unparsable(from)
    <2>1. sessions' = sessions /\ \E code : Refuse(from, code)
      BY <1>2 DEF Unparsable
    <2> QED BY <2>1, SameSettles, RefusalCached DEF AnyStep
  <1>3. ASSUME NEW d \in InboundDatagrams, OnDatagram(from, d)
        PROVE  AnyStep
    BY <1>3, DatagramStep, InboundParsed DEF AnyStep, SettlesStep, OpensStep, OpensOne
  <1> QED BY <1>1, <1>2, <1>3

\* What the host calls, and the passage of time, open nothing.
LEMMA HostStep ==
  ASSUME IInv, \/ Tick \/ Elapse \/ BeginPairing \/ CancelPairing
               \/ \E i \in Slots : SetProfile(i)
  PROVE  SettlesStep
  BY TickStep, ElapseStep, PairingCallStep, SetProfileStep

\* Whatever is called, with whatever arguments, in whatever state.
LEMMA NextStep ==
  ASSUME IInv, Vacated, Next
  PROVE  AnyStep
  <1>1. CASE Receive
    BY <1>1, ReceiveStep
  <1>2. CASE ~Receive
    BY <1>2, HostStep DEF Next, AnyStep, SettlesStep
  <1> QED BY <1>1, <1>2

-----------------------------------------------------------------------------
(* What follows from it                                                    *)

\* No two sessions of one peer, no two keys from one nonce.
Distinct(i, j) ==
  sessions[i].in_use /\ sessions[j].in_use =>
    /\ sessions[i].peer # sessions[j].peer
    /\ sessions[i].auth_required /\ sessions[j].auth_required =>
         sessions[i].welcome.nonce # sessions[j].welcome.nonce

Registry ==
  /\ \A i \in Slots : IF sessions[i].in_use THEN Housed(i, sessions[i])
                                            ELSE Vacant(sessions[i])
  /\ \A i, j \in Slots : i # j => Distinct(i, j)

SInv == IInv /\ Registry /\ Cached(sent, sessions)

-----------------------------------------------------------------------------
(* SInv.                                                                     *)

LEMMA RegistryVacates ==
  Registry => Vacated
  BY DEF Registry, Vacated

\* A slot that is in use afterwards, and settled, was in use before as the same.
LEMMA SettledKeeps ==
  ASSUME NEW s, NEW t, Settles(s, t), t.in_use
  PROVE  /\ s.in_use /\ t.peer = s.peer /\ t.welcome = s.welcome
         /\ t.auth_required = s.auth_required /\ t.pair_generation = s.pair_generation
         /\ s.auth_verified => t.auth_verified
  BY DEF Settles, Lives, Vacant

LEMMA SettlesRegistry ==
  ASSUME Registry, SettlesAll
  PROVE  Registry'
  <1>1. ASSUME NEW i \in Slots
        PROVE  IF sessions'[i].in_use THEN Housed(i, sessions'[i]) ELSE Vacant(sessions'[i])
    <2>1. Settles(sessions[i], sessions'[i])
      BY DEF SettlesAll
    <2>2. CASE sessions'[i] = sessions[i]
      BY <2>2 DEF Registry
    <2>3. CASE Lives(sessions[i], sessions'[i])
      BY <2>3, LivesHoused DEF Registry, Lives
    <2>4. CASE Vacant(sessions'[i])
      BY <2>4 DEF Vacant
    <2> QED BY <2>1, <2>2, <2>3, <2>4 DEF Settles
  <1>2. ASSUME NEW i \in Slots, NEW j \in Slots, i # j
        PROVE  Distinct(i, j)'
    BY <1>2, SettledKeeps DEF Registry, SettlesAll, Distinct
  <1> QED BY <1>1, <1>2 DEF Registry

LEMMA OpensRegistry ==
  ASSUME Registry, OpensOne
  PROVE  Registry'
  <1>1. PICK i \in Slots :
          /\ ~sessions[i].in_use /\ Opens(i, sessions'[i])
          /\ \A j \in Slots \ {i} : sessions'[j] = sessions[j]
    BY DEF OpensOne, OpensFor
  <1>2. ASSUME NEW j \in Slots
        PROVE  IF sessions'[j].in_use THEN Housed(j, sessions'[j]) ELSE Vacant(sessions'[j])
    BY <1>1 DEF Registry, Opens
  <1>3. ASSUME NEW j \in Slots \ {i}, sessions[j].in_use
        PROVE  /\ sessions'[i].peer # sessions[j].peer
               /\ sessions'[i].auth_required /\ sessions[j].auth_required =>
                    sessions'[i].welcome.nonce # sessions[j].welcome.nonce
    BY <1>1, <1>3 DEF Opens, HasSession, NonceInUse
  <1>4. ASSUME NEW j \in Slots, NEW k \in Slots, j # k
        PROVE  Distinct(j, k)'
    BY <1>1, <1>3, <1>4 DEF Registry, Distinct
  <1> QED BY <1>2, <1>4 DEF Registry

LEMMA NeverUsedType ==
  NeverUsedSlot \in SlotType /\ Vacant(NeverUsedSlot)
  <1> DEFINE x == SessionInit(TRUE)
             k == [f \in Facilities |-> KbmInit]
             n == NeverUsedSlot
  <1>1. x \in SessionType /\ x.key = NoKey /\ k \in KbmStates
    BY InitType, KbmInits DEF SessionInit
  <1>2. n = [in_use |-> FALSE, pad_created |-> FALSE, peer |-> NoPeer, core |-> x,
             welcome |-> NoWelcome, auth_required |-> FALSE, auth_verified |-> FALSE,
             auth_charged |-> FALSE, pair_generation |-> 0, have_last_input |-> FALSE,
             ping_age |-> 0, ping_pending |-> FALSE, touchmap |-> TouchInit,
             inputcaps |-> CapsInit, kbm |-> k]
    BY DEF NeverUsedSlot
  <1> HIDE DEF n, x, k
  <1>3. n \in SlotType /\ Vacant(n)
    BY <1>1, <1>2, SlotRanges, InitialTypes DEF SlotType, Vacant
  <1> QED BY <1>3 DEF n

LEMMA InitSafe ==
  Init => SInv
  <1> SUFFICES ASSUME Init
               PROVE  SInv
    OBVIOUS
  <1>1. Vacant(NeverUsedSlot)
    BY NeverUsedType
  <1>2. ~NeverUsedSlot.in_use
    BY <1>1 DEF Vacant
  <1>3. \A i \in Slots : sessions[i] = NeverUsedSlot
    BY DEF Init
  <1>4. Registry
    BY <1>1, <1>2, <1>3 DEF Registry, Distinct
  <1> QED BY <1>4, InitInv, SilenceCached DEF Init, SInv

LEMMA SafeStep ==
  ASSUME SInv, Next
  PROVE  SInv' /\ AnyStep
  <1>1. AnyStep
    BY NextStep, RegistryVacates DEF SInv
  <1>2. Registry'
    BY <1>1, SettlesRegistry, OpensRegistry DEF SInv, AnyStep
  <1>3. IInv'
    BY StepInv DEF SInv
  <1> QED BY <1>1, <1>2, <1>3 DEF SInv, AnyStep

LEMMA StepSafe ==
  SInv /\ [Next]_vars => SInv'
  <1> SUFFICES ASSUME SInv, [Next]_vars
               PROVE  SInv'
    OBVIOUS
  <1>1. CASE UNCHANGED vars
    <2>1. IInv'
      BY StepInv DEF SInv
    <2> QED BY <1>1, <2>1 DEF vars, SInv, Registry, Distinct, Cached
  <1> QED BY <1>1, SafeStep

\* The order of the whole table, throughout every behaviour of the server.
THEOREM SpecSafe ==
  Spec => []SInv
  BY InitSafe, StepSafe, PTL DEF Spec

-----------------------------------------------------------------------------
(* Invariants.                                                               *)

\* The claim of a vacant slot, field by field.
LEMMA ClaimedFields ==
  ASSUME NEW s \in SlotType, Vacant(s), NEW p \in Peers
  PROVE  LET c == ClaimSlot(s, p)
         IN  /\ c \in SlotType
             /\ c.in_use = TRUE /\ c.pad_created = FALSE /\ c.peer = p
             /\ c.core = OnRecvHello(SessionInit(TRUE)) /\ c.welcome = NoWelcome
             /\ c.auth_required = FALSE /\ c.auth_verified = FALSE
             /\ c.auth_charged = FALSE /\ c.pair_generation = 0
             /\ c.have_last_input = FALSE /\ c.ping_age = 0 /\ c.ping_pending = FALSE
             /\ c.touchmap = TouchInit /\ c.inputcaps = CapsInit
             /\ c.kbm = [f \in Facilities |-> KbmInit]
  <1> DEFINE h == OnRecvHello(SessionInit(TRUE))
             k == [f \in Facilities |-> KbmInit]
             c == [s EXCEPT !.core = h, !.peer = p, !.in_use = TRUE, !.pad_created = FALSE,
                            !.welcome = NoWelcome, !.ping_age = 0,
                            !.ping_pending = FALSE, !.kbm = k]
  <1>1. h \in SessionType /\ k \in KbmStates
    BY InitType, HelloType, KbmInits
  <1>2. ClaimSlot(s, p) = c
    BY DEF ClaimSlot
  <1>3. /\ s.auth_required = FALSE /\ s.auth_verified = FALSE /\ s.auth_charged = FALSE
        /\ s.pair_generation = 0 /\ s.have_last_input = FALSE
        /\ s.touchmap = TouchInit /\ s.inputcaps = CapsInit
    BY DEF Vacant, SlotType
  <1> HIDE DEF h, k
  <1>4. /\ c \in SlotType
        /\ c.in_use = TRUE /\ c.pad_created = FALSE /\ c.peer = p
        /\ c.core = h /\ c.welcome = NoWelcome /\ c.ping_age = 0
        /\ c.ping_pending = FALSE /\ c.kbm = k
    BY <1>1, SlotRanges DEF SlotType
  <1>5. /\ c.auth_required = FALSE /\ c.auth_verified = FALSE
        /\ c.auth_charged = FALSE /\ c.pair_generation = 0
        /\ c.have_last_input = FALSE
        /\ c.touchmap = TouchInit /\ c.inputcaps = CapsInit
    BY <1>3 DEF SlotType
  <1> QED BY <1>2, <1>4, <1>5 DEF h, k

\* A claim overwrites whatever a vacant slot could still tell apart.
LEMMA ClaimOfVacant ==
  ASSUME NEW s \in SlotType, Vacant(s), NEW p \in Peers
  PROVE  ClaimSlot(s, p) = ClaimSlot(NeverUsedSlot, p)
  <1> DEFINE c == ClaimSlot(s, p)
             n == ClaimSlot(NeverUsedSlot, p)
             Claim(x) ==
               /\ x \in SlotType
               /\ x.in_use = TRUE /\ x.pad_created = FALSE /\ x.peer = p
               /\ x.core = OnRecvHello(SessionInit(TRUE)) /\ x.welcome = NoWelcome
               /\ x.auth_required = FALSE /\ x.auth_verified = FALSE
               /\ x.auth_charged = FALSE /\ x.pair_generation = 0
               /\ x.have_last_input = FALSE /\ x.ping_age = 0 /\ x.ping_pending = FALSE
               /\ x.touchmap = TouchInit /\ x.inputcaps = CapsInit
               /\ x.kbm = [f \in Facilities |-> KbmInit]
  <1>1. Claim(c)
    BY ClaimedFields
  <1>2. Claim(n)
    BY NeverUsedType, ClaimedFields
  <1> HIDE DEF c, n
  <1>3. /\ c.in_use = n.in_use /\ c.pad_created = n.pad_created /\ c.peer = n.peer
        /\ c.core = n.core /\ c.welcome = n.welcome
        /\ c.auth_required = n.auth_required /\ c.auth_verified = n.auth_verified
        /\ c.auth_charged = n.auth_charged /\ c.pair_generation = n.pair_generation
        /\ c.have_last_input = n.have_last_input /\ c.ping_age = n.ping_age
        /\ c.ping_pending = n.ping_pending /\ c.touchmap = n.touchmap
        /\ c.inputcaps = n.inputcaps /\ c.kbm = n.kbm
    BY <1>1, <1>2
  <1>4. c \in SlotType /\ n \in SlotType
    BY <1>1, <1>2
  <1> HIDE DEF Claim
  <1>5. c = n
    BY <1>3, <1>4 DEF SlotType
  <1> QED BY <1>5 DEF c, n

\* free_session and handle_hello's claim clear, between them, everything: the
\* n-th occupant of a slot starts exactly like the first.
THEOREM NothingIsInherited ==
  Spec => []NothingInherited
  <1>1. SInv => NothingInherited
    BY UsedSlot, ClaimOfVacant DEF SInv, IInv, Registry, NothingInherited
  <1> QED BY <1>1, SpecSafe, PTL

\* What every scan of the table by address, id or nonce relies on.
THEOREM SlotsStayInOrder ==
  Spec => []SlotsWellFormed
  <1>1. SInv => SlotsWellFormed
    <2> SUFFICES ASSUME SInv, NEW i \in Slots, sessions[i].in_use
                 PROVE  LET s == sessions[i]
                        IN  /\ s.core.state = "ACTIVE" /\ s.core.session_id = i + 1
                            /\ s.pad_created /\ s.peer \in Peers
                            /\ s.welcome # NoWelcome /\ s.welcome.to = s.peer
                            /\ s.welcome.sid = i + 1
                            /\ s.core.retx.armed =>
                                 s.core.retx.type = "WELCOME" /\ s.core.retx.seq = WelcomeSeq
                            /\ \A j \in Slots \ {i} :
                                 sessions[j].in_use => sessions[j].peer # s.peer
      BY DEF SlotsWellFormed
    <2>1. Housed(i, sessions[i]) /\ SlotInv(i, sessions[i])
      BY UsedSlot DEF SInv, IInv, Registry
    <2>2. sessions[i].welcome # NoWelcome
      BY <2>1, WelcomeAssumption DEF SlotInv
    <2>3. \A j \in Slots \ {i} : sessions[j].in_use => sessions[j].peer # sessions[i].peer
      BY DEF SInv, Registry, Distinct
    <2> QED BY <2>1, <2>2, <2>3 DEF Housed, SlotInv
  <1> QED BY <1>1, SpecSafe, PTL

\* Section 10: a session's key is the one its own WELCOME salts, no two live
\* sessions share a key, and no WELCOME is sent that is not a live session's.
THEOREM KeysAlwaysFollowWelcomes ==
  Spec => []KeysFollowWelcomes
  <1>1. ASSUME SInv, NEW i \in Slots, sessions[i].in_use
        PROVE  LET s == sessions[i]
               IN  /\ s.welcome.auth = s.auth_required
                   /\ s.core.key = IF s.auth_required
                                     THEN Key(s.pair_generation, s.welcome.nonce) ELSE NoKey
                   /\ \A j \in Slots \ {i} :
                        sessions[j].core.key = s.core.key => s.core.key = NoKey
    <2>1. Housed(i, sessions[i])
      BY <1>1 DEF SInv, Registry
    <2>2. ASSUME NEW j \in Slots \ {i}, sessions[j].core.key = sessions[i].core.key,
                 sessions[i].core.key # NoKey
          PROVE  FALSE
      <3>1. sessions[i].auth_required
            /\ sessions[i].core.key = Key(sessions[i].pair_generation, sessions[i].welcome.nonce)
        BY <2>1, <2>2 DEF Housed
      <3>2. sessions[j].in_use
        BY <1>1, <2>2 DEF SInv, Registry, Vacant
      <3>3. sessions[j].auth_required
            /\ sessions[j].core.key = Key(sessions[j].pair_generation, sessions[j].welcome.nonce)
        BY <1>1, <2>2, <3>2 DEF SInv, Registry, Housed
      <3>4. sessions[i].welcome.nonce = sessions[j].welcome.nonce
        BY <2>2, <3>1, <3>3 DEF Key
      <3> QED BY <1>1, <3>1, <3>2, <3>3, <3>4 DEF SInv, Registry, Distinct
    <2> QED BY <2>1, <2>2 DEF Housed
  <1>2. ASSUME SInv, NEW m \in sent, m.type = "WELCOME"
        PROVE  m.tag = NoKey /\ \E i \in Slots : sessions[i].in_use /\ sessions[i].welcome = m
    <2>1. PICK i \in Slots : sessions[i].in_use /\ sessions[i].welcome = m
      BY <1>2 DEF SInv, Cached
    <2>2. m \in WelcomeType
      BY <1>2, <2>1, UsedSlot DEF SInv, IInv
    <2> QED BY <2>1, <2>2 DEF WelcomeType
  <1>3. SInv => KeysFollowWelcomes
    BY <1>1, <1>2 DEF KeysFollowWelcomes
  <1> QED BY <1>3, SpecSafe, PTL

-----------------------------------------------------------------------------
(* What no step may do to a live session.                                    *)

LEMMA LivesFromStep ==
  ASSUME SInv, Next, NEW i \in Slots, sessions[i].in_use, sessions'[i].in_use
  PROVE  sessions'[i] = sessions[i] \/ Lives(sessions[i], sessions'[i])
  <1>1. SettlesAll \/ OpensOne
    BY SafeStep DEF AnyStep
  <1>2. CASE SettlesAll
    BY <1>2 DEF SettlesAll, Settles, Vacant
  <1>3. CASE OpensOne
    BY <1>3 DEF OpensOne, OpensFor
  <1> QED BY <1>1, <1>2, <1>3

\* Same peer, id, key, generation and WELCOME for as long as a session lives,
\* whatever arrives: no call replaces a session by another in one step.
THEOREM IdentityNeverChanges ==
  Spec => IdentityIsFixed
  <1>1. SInv /\ [Next]_vars => [IdentityKept]_vars
    BY LivesFromStep DEF IdentityKept, Lives, CoreLives
  <1> QED BY <1>1, SpecSafe, PTL DEF Spec, IdentityIsFixed

\* Sections 6.20 and 9: no receive window moves back or reopens in the life of
\* its session, so a datagram once judged stale stays stale.
THEOREM WindowsNeverMoveBack ==
  Spec => WindowsOnlyAdvance
  <1>1. SInv /\ [Next]_vars => [WindowsAdvance]_vars
    BY LivesFromStep DEF WindowsAdvance, Lives, CoreLives, Advances
  <1> QED BY <1>1, SpecSafe, PTL DEF Spec, WindowsOnlyAdvance

-----------------------------------------------------------------------------
(* The pairing window.                                                       *)

\* Everything the calls other than begin_pairing do to the window.
WindowMoves ==
  \/ pairing' \in {pairing, PairingClose(pairing), PairingTick(pairing), PairingAge(pairing)}
  \/ \E from \in Peers, d \in InboundDatagrams : AuthFailed(from, d)

LEMMA WindowStep ==
  ASSUME Next
  PROVE  BeginPairing \/ WindowMoves
  <1>1. CASE Receive
    <2>1. PICK from \in Peers :
            Unparsable(from) \/ \E d \in InboundDatagrams : OnDatagram(from, d)
      BY <1>1 DEF Receive
    <2>2. CASE Unparsable(from)
      BY <2>2 DEF Unparsable, WindowMoves
    <2>3. ASSUME NEW d \in InboundDatagrams, OnDatagram(from, d)
          PROVE  WindowMoves
      <3>1. CASE Dispatch(from, d)
        BY <3>1 DEF Dispatch, WindowMoves, HandleDiscover, HelloRejected, HandshakeWithSid,
           HelloDuplicate, HelloNoSlot, HelloPadFails, HelloRateRefused, HelloPlain,
           HelloPairing, HelloNoEntropy, UnknownSession, NotFromPeer, HandleInputState,
           HandleKbm, HandlePing, HandlePong, HandleBye, HandleAck, HandleOther
      <3>2. CASE AuthDropped(from, d)
        BY <3>2 DEF AuthDropped, WindowMoves
      <3> QED BY <2>3, <3>1, <3>2 DEF OnDatagram, WindowMoves
    <2> QED BY <2>1, <2>2, <2>3
  <1>2. CASE Tick \/ Elapse \/ CancelPairing \/ \E i \in Slots : SetProfile(i)
    BY <1>2 DEF Tick, Elapse, CancelPairing, SetProfile, WindowMoves
  <1> QED BY <1>1, <1>2 DEF Next

LEMMA WindowNumbers ==
  ASSUME NEW p \in PairingType
  PROVE  /\ p.attempts \in Nat /\ p.generation \in Nat /\ p.remaining \in Nat
         /\ \A q \in {p, PairingClose(p), PairingTick(p), PairingAge(p)} :
              /\ q.attempts \in Nat /\ q.attempts <= p.attempts
              /\ q.remaining \in Nat /\ q.remaining <= p.remaining
              /\ q.generation = p.generation
  <1>1. p.attempts \in Nat /\ p.generation \in Nat /\ p.remaining \in Nat
    BY PairingAssumption DEF PairingType, AttemptCounts, Remainings
  <1>2. PairingClose(p).attempts = 0 /\ PairingClose(p).generation = p.generation
        /\ PairingClose(p).remaining = 0
    BY DEF PairingClose, PairingType
  <1>3. /\ PairingAge(p).attempts = p.attempts /\ PairingAge(p).generation = p.generation
        /\ PairingAge(p).remaining \in Nat /\ PairingAge(p).remaining <= p.remaining
    BY <1>1 DEF PairingAge, PairingType
  <1>4. PairingTick(p) \in {p, PairingClose(p)}
    BY DEF PairingTick
  <1> QED BY <1>1, <1>2, <1>3, <1>4

\* A guess: counted, or the last one, which rotates the secret or closes the
\* window; the deadline never moves up, nor at all when the guess is counted.
LEMMA FailNumbers ==
  ASSUME NEW p \in PairingType, NEW g \in Nat, NEW ok \in BOOLEAN
  PROVE  LET q == PairingFail(p, g, ok)
         IN  /\ q.remaining <= p.remaining
             /\ q.generation \in {p.generation, p.generation + 1}
             /\ ~CountsAgainst(p, g) => q = p
             /\ ok => q.open = p.open
             /\ q.attempts > p.attempts \/ q.generation > p.generation
                  => q.remaining = p.remaining
  <1>1. p.attempts \in Nat /\ p.generation \in Nat /\ p.remaining \in Nat
    BY WindowNumbers
  <1>2. PairingClose(p).attempts = 0 /\ PairingClose(p).generation = p.generation
        /\ PairingClose(p).remaining = 0
    BY DEF PairingClose, PairingType
  <1>3. CASE ~CountsAgainst(p, g)
    BY <1>1, <1>3 DEF PairingFail
  <1>4. CASE CountsAgainst(p, g) /\ ~Exhausted(p)
    <2>1. PairingFail(p, g, ok) = [p EXCEPT !.attempts = p.attempts + 1]
      BY <1>4 DEF PairingFail
    <2> QED BY <1>1, <1>4, <2>1 DEF PairingType
  <1>5. CASE CountsAgainst(p, g) /\ Exhausted(p) /\ ok
    <2> DEFINE n == p.generation + 1
               q == [p EXCEPT !.generation = n, !.attempts = 0]
    <2>1. PairingFail(p, g, ok) = q
      BY <1>5 DEF PairingFail
    <2>2. n \in Nat
      BY <1>1
    <2> HIDE DEF n
    <2>3. q.open = p.open /\ q.remaining = p.remaining /\ q.attempts = 0 /\ q.generation = n
      BY DEF PairingType
    <2>4. /\ PairingFail(p, g, ok).remaining = p.remaining
          /\ PairingFail(p, g, ok).open = p.open
          /\ PairingFail(p, g, ok).attempts = 0
          /\ PairingFail(p, g, ok).generation = p.generation + 1
      BY <2>1, <2>3 DEF n
    <2> HIDE DEF q
    <2>5. PairingFail(p, g, ok).remaining <= p.remaining
      BY <1>1, <2>4
    <2>6. PairingFail(p, g, ok).generation \in {p.generation, p.generation + 1}
      BY <2>4
    <2> QED BY <1>5, <2>4, <2>5, <2>6
  <1>6. CASE CountsAgainst(p, g) /\ Exhausted(p) /\ ~ok
    <2>1. PairingFail(p, g, ok) = PairingClose(p)
      BY <1>6 DEF PairingFail
    <2> QED BY <1>1, <1>2, <1>6, <2>1
  <1> QED BY <1>3, <1>4, <1>5, <1>6

\* What a wrong tag costs.
LEMMA AuthFailedCosts ==
  ASSUME IInv, NEW from \in Peers, NEW d, AuthFailed(from, d)
  PROVE  \E i \in Slots, ok \in RandomOutcomes :
           LET s == sessions[i]
           IN  /\ s.in_use /\ ~sessions'[i].in_use /\ s.pair_generation \in Nat
               /\ pairing' = IF s.auth_required /\ ~s.auth_charged
                               THEN PairingFail(pairing, s.pair_generation, ok) ELSE pairing
  <1>1. PICK i \in Slots, ok \in RandomOutcomes :
          LET s == sessions[i]
          IN  /\ BadTag(i, from, d)
              /\ sessions' = [sessions EXCEPT ![i] = FreeSlot(s)]
              /\ pairing' = IF s.auth_required /\ ~s.auth_charged
                              THEN PairingFail(pairing, s.pair_generation, ok) ELSE pairing
    <2>1. PICK i \in Slots :
            /\ BadTag(i, from, d)
            /\ sessions' = [sessions EXCEPT ![i] = FreeSlot(sessions[i])]
            /\ \E ok \in RandomOutcomes :
                 pairing' = IF sessions[i].auth_required /\ ~sessions[i].auth_charged
                              THEN PairingFail(pairing, sessions[i].pair_generation, ok)
                              ELSE pairing
      BY DEF AuthFailed
    <2> QED BY <2>1
  <1>2. sessions[i] \in SlotType /\ sessions[i].in_use
    BY <1>1, UsedSlot DEF IInv, BadTag, Known
  <1>3. sessions'[i] = FreeSlot(sessions[i])
    BY <1>1 DEF IInv, Table
  <1>4. ~sessions'[i].in_use
    BY <1>2, <1>3, FreeSlotVacant DEF Vacant
  <1> QED BY <1>1, <1>2, <1>4 DEF SlotType

\* Section 10: a counted guess, and a rotation, is paid for with the session it
\* was made in, which was keyed from the current secret and had not paid yet.
THEOREM GuessesAreAlwaysPaid ==
  Spec => GuessesArePaid
  <1>1. ASSUME SInv, Next
        PROVE  GuessPaid
    <2>0. pairing \in PairingType
      BY <1>1 DEF SInv, IInv, Window
    <2>1. CASE BeginPairing
      <3>1. pairing'.attempts = 0
        BY <2>0, <2>1 DEF BeginPairing, PairingOpen, PairingClose, PairingType
      <3> QED BY <2>0, <2>1, <3>1, WindowNumbers DEF GuessPaid
    <2>2. CASE pairing' \in {pairing, PairingClose(pairing), PairingTick(pairing),
                             PairingAge(pairing)}
      BY <2>0, <2>2, WindowNumbers DEF GuessPaid
    <2>3. ASSUME NEW from \in Peers, NEW d \in InboundDatagrams, AuthFailed(from, d)
          PROVE  GuessPaid
      <3>1. PICK i \in Slots, ok \in RandomOutcomes :
              LET s == sessions[i]
              IN  /\ s.in_use /\ ~sessions'[i].in_use /\ s.pair_generation \in Nat
                  /\ pairing' = IF s.auth_required /\ ~s.auth_charged
                                  THEN PairingFail(pairing, s.pair_generation, ok) ELSE pairing
        BY <1>1, <2>3, AuthFailedCosts DEF SInv
      <3>2. CASE pairing' = pairing
        BY <2>0, <3>2, WindowNumbers DEF GuessPaid
      <3>3. CASE pairing' # pairing
        <4>1. /\ sessions[i].auth_required /\ ~sessions[i].auth_charged
              /\ pairing' = PairingFail(pairing, sessions[i].pair_generation, ok)
          BY <3>1, <3>3
        <4>2. CountsAgainst(pairing, sessions[i].pair_generation)
          BY <2>0, <3>1, <3>3, <4>1, FailNumbers, RandomIsBoolean
        <4>3. /\ pairing'.generation \in {pairing.generation, pairing.generation + 1}
              /\ pairing'.attempts > pairing.attempts \/ pairing'.generation > pairing.generation
                   => pairing'.remaining = pairing.remaining
          BY <2>0, <3>1, <4>1, FailNumbers, RandomIsBoolean
        <4> QED BY <2>0, <3>1, <4>1, <4>2, <4>3, WindowNumbers DEF GuessPaid, CountsAgainst
      <3> QED BY <3>2, <3>3
    <2> QED BY <1>1, <2>1, <2>2, <2>3, WindowStep DEF WindowMoves
  <1>2. SInv /\ [Next]_vars => [GuessPaid]_vars
    BY <1>1
  <1> QED BY <1>2, SpecSafe, PTL DEF Spec, GuessesArePaid

-----------------------------------------------------------------------------
(* The window and the handshakes that wait for it.  Both facts need a host   *)
(* whose on_random never fails: without entropy a rotation closes the window *)
(* over its handshakes' heads, as the run MCUnproven shows.                  *)

\* Every secret a live session was keyed from has been drawn, and a handshake
\* that has not proved its secret has an open window.
Unspent ==
  \A i \in Slots :
    LET s == sessions[i]
    IN  s.in_use /\ s.auth_required =>
          /\ s.pair_generation <= pairing.generation
          /\ ~s.auth_verified => pairing.open

WInv == SInv /\ Unspent

LEMMA DroppedProve ==
  ASSUME IInv, sessions' = DropUnproven(sessions), NEW i \in Slots
  PROVE  ~Unproven(sessions'[i])
  <1>1. sessions'[i] = IF Unproven(sessions[i]) THEN FreeSlot(sessions[i]) ELSE sessions[i]
    BY DEF DropUnproven
  <1>2. Vacant(FreeSlot(sessions[i]))
    BY UsedSlot, FreeSlotVacant DEF IInv
  <1> QED BY <1>1, <1>2 DEF Unproven, Vacant

\* A window that closes takes its unproven handshakes with it in the same step.
LEMMA WindowTakesAlong ==
  ASSUME RandomFails = FALSE, SInv, Next, pairing.open, ~pairing'.open, NEW i \in Slots
  PROVE  ~Unproven(sessions'[i])
  <1>0. IInv /\ pairing \in PairingType /\ RandomOutcomes = {TRUE}
    BY DEF SInv, IInv, Window, RandomOutcomes
  <1>1. CASE Tick
    <2>1. PairingExpired(pairing)
      BY <1>1 DEF Tick, PairingTick
    <2>2. /\ SlotInv(i, sessions[i])
          /\ sessions'[i] = Ticked(sessions[i])
      BY <1>0, <1>1, UsedSlot DEF IInv, Tick
    <2>3. CASE Unproven(sessions[i])
      <3>1. Vacant(Ticked(sessions[i]))
        BY <2>1, <2>2, <2>3, TickedSettles DEF ExpiresWith, Unproven
      <3> QED BY <2>2, <3>1 DEF Vacant, Unproven
    <2>4. CASE ~Unproven(sessions[i])
      <3>1. Settles(sessions[i], Ticked(sessions[i]))
        BY <2>2, TickedSettles DEF Settles
      <3> QED BY <2>2, <2>4, <3>1, SettledKeeps DEF Unproven
    <2> QED BY <2>3, <2>4
  <1>2. CASE CancelPairing
    BY <1>0, <1>2, DroppedProve DEF CancelPairing
  <1>3. CASE BeginPairing
    BY <1>0, <1>3, DroppedProve DEF BeginPairing
  <1>4. CASE Elapse \/ \E j \in Slots : SetProfile(j)
    <2>1. pairing' \in {pairing, PairingAge(pairing)}
      BY <1>4 DEF Elapse, SetProfile
    <2> QED BY <1>0, <2>1 DEF PairingAge, PairingType
  <1>5. CASE Receive
    <2>1. PICK from \in Peers :
            Unparsable(from) \/ \E d \in InboundDatagrams : OnDatagram(from, d)
      BY <1>5 DEF Receive
    <2>2. CASE Unparsable(from)
      BY <2>2 DEF Unparsable
    <2>3. ASSUME NEW d \in InboundDatagrams, OnDatagram(from, d)
          PROVE  FALSE
      <3>1. CASE Dispatch(from, d)
        <4>1. pairing' = pairing
          BY <3>1 DEF Dispatch, HandleDiscover, HelloRejected, HandshakeWithSid,
             HelloDuplicate, HelloNoSlot, HelloPadFails, HelloRateRefused, HelloPlain,
             HelloPairing, HelloNoEntropy, UnknownSession, NotFromPeer, HandleInputState,
             HandleKbm, HandlePing, HandlePong, HandleBye, HandleAck, HandleOther
        <4> QED BY <4>1
      <3>2. CASE AuthDropped(from, d)
        BY <3>2 DEF AuthDropped
      <3>3. CASE AuthFailed(from, d)
        <4>1. \E g \in Nat : pairing' \in {pairing, PairingFail(pairing, g, TRUE)}
          BY <1>0, <3>3, AuthFailedCosts
        <4> QED BY <1>0, <4>1, FailNumbers
      <3> QED BY <2>3, <3>1, <3>2, <3>3 DEF OnDatagram
    <2> QED BY <2>1, <2>2, <2>3
  <1> QED BY <1>1, <1>2, <1>3, <1>4, <1>5 DEF Next

\* Secrets are numbered upwards.
LEMMA GenerationsGrow ==
  ASSUME IInv, Next
  PROVE  pairing.generation \in Nat /\ pairing'.generation \in Nat
         /\ pairing.generation <= pairing'.generation
  <1>0. pairing \in PairingType
    BY DEF IInv, Window
  <1>1. CASE BeginPairing
    <2>1. pairing'.generation \in {pairing.generation, pairing.generation + 1}
      BY <1>0, <1>1 DEF BeginPairing, PairingOpen, PairingClose, PairingType
    <2> QED BY <1>0, <2>1, WindowNumbers
  <1>2. CASE pairing' \in {pairing, PairingClose(pairing), PairingTick(pairing),
                           PairingAge(pairing)}
    BY <1>0, <1>2, WindowNumbers
  <1>3. ASSUME NEW from \in Peers, NEW d \in InboundDatagrams, AuthFailed(from, d)
        PROVE  pairing'.generation \in {pairing.generation, pairing.generation + 1}
    <2>1. \E g \in Nat, ok \in BOOLEAN : pairing' \in {pairing, PairingFail(pairing, g, ok)}
      BY <1>3, AuthFailedCosts, RandomIsBoolean
    <2> QED BY <1>0, <2>1, FailNumbers
  <1> QED BY <1>0, <1>1, <1>2, <1>3, WindowStep, WindowNumbers DEF WindowMoves

LEMMA SecretsStep ==
  ASSUME RandomFails = FALSE, WInv, Next
  PROVE  WInv'
  <1>1. SInv' /\ AnyStep /\ IInv
    BY SafeStep DEF WInv, SInv
  <1>2. pairing.generation \in Nat /\ pairing'.generation \in Nat
        /\ pairing.generation <= pairing'.generation
    BY <1>1, GenerationsGrow
  <1>3. ASSUME NEW i \in Slots, sessions'[i].in_use, sessions'[i].auth_required
        PROVE  /\ sessions'[i].pair_generation <= pairing'.generation
               /\ ~sessions'[i].auth_verified => pairing'.open
    <2>1. /\ sessions'[i].pair_generation \in Nat
          /\ sessions'[i].pair_generation <= pairing.generation
          /\ ~sessions'[i].auth_verified => pairing.open
      <3>1. CASE SettlesAll
        <4>1. /\ sessions[i].in_use /\ sessions[i].auth_required
              /\ sessions'[i].pair_generation = sessions[i].pair_generation
              /\ sessions[i].auth_verified => sessions'[i].auth_verified
          BY <1>3, <3>1, SettledKeeps DEF SettlesAll
        <4>2. sessions[i].pair_generation \in Nat
          BY <1>1, UsedSlot DEF IInv, SlotType
        <4> QED BY <4>1, <4>2 DEF WInv, Unspent
      <3>2. CASE OpensOne
        <4>1. PICK j \in Slots :
                /\ Opens(j, sessions'[j])
                /\ \A k \in Slots \ {j} : sessions'[k] = sessions[k]
          BY <3>2 DEF OpensOne, OpensFor
        <4>2. CASE i = j
          BY <1>2, <1>3, <4>1, <4>2 DEF Opens, PairingIsOpen
        <4>3. CASE i # j
          <5>1. sessions[i].pair_generation \in Nat
            BY <1>1, UsedSlot DEF IInv, SlotType
          <5> QED BY <1>3, <4>1, <4>3, <5>1 DEF WInv, Unspent
        <4> QED BY <4>2, <4>3
      <3> QED BY <1>1, <3>1, <3>2 DEF AnyStep
    <2>2. ~sessions'[i].auth_verified /\ pairing.open => pairing'.open
      BY <1>3, WindowTakesAlong DEF WInv, Unproven
    <2> QED BY <1>2, <2>1, <2>2
  <1> QED BY <1>1, <1>3 DEF WInv, Unspent

LEMMA SpecSecrets ==
  ASSUME RandomFails = FALSE
  PROVE  Spec => []WInv
  <1>1. Init => WInv
    <2> SUFFICES ASSUME Init
                 PROVE  WInv
      OBVIOUS
    <2>1. \A i \in Slots : ~sessions[i].in_use
      BY NeverUsedType DEF Init, Vacant
    <2> QED BY <2>1, InitSafe DEF WInv, Unspent
  <1>2. WInv /\ [Next]_vars => WInv'
    <2> SUFFICES ASSUME WInv, [Next]_vars
                 PROVE  WInv'
      OBVIOUS
    <2>1. CASE UNCHANGED vars
      <3>1. SInv'
        BY StepSafe DEF WInv
      <3> QED BY <2>1, <3>1 DEF vars, WInv, Unspent
    <2> QED BY <2>1, SecretsStep
  <1> QED BY <1>1, <1>2, PTL DEF Spec

\* Section 10: while entropy lasts, no handshake outlives the window its secret
\* belongs to, however it ends: by deadline, cancelled, replaced or guessed at.
THEOREM UnprovenAlwaysHasWindow ==
  ASSUME RandomFails = FALSE
  PROVE  Spec => []UnprovenHasWindow
  <1>1. WInv => UnprovenHasWindow
    BY DEF WInv, Unspent, UnprovenHasWindow, Unproven
  <1> QED BY <1>1, SpecSecrets, PTL

\* Only begin_pairing lengthens a window, and it finds no handshake waiting.
THEOREM OnlyTheHostExtends ==
  ASSUME RandomFails = FALSE
  PROVE  Spec => DeadlineIsTheHosts
  <1>1. ASSUME WInv, Next
        PROVE  DeadlineMovedByHost
    <2>0. IInv /\ pairing \in PairingType
      BY <1>1 DEF WInv, SInv, IInv, Window
    <2>1. CASE BeginPairing
      <3>1. ASSUME NEW i \in Slots
            PROVE  ~Unproven(sessions'[i])
        <4>1. CASE pairing.open
          BY <2>0, <2>1, <4>1, DroppedProve DEF BeginPairing
        <4>2. CASE ~pairing.open
          BY <1>1, <2>1, <4>2 DEF BeginPairing, WInv, Unspent, Unproven
        <4> QED BY <4>1, <4>2
      <3> QED BY <2>1, <3>1 DEF DeadlineMovedByHost
    <2>2. CASE pairing' \in {pairing, PairingClose(pairing), PairingTick(pairing),
                             PairingAge(pairing)}
      BY <2>0, <2>2, WindowNumbers DEF DeadlineMovedByHost
    <2>3. ASSUME NEW from \in Peers, NEW d \in InboundDatagrams, AuthFailed(from, d)
          PROVE  DeadlineMovedByHost
      <3>1. \E g \in Nat, ok \in BOOLEAN : pairing' \in {pairing, PairingFail(pairing, g, ok)}
        BY <2>0, <2>3, AuthFailedCosts, RandomIsBoolean
      <3>2. pairing'.remaining <= pairing.remaining /\ pairing.remaining \in Nat
        BY <2>0, <3>1, FailNumbers, WindowNumbers
      <3>3. pairing'.remaining \in Nat
        <4>1. IInv'
          BY <1>1, SafeStep DEF WInv, SInv
        <4> QED BY <4>1, WindowNumbers DEF IInv, Window
      <3> QED BY <3>2, <3>3 DEF DeadlineMovedByHost
    <2> QED BY <1>1, <2>1, <2>2, <2>3, WindowStep DEF WindowMoves
  <1>2. WInv /\ [Next]_vars => [DeadlineMovedByHost]_vars
    BY <1>1
  <1> QED BY <1>2, SpecSecrets, PTL DEF Spec, DeadlineIsTheHosts

-----------------------------------------------------------------------------
(* The peers and one another.                                                *)

\* A step changes at most slot j, of the table as check_auth left it.
ChangesOnly(j, from, d) ==
  /\ \A i \in Slots \ {j} : sessions'[i] \in {sessions[i], Checked(from, d)[i]}
  /\ \A i \in Slots \ {j} : backend'[i] = backend[i]

LEMMA SessionsPut ==
  ASSUME IInv, NEW from, NEW d, NEW j \in Slots, NEW c,
         \/ sessions' = [sessions EXCEPT ![j] = c]
         \/ sessions' = [Checked(from, d) EXCEPT ![j] = c]
  PROVE  \A i \in Slots \ {j} : sessions'[i] \in {sessions[i], Checked(from, d)[i]}
  <1> DEFINE t == Checked(from, d)
  <1>1. t = [i \in Slots |-> t[i]] /\ sessions = [i \in Slots |-> sessions[i]]
    BY DEF Checked, IInv, Table
  <1>2. sessions' = [sessions EXCEPT ![j] = c] \/ sessions' = [t EXCEPT ![j] = c]
    OBVIOUS
  <1> HIDE DEF t
  <1>3. \A i \in Slots \ {j} : sessions'[i] \in {sessions[i], t[i]}
    BY <1>1, <1>2
  <1> QED BY <1>3 DEF t

LEMMA BackendPut ==
  ASSUME IInv, NEW j \in Slots, NEW b,
         \/ backend' = backend
         \/ backend' = [backend EXCEPT ![j] = b]
  PROVE  \A i \in Slots \ {j} : backend'[i] = backend[i]
  BY DEF IInv, Table

\* handle_hello works on a slot of the sender's own, or on a vacant one.
LEMMA HelloChangesOnly ==
  ASSUME IInv, NEW from, NEW d,
         \/ HelloDuplicate(from, d) \/ HelloPadFails(from, d) \/ HelloRateRefused(from, d)
         \/ HelloPlain(from, d) \/ HelloPairing(from, d) \/ HelloNoEntropy(from, d)
  PROVE  \E j \in Slots : /\ sessions[j].in_use => sessions[j].peer = from
                          /\ ChangesOnly(j, from, d)
  <1>1. CASE HelloDuplicate(from, d)
    <2>1. PICK j \in Slots :
            /\ sessions[j].peer = from
            /\ sessions' = [sessions EXCEPT ![j] =
                              [sessions[j] EXCEPT !.core = SessionHeard(sessions[j].core)]]
      BY <1>1 DEF HelloDuplicate
    <2>2. backend' = backend
      BY <1>1 DEF HelloDuplicate
    <2>3. \A i \in Slots \ {j} : sessions'[i] \in {sessions[i], Checked(from, d)[i]}
      BY <2>1, SessionsPut
    <2> QED BY <2>1, <2>2, <2>3 DEF ChangesOnly
  <1>2. ASSUME NEW j \in Slots, Allots(j, from, d), NEW c, NEW b,
               sessions' = [sessions EXCEPT ![j] = c], backend' = [backend EXCEPT ![j] = b]
        PROVE  (sessions[j].in_use => sessions[j].peer = from) /\ ChangesOnly(j, from, d)
    <2>1. \A i \in Slots \ {j} : sessions'[i] \in {sessions[i], Checked(from, d)[i]}
      BY <1>2, SessionsPut
    <2>2. \A i \in Slots \ {j} : backend'[i] = backend[i]
      BY <1>2, BackendPut
    <2> QED BY <1>2, <2>1, <2>2 DEF ChangesOnly, Allots, FreeSlots
  <1>3. CASE \/ HelloPadFails(from, d) \/ HelloRateRefused(from, d) \/ HelloPlain(from, d)
             \/ HelloPairing(from, d) \/ HelloNoEntropy(from, d)
    <2>1. \E j \in Slots : \E c, b :
            /\ Allots(j, from, d)
            /\ sessions' = [sessions EXCEPT ![j] = c]
            /\ backend' = [backend EXCEPT ![j] = b]
      <3>1. CASE HelloPadFails(from, d)
        BY <3>1 DEF HelloPadFails
      <3>2. CASE HelloRateRefused(from, d)
        <4>1. PICK j \in Slots :
                /\ Allots(j, from, d)
                /\ sessions' = [sessions EXCEPT ![j] = FreeSlot(WithPad(sessions[j], from))]
                /\ backend' = [backend EXCEPT ![j] = BackendFree(BackendWithPad(backend[j]), WithPad(sessions[j], from))]
          BY <3>2 DEF HelloRateRefused
        <4> QED BY <4>1
      <3>3. CASE HelloPlain(from, d)
        BY <3>3 DEF HelloPlain
      <3>4. CASE HelloPairing(from, d)
        BY <3>4 DEF HelloPairing
      <3>5. CASE HelloNoEntropy(from, d)
        <4>1. PICK j \in Slots :
                /\ Allots(j, from, d)
                /\ sessions' = [sessions EXCEPT ![j] = FreeSlot(Accepted(sessions[j], j, from))]
                /\ backend' = [backend EXCEPT ![j] = BackendFree(BackendWithPad(backend[j]), Accepted(sessions[j], j, from))]
          BY <3>5 DEF HelloNoEntropy
        <4> QED BY <4>1
      <3> QED BY <1>3, <3>1, <3>2, <3>3, <3>4, <3>5
    <2> QED BY <1>2, <2>1
  <1> QED BY <1>1, <1>3

\* A handler works on the session the datagram reached.
LEMMA HandlerChangesOnly ==
  ASSUME IInv, NEW from, NEW d,
         \/ HandleInputState(from, d) \/ HandleKbm(from, d) \/ HandlePing(from, d)
         \/ HandlePong(from, d) \/ HandleBye(from, d) \/ HandleAck(from, d)
         \/ HandleOther(from, d)
  PROVE  \E j \in Slots : sessions[j].peer = from /\ ChangesOnly(j, from, d)
  <1>1. ASSUME NEW j \in Slots, Reaches(j, from, d), NEW c, NEW b,
               sessions' = [Checked(from, d) EXCEPT ![j] = c],
               \/ backend' = backend
               \/ backend' = [backend EXCEPT ![j] = b]
        PROVE  sessions[j].peer = from /\ ChangesOnly(j, from, d)
    <2>1. \A i \in Slots \ {j} : sessions'[i] \in {sessions[i], Checked(from, d)[i]}
      BY <1>1, SessionsPut
    <2>2. \A i \in Slots \ {j} : backend'[i] = backend[i]
      BY <1>1, BackendPut
    <2> QED BY <1>1, <2>1, <2>2 DEF ChangesOnly, Reaches
  <1>2. CASE HandleKbm(from, d)
    <2>1. PICK j \in Slots :
            /\ Reaches(j, from, d)
            /\ \E c : sessions' = [Checked(from, d) EXCEPT ![j] = c]
            /\ \/ backend' = backend
               \/ \E st, f : backend' = [backend EXCEPT
                               ![j].dev = @ \cup {f},
                               ![j].down[f] = HostAfter(@, st, d.msg, RingDepth[f])]
      BY <1>2 DEF HandleKbm
    <2>2. \E b : backend' = backend \/ backend' = [backend EXCEPT ![j] = b]
      <3>1. ASSUME NEW st, NEW f,
                   backend' = [backend EXCEPT
                               ![j].dev = @ \cup {f},
                               ![j].down[f] = HostAfter(@, st, d.msg, RingDepth[f])]
            PROVE  backend' = [backend EXCEPT ![j] =
                                 KbmDevices(backend[j], st, f, d.msg, RingDepth[f])]
        BY <3>1 DEF KbmDevices, IInv, Table
      <3> QED BY <2>1, <3>1
    <2> QED BY <1>1, <2>1, <2>2
  <1>3. CASE ~HandleKbm(from, d)
    <2>1. \E j \in Slots : \E c, b :
            /\ Reaches(j, from, d)
            /\ sessions' = [Checked(from, d) EXCEPT ![j] = c]
            /\ \/ backend' = backend
               \/ backend' = [backend EXCEPT ![j] = b]
      <3>1. CASE HandleInputState(from, d)
        BY <3>1 DEF HandleInputState
      <3>2. CASE HandlePing(from, d)
        BY <3>2 DEF HandlePing
      <3>3. CASE HandlePong(from, d)
        BY <3>3 DEF HandlePong
      <3>4. CASE HandleBye(from, d)
        BY <3>4 DEF HandleBye
      <3>5. CASE HandleAck(from, d)
        BY <3>5 DEF HandleAck
      <3>6. CASE HandleOther(from, d)
        BY <3>6 DEF HandleOther, Checked
      <3> QED BY <1>3, <3>1, <3>2, <3>3, <3>4, <3>5, <3>6
    <2> QED BY <1>1, <2>1
  <1> QED BY <1>2, <1>3

LEMMA AnyChangesOnly ==
  ASSUME IInv, NEW from, NEW d, OnDatagram(from, d)
  PROVE  \/ \A i \in Slots : /\ sessions'[i] \in {sessions[i], Checked(from, d)[i]}
                             /\ backend'[i] = backend[i]
         \/ \E j \in Slots : /\ sessions[j].in_use => sessions[j].peer = from
                             /\ ChangesOnly(j, from, d)
  <1>1. CASE AuthFailed(from, d)
    <2>1. PICK j \in Slots :
            /\ sessions[j].peer = from
            /\ sessions' = [sessions EXCEPT ![j] = FreeSlot(sessions[j])]
            /\ backend' = [backend EXCEPT ![j] = BackendFree(backend[j], sessions[j])]
      BY <1>1 DEF AuthFailed, BadTag
    <2>2. \A i \in Slots \ {j} : sessions'[i] \in {sessions[i], Checked(from, d)[i]}
      BY <2>1, SessionsPut
    <2>3. \A i \in Slots \ {j} : backend'[i] = backend[i]
      BY <2>1, BackendPut
    <2> QED BY <2>1, <2>2, <2>3 DEF ChangesOnly
  <1>2. CASE AuthDropped(from, d)
    BY <1>2 DEF AuthDropped
  <1>3. CASE \/ HandleDiscover(from, d) \/ HelloRejected(from, d)
             \/ HandshakeWithSid(from, d) \/ HelloNoSlot(from, d)
             \/ UnknownSession(from, d) \/ NotFromPeer(from, d)
    <2>1. sessions' \in {sessions, Checked(from, d)} /\ backend' = backend
      BY <1>3 DEF HandleDiscover, HelloRejected, HandshakeWithSid, HelloNoSlot,
         UnknownSession, NotFromPeer
    <2> QED BY <2>1
  <1>4. CASE \/ HelloDuplicate(from, d) \/ HelloPadFails(from, d) \/ HelloRateRefused(from, d)
             \/ HelloPlain(from, d) \/ HelloPairing(from, d) \/ HelloNoEntropy(from, d)
    BY <1>4, HelloChangesOnly
  <1>5. CASE \/ HandleInputState(from, d) \/ HandleKbm(from, d) \/ HandlePing(from, d)
             \/ HandlePong(from, d) \/ HandleBye(from, d) \/ HandleAck(from, d)
             \/ HandleOther(from, d)
    BY <1>5, HandlerChangesOnly
  <1> QED BY <1>1, <1>2, <1>3, <1>4, <1>5 DEF OnDatagram, Dispatch

\* check_auth and the handlers, for every datagram there is: forged ids, forged
\* tags, another session's tag.  None of them reaches a session of somebody else.
THEOREM PeersStayIsolated ==
  Spec => PeersAreIsolated
  <1>1. ASSUME IInv, NEW i \in Slots, NEW p \in Peers, NEW d \in InboundDatagrams,
               sessions[i].in_use, sessions[i].peer # p, OnDatagram(p, d)
        PROVE  sessions'[i] = sessions[i] /\ backend'[i] = backend[i]
    <2>1. Checked(p, d)[i] = sessions[i]
      BY <1>1 DEF Checked, GoodTag
    <2> QED BY <1>1, <2>1, AnyChangesOnly DEF ChangesOnly
  <1>2. IInv /\ [Next]_vars => [OthersUntouched]_vars
    BY <1>1 DEF OthersUntouched
  <1> QED BY <1>2, SpecInv, PTL DEF Spec, PeersAreIsolated
=============================================================================
