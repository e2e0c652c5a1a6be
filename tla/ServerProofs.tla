----------------------------- MODULE ServerProofs -----------------------------
(***************************************************************************)
(* The server's type invariant, the agreement of the host's devices with    *)
(* the session table, and the proof gate of section 10, for every number of *)
(* slots, peers, nonces and window lengths.                                 *)
(*                                                                         *)
(* All three follow from one inductive invariant, SlotInv of every slot.    *)
(* The first part of the module is about what the server is built from: what*)
(* seq.c's comparisons guarantee for every modulus, and so for the 65536 of *)
(* the code, and what each operation of session.c leaves of an apad_session *)
(* record.  The second says what each thing the handlers do to one slot     *)
(* leaves of SlotInv and of the devices the slot stands for; the third      *)
(* walks through the actions.                                               *)
(***************************************************************************)
EXTENDS Server, TLAPS

-----------------------------------------------------------------------------
(* Sequences and sessions                                                  *)

\* The half of an even modulus, without the division.
LEMMA HalfIsHalf ==
  SeqModulus \in Nat /\ SeqHalf \in Nat /\ SeqHalf > 1 /\ SeqModulus = 2 * SeqHalf
  BY SeqModAssumption DEF SeqHalf

\* seq_newer, lines 21-28: no number is newer than itself, and of two numbers at
\* most one is newer than the other, however often the counter has wrapped.
THEOREM NewerIsStrict ==
  ASSUME NEW a \in Seqs, NEW b \in Seqs
  PROVE  ~SeqNewer(a, a) /\ ~(SeqNewer(a, b) /\ SeqNewer(b, a))
  BY HalfIsHalf DEF Seqs, SeqNewer, SeqDistance

\* The only pairs seq_newer leaves undecided are equal numbers and numbers half
\* the range apart, the two cases its comment names.
THEOREM NewerDecides ==
  ASSUME NEW a \in Seqs, NEW b \in Seqs, ~SeqNewer(a, b), ~SeqNewer(b, a)
  PROVE  a = b \/ a - b = SeqHalf \/ b - a = SeqHalf
  BY HalfIsHalf DEF Seqs, SeqNewer, SeqDistance

\* The next header sequence is always newer than the one before it.
THEOREM NextIsNewer ==
  ASSUME NEW a \in Seqs
  PROVE  SeqNext(a) \in Seqs /\ SeqNewer(SeqNext(a), a)
  BY HalfIsHalf DEF Seqs, SeqNext, SeqNewer, SeqDistance

\* seq_diff, lines 30-37: the signed distance fits an int16_t and its sign is
\* what seq_newer says.
THEOREM DiffIsSigned ==
  ASSUME NEW a \in Seqs, NEW b \in Seqs
  PROVE  /\ SeqDiff(a, b) \in (-SeqHalf) .. (SeqHalf - 1)
         /\ SeqDiff(a, b) > 0 <=> SeqNewer(a, b)
  BY HalfIsHalf DEF Seqs, SeqDiff, SeqNewer, SeqDistance

\* event_ring_new, lines 56-82: the number of trailing slots to replay never
\* leaves the ring, and is the whole ring whenever events were lost.
THEOREM RingNewFits ==
  ASSUME NEW e \in Seqs, NEW l \in Seqs, NEW depth \in Nat
  PROVE  /\ EventRingNew(e, l, depth) \in 0 .. depth
         /\ EventRingOverflow(e, l, depth) => EventRingNew(e, l, depth) = depth
  BY HalfIsHalf, DiffIsSigned DEF EventRingNew, EventRingOverflow

-----------------------------------------------------------------------------
LEMMA DelaysAreNat ==
  /\ RetxCount \in Nat \ {0}
  /\ \A k \in 1 .. RetxCount : RetxDelays[k] \in Nat
  BY SessionAssumption DEF RetxCount

\* The values every operation puts into a field belong to it.
LEMMA Ranges ==
  /\ 0 \in Idles /\ 0 \in TxAges /\ 0 \in Seqs /\ 0 \in Attempts
  /\ NoSeq \in Windows /\ Seqs \subseteq Windows
  /\ NoKey \in SessionKeys /\ Keys \subseteq SessionKeys
  /\ "NONE" \in RetxTypes /\ ReliableTypes \subseteq RetxTypes
  BY SessionAssumption, SeqModAssumption, DelaysAreNat
  DEF Idles, TxAges, Seqs, Attempts, Windows, SessionKeys, RetxTypes

LEMMA NoWindows ==
  [c \in KbmClasses |-> NoSeq] \in KbmWindows
  BY Ranges DEF KbmWindows

LEMMA NoRetxType ==
  NoRetx \in RetxType
  BY Ranges DEF NoRetx, RetxType

\* apad_session_init.
LEMMA InitType ==
  ASSUME NEW b \in BOOLEAN
  PROVE  SessionInit(b) \in SessionType
  BY Ranges, NoWindows, NoRetxType DEF SessionInit, SessionType, States, CloseReasons

\* apad_session_close: the key goes, and nothing is left to retransmit.
LEMMA CloseType ==
  ASSUME NEW s \in SessionType, NEW r \in CloseReasons
  PROVE  SessionClose(s, r) \in SessionType
  BY Ranges, NoRetxType DEF SessionClose, SessionType, States

LEMMA SetKeyType ==
  ASSUME NEW s \in SessionType, NEW k \in Keys
  PROVE  SessionSetKey(s, k) \in SessionType
  BY Ranges DEF SessionSetKey, SessionType

LEMMA AcceptType ==
  ASSUME NEW s \in SessionType, NEW id \in Nat
  PROVE  SessionServerAccept(s, id) \in SessionType
  BY Ranges, NoWindows DEF SessionServerAccept, SessionType, States

\* A reliable message takes over the retransmit slot and moves no server's state.
LEMMA SentType ==
  ASSUME NEW s \in SessionType, s.is_server, NEW t \in ReliableTypes, NEW q \in Seqs
  PROVE  SessionOnSent(s, t, q) \in SessionType
  <1> DEFINE r == [armed |-> TRUE, type |-> t, seq |-> q, attempt |-> 0,
                   due |-> RetxDelays[1]]
  <1>1. r \in RetxType
    BY Ranges, DelaysAreNat DEF RetxType
  <1>2. SessionOnSent(s, t, q) = [s EXCEPT !.state = s.state, !.tx_age = 0, !.retx = r]
    BY DEF SessionOnSent
  <1> QED BY <1>1, <1>2, Ranges DEF SessionType

LEMMA SentKeeps ==
  ASSUME NEW s \in SessionType, NEW t, NEW q
  PROVE  LET x == SessionOnSent(s, t, q)
         IN  /\ x.session_id = s.session_id /\ x.key = s.key
             /\ x.rx_input = s.rx_input /\ x.rx_kbm = s.rx_kbm
  BY DEF SessionOnSent, SessionType

\* Receiving: only WELCOME names a session, only HELLO and BYE move its state.
LEMMA HeardType ==
  ASSUME NEW s \in SessionType
  PROVE  SessionHeard(s) \in SessionType
  BY Ranges DEF SessionHeard, SessionType

LEMMA InputType ==
  ASSUME NEW s \in SessionType, NEW q \in Seqs
  PROVE  OnRecvInput(s, q) \in SessionType
  BY Ranges DEF OnRecvInput, SessionHeard, SessionType

LEMMA KbmWindowType ==
  ASSUME NEW s \in SessionType, NEW c \in KbmClasses, NEW q \in Seqs
  PROVE  OnRecvKbm(s, c, q) \in SessionType
  <1>1. [s.rx_kbm EXCEPT ![c] = q] \in KbmWindows
    BY Ranges DEF KbmWindows, SessionType
  <1>2. OnRecvKbm(s, c, q) \in {[s EXCEPT !.idle = 0, !.rx_kbm = [s.rx_kbm EXCEPT ![c] = q]],
                                [s EXCEPT !.idle = 0]}
    BY DEF OnRecvKbm, SessionHeard, SessionType
  <1> QED BY <1>1, <1>2, Ranges DEF SessionType

LEMMA HelloType ==
  ASSUME NEW s \in SessionType
  PROVE  OnRecvHello(s) \in SessionType
  BY Ranges DEF OnRecvHello, SessionType, States

LEMMA AckType ==
  ASSUME NEW s \in SessionType, NEW q
  PROVE  OnRecvAck(s, q) \in SessionType
  BY Ranges, NoRetxType DEF OnRecvAck, SessionType

\* A tick retransmits, closes, or leaves the session alone, and counts at most
\* RetxCount retransmits.
LEMMA TickType ==
  ASSUME NEW s \in SessionType
  PROVE  SessionTick(s) \in SessionType
  <1>1. CASE TickAct(s) = "TIMEOUT"
    BY <1>1, CloseType DEF SessionTick, CloseReasons
  <1>2. CASE TickAct(s) = "RETRANSMIT"
    <2> DEFINE n == s.retx.attempt + 1
    <2>1. s.retx.attempt < RetxCount
      BY <1>2 DEF TickAct, RetxDue
    <2>2. s.retx.attempt \in 0 .. RetxCount
      BY DEF SessionType, RetxType, Attempts
    <2>3. n \in 1 .. RetxCount
      BY <2>1, <2>2, DelaysAreNat
    <2>4. DelayAfter(n) \in Nat
      BY <2>3, DelaysAreNat DEF DelayAfter
    <2>5. n \in Attempts
      BY <2>3, DelaysAreNat DEF Attempts
    <2> HIDE DEF n
    <2> DEFINE r == [s.retx EXCEPT !.attempt = n, !.due = DelayAfter(n)]
    <2>6. r \in RetxType
      BY <2>4, <2>5 DEF SessionType, RetxType
    <2>7. SessionTick(s) = [s EXCEPT !.retx = r]
      BY <1>2 DEF SessionTick, n, SessionType, RetxType
    <2> QED BY <2>6, <2>7 DEF SessionType
  <1>3. CASE TickAct(s) \notin {"TIMEOUT", "RETRANSMIT"}
    BY <1>3 DEF SessionTick
  <1> QED BY <1>1, <1>2, <1>3

LEMMA AgeType ==
  ASSUME NEW s \in SessionType
  PROVE  SessionAge(s) \in SessionType
  <1> DEFINE r == [s.retx EXCEPT !.due = CountDown(s.retx.due)]
  <1>1. r \in RetxType
    BY DEF SessionType, RetxType, CountDown
  <1>2. Saturate(s.idle + 1, IdleTimeout) \in Idles
    BY SessionAssumption DEF SessionType, Idles, Saturate
  <1>3. Saturate(s.tx_age + 1, Keepalive) \in TxAges
    BY SessionAssumption DEF SessionType, TxAges, Saturate
  <1>4. s.state # "CLOSED" =>
          SessionAge(s) = [s EXCEPT !.idle = Saturate(s.idle + 1, IdleTimeout),
                                    !.tx_age = Saturate(s.tx_age + 1, Keepalive),
                                    !.retx = r]
    BY DEF SessionAge, SessionType
  <1> QED BY <1>1, <1>2, <1>3, <1>4 DEF SessionAge, SessionType

\* No server-side operation but the two accept functions renames a session or
\* touches its receive windows.
LEMMA HeardKeeps ==
  ASSUME NEW s \in SessionType, NEW q
  PROVE  \A x \in {SessionHeard(s), OnRecvAck(s, q), SessionAge(s)} :
           /\ x.session_id = s.session_id /\ x.key = s.key
           /\ x.rx_input = s.rx_input /\ x.rx_kbm = s.rx_kbm
  <1>1. LET x == SessionHeard(s)
        IN  x.session_id = s.session_id /\ x.key = s.key
            /\ x.rx_input = s.rx_input /\ x.rx_kbm = s.rx_kbm
    BY DEF SessionHeard, SessionType
  <1>2. LET x == OnRecvAck(s, q)
        IN  x.session_id = s.session_id /\ x.key = s.key
            /\ x.rx_input = s.rx_input /\ x.rx_kbm = s.rx_kbm
    BY DEF OnRecvAck, SessionType
  <1>3. LET x == SessionAge(s)
        IN  x.session_id = s.session_id /\ x.key = s.key
            /\ x.rx_input = s.rx_input /\ x.rx_kbm = s.rx_kbm
    BY DEF SessionAge, SessionType
  <1> QED BY <1>1, <1>2, <1>3

LEMMA InputKeepsId ==
  ASSUME NEW s \in SessionType, NEW q
  PROVE  OnRecvInput(s, q).session_id = s.session_id
  BY DEF OnRecvInput, SessionHeard, SessionType

LEMMA KbmKeepsId ==
  ASSUME NEW s \in SessionType, NEW c, NEW q
  PROVE  OnRecvKbm(s, c, q).session_id = s.session_id
  BY DEF OnRecvKbm, SessionHeard, SessionType

LEMMA TickKeeps ==
  ASSUME NEW s \in SessionType, TickAct(s) # "TIMEOUT"
  PROVE  LET x == SessionTick(s)
         IN  /\ x.session_id = s.session_id /\ x.key = s.key
             /\ x.rx_input = s.rx_input /\ x.rx_kbm = s.rx_kbm
  <1>1. CASE TickAct(s) = "RETRANSMIT"
    BY <1>1 DEF SessionTick, SessionType
  <1>2. CASE TickAct(s) # "RETRANSMIT"
    BY <1>2 DEF SessionTick
  <1> QED BY <1>1, <1>2

-----------------------------------------------------------------------------
(* One slot                                                                *)

\* No shadow without a device: what a claim or a first datagram relies on.
ShadowsHaveDevices(s) ==
  \A f \in Facilities : ~s.kbm[f].created => s.kbm[f].shadow = {}

\* A slot in use is addressable; a free one holds nothing its next occupant
\* is not given afresh.
SlotInv(i, s) ==
  /\ s \in SlotType
  /\ ShadowsHaveDevices(s)
  /\ s.in_use => s.core.session_id = i + 1 /\ s.peer \in Peers /\ s.welcome \in WelcomeType
  /\ ~s.in_use => /\ ~s.pad_created /\ ~s.have_last_input /\ ~s.inputcaps.can_arm
                  /\ \A f \in Facilities : ~s.kbm[f].created
  /\ Unproven(s) => Untouched(s)

\* A session table whose slots are in order, and the devices it stands for.
Table(t, b) ==
  /\ t \in [Slots -> SlotType]
  /\ \A i \in Slots : SlotInv(i, t[i])
  /\ b = [i \in Slots |-> DevicesOf(t[i])]

\* A generation never passes the bound, so every pairing has a key to give.
Window(p) == p \in PairingType /\ p.generation <= MaxGeneration

Addressed(msgs) == \A m \in msgs : m.to \in Peers

IInv == Table(sessions, backend) /\ Window(pairing) /\ Addressed(sent)

-----------------------------------------------------------------------------
(* Ranges.                                                                   *)

LEMMA SlotRanges ==
  /\ 0 \in PingAges /\ 0 \in KbmAges /\ {} \in Held
  /\ NoPeer \in PeerOrNone /\ Peers \subseteq PeerOrNone
  /\ NoWelcome \in Welcomes /\ WelcomeType \subseteq Welcomes
  BY ServerAssumption, KbmAssumption
  DEF PingAges, KbmAges, Held, PeerOrNone, Welcomes

LEMMA DeliveryRanges ==
  /\ 0 \in Repeats /\ BurstCopies \in Repeats /\ 0 \in Waits /\ BurstGap \in Waits
  /\ NeverSent \in Sinces /\ 0 \in Sinces
  BY DeliveryAssumption DEF Repeats, Waits, Sinces, NeverSent

LEMMA InitialTypes ==
  TouchInit \in TouchType /\ CapsInit \in CapsType /\ KbmInit \in KbmType
  BY SlotRanges, DeliveryRanges, Ranges
  DEF TouchInit, TouchType, CapsInit, CapsType, KbmInit, KbmType

LEMMA KbmInits ==
  [f \in Facilities |-> KbmInit] \in KbmStates
  BY InitialTypes DEF KbmStates

LEMMA SlotsAreNat ==
  \A i \in Slots : i + 1 \in 1 .. NSlots /\ i + 1 \in Nat
  BY ServerAssumption DEF Slots

-----------------------------------------------------------------------------
(* free_session.                                                             *)

LEMMA DevicesOfNone ==
  ASSUME NEW s \in SlotType, ~s.pad_created, \A f \in Facilities : ~s.kbm[f].created
  PROVE  DevicesOf(s) = NoDevices
  <1>1. s.pad_created = FALSE
    BY DEF SlotType
  <1>2. {f \in Facilities : s.kbm[f].created} = {}
    OBVIOUS
  <1>3. [f \in Facilities |-> IF s.kbm[f].created THEN s.kbm[f].shadow ELSE {}]
          = [f \in Facilities |-> {}]
    OBVIOUS
  <1> QED BY <1>1, <1>2, <1>3 DEF DevicesOf, NoDevices

\* Teardown leaves a free slot and no device, whatever the slot held.
LEMMA FreeSlotInv ==
  ASSUME NEW i \in Slots, NEW s \in SlotType, ShadowsHaveDevices(s)
  PROVE  /\ SlotInv(i, FreeSlot(s))
         /\ ~FreeSlot(s).in_use
         /\ BackendFree(DevicesOf(s), s) = DevicesOf(FreeSlot(s))
  <1> DEFINE k == [f \in Facilities |-> ReleaseAll(s.kbm[f])]
  <1>1. /\ k \in KbmStates
        /\ \A f \in Facilities : ~k[f].created /\ k[f].shadow = {}
    BY SlotRanges DEF ReleaseAll, Released, SlotType, KbmStates, KbmType, ShadowsHaveDevices
  <1>2. SessionClose(s.core, "LOCAL") \in SessionType
    BY CloseType DEF SlotType, CloseReasons
  <1> HIDE DEF k
  <1>3. /\ FreeSlot(s) \in SlotType
        /\ FreeSlot(s).kbm = k
        /\ ~FreeSlot(s).in_use /\ ~FreeSlot(s).pad_created /\ ~FreeSlot(s).have_last_input
        /\ FreeSlot(s).inputcaps = CapsInit
    BY <1>1, <1>2, SlotRanges, InitialTypes DEF FreeSlot, SlotType, k
  <1>4. SlotInv(i, FreeSlot(s))
    BY <1>1, <1>3 DEF SlotInv, Unproven, ShadowsHaveDevices, CapsInit
  <1>5. BackendFree(DevicesOf(s), s) = DevicesOf(FreeSlot(s))
    <2>1. DevicesOf(FreeSlot(s)) = NoDevices
      BY <1>1, <1>3, DevicesOfNone
    <2>2. BackendFree(DevicesOf(s), s).pad = FALSE
      BY DEF BackendFree, DevicesOf, SlotType
    <2>3. BackendFree(DevicesOf(s), s).dev = {}
      BY DEF BackendFree, DevicesOf
    <2>4. BackendFree(DevicesOf(s), s).down = [f \in Facilities |-> {}]
      BY DEF BackendFree, DevicesOf, HostReleased
    <2> QED BY <2>1, <2>2, <2>3, <2>4 DEF BackendFree, NoDevices
  <1> QED BY <1>3, <1>4, <1>5

-----------------------------------------------------------------------------
(* handle_hello's claim of a free slot, step by step.                        *)

\* A claimed slot belongs to its peer, has no key, and is untouched.
LEMMA ClaimSlotInv ==
  ASSUME NEW i \in Slots, NEW s, SlotInv(i, s), ~s.in_use, NEW p \in Peers
  PROVE  LET c == ClaimSlot(s, p)
         IN  /\ c \in SlotType
             /\ ShadowsHaveDevices(c)
             /\ c.in_use /\ c.peer = p /\ ~c.pad_created /\ c.core.is_server
             /\ c.core.key = NoKey
             /\ Untouched(c)
             /\ DevicesOf(c) = DevicesOf(s)
  <1> DEFINE c == ClaimSlot(s, p)
             h == OnRecvHello(SessionInit(TRUE))
             k == [f \in Facilities |-> KbmInit]
  <1>1. /\ h \in SessionType /\ h.is_server /\ h.key = NoKey /\ h.rx_input = NoSeq
        /\ \A f \in Facilities : h.rx_kbm[f] = NoSeq
    BY InitType, HelloType, ServerAssumption DEF OnRecvHello, SessionInit
  <1>2. k \in KbmStates /\ \A f \in Facilities : ~k[f].created /\ k[f].shadow = {}
    BY KbmInits DEF KbmInit
  <1>3. /\ s \in SlotType /\ ~s.pad_created /\ ~s.have_last_input /\ ~s.inputcaps.can_arm
        /\ \A f \in Facilities : ~s.kbm[f].created
    BY DEF SlotInv
  <1> HIDE DEF h, k
  <1>4. /\ c \in SlotType /\ c.core = h /\ c.kbm = k /\ c.in_use /\ c.peer = p
        /\ ~c.pad_created /\ ~c.have_last_input /\ c.inputcaps = s.inputcaps
    BY <1>1, <1>2, <1>3, SlotRanges DEF ClaimSlot, SlotType, h, k
  <1>5. DevicesOf(c) = NoDevices /\ DevicesOf(s) = NoDevices
    BY <1>2, <1>3, <1>4, DevicesOfNone
  <1> HIDE DEF c
  <1>6. ShadowsHaveDevices(c) /\ Untouched(c)
    BY <1>1, <1>2, <1>3, <1>4 DEF ShadowsHaveDevices, Untouched
  <1> QED BY <1>1, <1>4, <1>5, <1>6 DEF c

\* The same slot with its pad, and accepted under its id.
LEMMA WithPadInv ==
  ASSUME NEW i \in Slots, NEW s, SlotInv(i, s), ~s.in_use, NEW p \in Peers
  PROVE  LET c == WithPad(s, p)
         IN  /\ c \in SlotType
             /\ ShadowsHaveDevices(c)
             /\ c.in_use /\ c.peer = p /\ c.core.is_server /\ c.core.key = NoKey
             /\ Untouched(c)
             /\ DevicesOf(c) = BackendWithPad(DevicesOf(s))
  <1> DEFINE b == ClaimSlot(s, p)
             c == WithPad(s, p)
  <1>1. /\ b \in SlotType /\ ShadowsHaveDevices(b) /\ b.in_use /\ b.peer = p
        /\ b.core.is_server /\ b.core.key = NoKey /\ Untouched(b)
        /\ DevicesOf(b) = DevicesOf(s)
    BY ClaimSlotInv
  <1>2. c = [b EXCEPT !.pad_created = TRUE]
    BY DEF WithPad
  <1> HIDE DEF b, c
  <1>3. /\ c \in SlotType /\ c.pad_created = TRUE /\ c.kbm = b.kbm /\ c.core = b.core
        /\ c.in_use = b.in_use /\ c.peer = b.peer
        /\ c.have_last_input = b.have_last_input /\ c.inputcaps = b.inputcaps
    BY <1>1, <1>2 DEF SlotType
  <1>4. DevicesOf(c) = BackendWithPad(DevicesOf(b))
    <2>1. DevicesOf(c) = [pad |-> TRUE, dev |-> DevicesOf(b).dev, down |-> DevicesOf(b).down]
      BY <1>3 DEF DevicesOf
    <2>2. DevicesOf(b) = [pad |-> b.pad_created, dev |-> DevicesOf(b).dev,
                          down |-> DevicesOf(b).down]
      BY DEF DevicesOf
    <2>3. BackendWithPad(DevicesOf(b)) = [DevicesOf(b) EXCEPT !.pad = TRUE]
      BY DEF BackendWithPad
    <2> QED BY <2>1, <2>2, <2>3
  <1> QED BY <1>1, <1>3, <1>4 DEF ShadowsHaveDevices, Untouched, c

LEMMA AcceptedInv ==
  ASSUME NEW i \in Slots, NEW s, SlotInv(i, s), ~s.in_use, NEW p \in Peers
  PROVE  LET c == Accepted(s, i, p)
         IN  /\ c \in SlotType
             /\ ShadowsHaveDevices(c)
             /\ c.in_use /\ c.peer = p /\ c.core.is_server /\ c.core.key = NoKey
             /\ c.core.session_id = i + 1
             /\ Untouched(c)
             /\ DevicesOf(c) = BackendWithPad(DevicesOf(s))
  <1> DEFINE b == WithPad(s, p)
             c == Accepted(s, i, p)
             a == SessionServerAccept(b.core, i + 1)
  <1>1. /\ b \in SlotType /\ ShadowsHaveDevices(b) /\ b.in_use /\ b.peer = p
        /\ b.core.is_server /\ b.core.key = NoKey /\ Untouched(b)
        /\ DevicesOf(b) = BackendWithPad(DevicesOf(s))
    BY WithPadInv
  <1>2. c = [b EXCEPT !.core = a]
    BY DEF Accepted
  <1> HIDE DEF b, c
  <1>3. b.core \in SessionType
    BY <1>1 DEF SlotType
  <1>4. /\ a \in SessionType /\ a.is_server /\ a.key = NoKey /\ a.session_id = i + 1
        /\ a.rx_input = NoSeq /\ \A f \in Facilities : a.rx_kbm[f] = NoSeq
    <2>1. a \in SessionType
      BY <1>3, SlotsAreNat, AcceptType
    <2>2. /\ a.is_server = b.core.is_server /\ a.key = b.core.key /\ a.session_id = i + 1
          /\ a.rx_input = NoSeq /\ a.rx_kbm = [f \in KbmClasses |-> NoSeq]
      BY <1>3 DEF SessionServerAccept, SessionType
    <2> QED BY <1>1, <2>1, <2>2, ServerAssumption
  <1> HIDE DEF a
  <1>5. /\ c \in SlotType /\ c.core = a /\ c.kbm = b.kbm /\ c.pad_created = b.pad_created
        /\ c.in_use = b.in_use /\ c.peer = b.peer
        /\ c.have_last_input = b.have_last_input /\ c.inputcaps = b.inputcaps
    BY <1>1, <1>2, <1>4 DEF SlotType
  <1>6. DevicesOf(c) = DevicesOf(b)
    BY <1>5 DEF DevicesOf
  <1> QED BY <1>1, <1>4, <1>5, <1>6 DEF ShadowsHaveDevices, Untouched, c

-----------------------------------------------------------------------------
(* WELCOME and the key.                                                      *)

LEMMA WelcomedInv ==
  ASSUME NEW i \in Slots, NEW s, SlotInv(i, s), ~s.in_use, NEW p \in Peers,
         NEW auth \in BOOLEAN, NEW nonce \in Nonces \cup {NoNonce}
  PROVE  LET c == Welcomed(Accepted(s, i, p), auth, nonce)
         IN  /\ SlotInv(i, c)
             /\ c.in_use /\ Untouched(c)
             /\ c.welcome.to = p
             /\ DevicesOf(c) = BackendWithPad(DevicesOf(s))
  <1> DEFINE b == Accepted(s, i, p)
             c == Welcomed(b, auth, nonce)
             w == WelcomeMsg(b, auth, nonce)
             x == SessionOnSent(b.core, "WELCOME", WelcomeSeq)
  <1>1. /\ b \in SlotType /\ ShadowsHaveDevices(b) /\ b.in_use /\ b.peer = p
        /\ b.core.is_server /\ b.core.key = NoKey /\ b.core.session_id = i + 1
        /\ Untouched(b) /\ DevicesOf(b) = BackendWithPad(DevicesOf(s))
    BY AcceptedInv
  <1>2. c = [b EXCEPT !.welcome = w, !.core = x]
    BY DEF Welcomed
  <1>3. w \in WelcomeType /\ w.to = p
    BY <1>1, SlotsAreNat DEF WelcomeMsg, WelcomeType, HeaderTag
  <1> HIDE DEF b, c, w
  <1>4. b.core \in SessionType
    BY <1>1 DEF SlotType
  <1>5. /\ x \in SessionType /\ x.session_id = b.core.session_id
        /\ x.rx_input = b.core.rx_input /\ x.rx_kbm = b.core.rx_kbm
    <2>1. "WELCOME" \in ReliableTypes /\ WelcomeSeq \in Seqs
      BY Ranges DEF ReliableTypes, WelcomeSeq
    <2> QED BY <1>1, <1>4, <2>1, SentType, SentKeeps
  <1> HIDE DEF x
  <1>6. /\ c \in SlotType /\ c.core = x /\ c.welcome = w /\ c.kbm = b.kbm
        /\ c.pad_created = b.pad_created /\ c.in_use = b.in_use /\ c.peer = b.peer
        /\ c.have_last_input = b.have_last_input /\ c.inputcaps = b.inputcaps
    BY <1>1, <1>2, <1>3, <1>5, SlotRanges DEF SlotType
  <1>7. DevicesOf(c) = DevicesOf(b)
    BY <1>6 DEF DevicesOf
  <1>8. ShadowsHaveDevices(c) /\ Untouched(c)
    BY <1>1, <1>5, <1>6 DEF ShadowsHaveDevices, Untouched
  <1>9. SlotInv(i, c)
    BY <1>1, <1>3, <1>5, <1>6, <1>8 DEF SlotInv
  <1> QED BY <1>1, <1>3, <1>6, <1>7, <1>8, <1>9 DEF c, b

LEMMA KeyedInv ==
  ASSUME NEW i \in Slots, NEW s, SlotInv(i, s), s.in_use, Untouched(s),
         NEW g \in 0 .. MaxGeneration, NEW nonce \in Nonces
  PROVE  LET c == Keyed(s, g, nonce)
         IN  SlotInv(i, c) /\ DevicesOf(c) = DevicesOf(s)
  <1> DEFINE c == Keyed(s, g, nonce)
             x == SessionSetKey(s.core, Key(g, nonce))
  <1>1. s \in SlotType /\ s.core \in SessionType /\ g \in Nat
    BY ServerAssumption DEF SlotInv, SlotType
  <1>2. Key(g, nonce) \in Keys
    BY ServerAssumption
  <1>3. x \in SessionType
    BY <1>1, <1>2, SetKeyType
  <1>4. /\ x.session_id = s.core.session_id
        /\ x.rx_input = s.core.rx_input /\ x.rx_kbm = s.core.rx_kbm
    BY <1>1 DEF SessionSetKey, SessionType
  <1> HIDE DEF x
  <1>5. /\ c \in SlotType /\ c.core = x /\ c.welcome = s.welcome /\ c.kbm = s.kbm
        /\ c.pad_created = s.pad_created /\ c.in_use = s.in_use /\ c.peer = s.peer
        /\ c.have_last_input = s.have_last_input /\ c.inputcaps = s.inputcaps
    BY <1>1, <1>3 DEF Keyed, SlotType, x
  <1> HIDE DEF c
  <1>6. ShadowsHaveDevices(c) /\ Untouched(c)
    BY <1>4, <1>5 DEF SlotInv, ShadowsHaveDevices, Untouched
  <1>7. SlotInv(i, c)
    BY <1>4, <1>5, <1>6 DEF SlotInv
  <1>8. DevicesOf(c) = DevicesOf(s)
    BY <1>5 DEF DevicesOf
  <1> QED BY <1>7, <1>8 DEF c

-----------------------------------------------------------------------------
(* check_auth and the handlers of a live session.                            *)

LEMMA CapsArmType ==
  ASSUME NEW c \in CapsType
  PROVE  CapsArm(c) \in CapsType /\ CapsRearm(c) \in CapsType
         /\ CapsRearm(c).can_arm = c.can_arm
  BY DEF CapsArm, CapsRearm, CapsType

\* A verifying tag proves the secret, so it may offer INPUTCAPS.
LEMMA VerifiedInv ==
  ASSUME NEW i \in Slots, NEW s, SlotInv(i, s), s.in_use
  PROVE  LET c == Verified(s)
         IN  /\ SlotInv(i, c) /\ c.auth_verified
             /\ c.in_use = s.in_use /\ c.peer = s.peer /\ c.core = s.core
             /\ c.auth_required = s.auth_required
             /\ DevicesOf(c) = DevicesOf(s)
  <1> DEFINE c == Verified(s)
             caps == IF ~s.auth_verified /\ KbmFeatures # {}
                       THEN CapsArm(s.inputcaps) ELSE s.inputcaps
  <1>1. s \in SlotType /\ s.inputcaps \in CapsType
    BY DEF SlotInv, SlotType
  <1>2. caps \in CapsType
    BY <1>1, CapsArmType
  <1>3. c = [s EXCEPT !.auth_verified = TRUE, !.inputcaps = caps]
    BY <1>1 DEF Verified, SlotType
  <1> HIDE DEF caps, c
  <1>4. /\ c \in SlotType /\ c.auth_verified = TRUE /\ c.core = s.core
        /\ c.welcome = s.welcome /\ c.kbm = s.kbm /\ c.pad_created = s.pad_created
        /\ c.in_use = s.in_use /\ c.peer = s.peer /\ c.auth_required = s.auth_required
    BY <1>1, <1>2, <1>3 DEF SlotType
  <1>5. SlotInv(i, c)
    BY <1>4 DEF SlotInv, ShadowsHaveDevices, Unproven
  <1>6. DevicesOf(c) = DevicesOf(s)
    BY <1>4 DEF DevicesOf
  <1> QED BY <1>4, <1>5, <1>6 DEF c

-----------------------------------------------------------------------------
(* Changing slots of a table.                                                *)

\* What a handler may do to a live session without touching its devices.
LEMMA KeptInv ==
  ASSUME NEW i \in Slots, NEW s, SlotInv(i, s), s.in_use,
         NEW c \in SlotType, c.in_use = s.in_use, c.peer = s.peer,
         c.welcome = s.welcome, c.pad_created = s.pad_created, c.kbm = s.kbm,
         c.core.session_id = s.core.session_id, Unproven(c) => Untouched(c)
  PROVE  SlotInv(i, c) /\ DevicesOf(c) = DevicesOf(s)
  <1>1. SlotInv(i, c)
    BY DEF SlotInv, ShadowsHaveDevices
  <1>2. DevicesOf(c) = DevicesOf(s)
    BY DEF DevicesOf
  <1> QED BY <1>1, <1>2

\* A sign of life: only timers and the retransmit slot move.
LEMMA CoreInv ==
  ASSUME NEW i \in Slots, NEW s, SlotInv(i, s), s.in_use,
         NEW x \in SessionType, x.session_id = s.core.session_id,
         x.rx_input = s.core.rx_input, x.rx_kbm = s.core.rx_kbm
  PROVE  LET c == [s EXCEPT !.core = x]
         IN  SlotInv(i, c) /\ DevicesOf(c) = DevicesOf(s)
  <1> DEFINE c == [s EXCEPT !.core = x]
  <1>1. /\ c \in SlotType /\ c.core = x /\ c.in_use = s.in_use /\ c.peer = s.peer
        /\ c.welcome = s.welcome /\ c.pad_created = s.pad_created /\ c.kbm = s.kbm
        /\ c.auth_required = s.auth_required /\ c.auth_verified = s.auth_verified
        /\ c.have_last_input = s.have_last_input /\ c.inputcaps = s.inputcaps
    BY DEF SlotInv, SlotType
  <1> HIDE DEF c
  <1>2. Unproven(c) => Untouched(c)
    BY <1>1 DEF SlotInv, Unproven, Untouched
  <1>3. SlotInv(i, c) /\ DevicesOf(c) = DevicesOf(s)
    BY <1>1, <1>2, KeptInv
  <1> QED BY <1>3 DEF c

\* One slot of the table changes, and its devices with it.
LEMMA PutInv ==
  ASSUME NEW t, NEW b, Table(t, b), NEW i \in Slots, NEW s, SlotInv(i, s)
  PROVE  Table([t EXCEPT ![i] = s], [b EXCEPT ![i] = DevicesOf(s)])
  <1> DEFINE u == [t EXCEPT ![i] = s]
  <1>1. u \in [Slots -> SlotType]
    BY DEF Table, SlotInv
  <1>2. u[i] = s /\ \A j \in Slots \ {i} : u[j] = t[j]
    BY DEF Table
  <1>3. [b EXCEPT ![i] = DevicesOf(s)] = [j \in Slots |-> DevicesOf(u[j])]
    BY <1>2 DEF Table
  <1> HIDE DEF u
  <1>4. \A j \in Slots : SlotInv(j, u[j])
    BY <1>2 DEF Table
  <1> QED BY <1>1, <1>3, <1>4 DEF Table, u

\* One slot of the table changes and its devices do not.
LEMMA PutSameInv ==
  ASSUME NEW t, NEW b, Table(t, b), NEW i \in Slots, NEW s, SlotInv(i, s),
         DevicesOf(s) = DevicesOf(t[i])
  PROVE  Table([t EXCEPT ![i] = s], b)
  <1>1. Table([t EXCEPT ![i] = s], [b EXCEPT ![i] = DevicesOf(s)])
    BY PutInv
  <1>2. [b EXCEPT ![i] = DevicesOf(s)] = b
    BY DEF Table
  <1> QED BY <1>1, <1>2

\* Every slot of the table changes, and its devices with it.
LEMMA EachInv ==
  ASSUME NEW t, NEW b, t = [i \in Slots |-> t[i]], b = [i \in Slots |-> b[i]],
         \A i \in Slots : SlotInv(i, t[i]) /\ b[i] = DevicesOf(t[i])
  PROVE  Table(t, b)
  <1>1. t \in [Slots -> SlotType]
    BY DEF SlotInv
  <1> QED BY <1>1 DEF Table

-----------------------------------------------------------------------------
(* check_auth.                                                               *)

LEMMA CheckedInv ==
  ASSUME Table(sessions, backend), NEW from, NEW d
  PROVE  /\ Table(Checked(from, d), backend)
         /\ \A i \in Slots :
              LET s == sessions[i]
                  c == Checked(from, d)[i]
              IN  /\ c.in_use = s.in_use /\ c.peer = s.peer /\ c.core = s.core
                  /\ c.auth_required = s.auth_required
                  /\ GoodTag(i, from, d) => c.auth_verified
  <1> DEFINE t == Checked(from, d)
  <1>1. ASSUME NEW i \in Slots
        PROVE  /\ SlotInv(i, t[i]) /\ DevicesOf(t[i]) = DevicesOf(sessions[i])
               /\ t[i].in_use = sessions[i].in_use /\ t[i].peer = sessions[i].peer
               /\ t[i].core = sessions[i].core
               /\ t[i].auth_required = sessions[i].auth_required
               /\ GoodTag(i, from, d) => t[i].auth_verified
    <2>1. SlotInv(i, sessions[i])
      BY DEF Table
    <2>2. CASE GoodTag(i, from, d)
      <3>1. t[i] = Verified(sessions[i])
        BY <2>2 DEF Checked
      <3>2. sessions[i].in_use
        BY <2>2 DEF GoodTag, Known
      <3> QED BY <2>1, <3>1, <3>2, VerifiedInv
    <2>3. CASE ~GoodTag(i, from, d)
      <3>1. t[i] = sessions[i]
        BY <2>3 DEF Checked
      <3> QED BY <2>1, <2>3, <3>1
    <2> QED BY <2>2, <2>3
  <1>2. t = [i \in Slots |-> t[i]]
    BY DEF Checked
  <1> HIDE DEF t
  <1>3. t \in [Slots -> SlotType]
    BY <1>1, <1>2 DEF SlotInv
  <1>4. backend = [i \in Slots |-> DevicesOf(t[i])]
    BY <1>1 DEF Table
  <1> QED BY <1>1, <1>3, <1>4 DEF Table, t

\* The gate: what gets past check_auth to a session is from its own peer and
\* from one that has proved the secret, unless it is an ACK.
LEMMA ReachedInv ==
  ASSUME Table(sessions, backend), NEW from \in Peers, NEW d, NEW i \in Slots,
         CheckAuth(from, d), Reaches(i, from, d)
  PROVE  LET c == Checked(from, d)[i]
         IN  /\ SlotInv(i, c) /\ c \in SlotType /\ c.core \in SessionType
             /\ c.in_use /\ c.peer \in Peers /\ ShadowsHaveDevices(c)
             /\ d.type # "ACK" => ~Unproven(c)
  <1> DEFINE c == Checked(from, d)[i]
  <1>1. SlotInv(i, c) /\ c.in_use = sessions[i].in_use
        /\ c.auth_required = sessions[i].auth_required
        /\ (GoodTag(i, from, d) => c.auth_verified)
    BY CheckedInv DEF Table
  <1> HIDE DEF c
  <1>2. sessions[i].in_use /\ sessions[i].peer = from
    BY DEF Reaches, Known
  <1>3. c \in SlotType /\ c.core \in SessionType /\ c.in_use /\ c.peer \in Peers
        /\ ShadowsHaveDevices(c)
    BY <1>1, <1>2 DEF SlotInv, SlotType
  <1>4. CASE \E j \in Slots : GoodTag(j, from, d)
    <2>1. PICK j \in Slots : GoodTag(j, from, d)
      BY <1>4
    <2>2. sessions[j].core.session_id = j + 1 /\ sessions[i].core.session_id = i + 1
      BY <1>2, <2>1 DEF Table, SlotInv, GoodTag, Known
    <2>3. j + 1 = i + 1
      BY <2>1, <2>2 DEF GoodTag, Known, Reaches
    <2>4. j = i
      BY <2>3, SlotsAreNat DEF Slots
    <2> QED BY <1>1, <1>3, <2>1, <2>4 DEF Unproven, c
  <1>5. CASE \A j \in Slots : NoTagNeeded(j, from, d)
    <2>1. d.type # "ACK" => ~sessions[i].auth_required
      BY <1>2, <1>5 DEF NoTagNeeded, Reaches
    <2> QED BY <1>1, <1>3, <2>1 DEF Unproven, c
  <1> QED BY <1>4, <1>5 DEF CheckAuth

-----------------------------------------------------------------------------
(* The keyboard, mouse and media facilities.                                 *)

\* What a handler reads of a datagram's payload was parsed into its range.
Parsed(d) ==
  /\ d.type = "INPUT_STATE" => d.seq \in Seqs
  /\ d.type \in Facilities => d.seq \in Seqs /\ d.msg \in KbmMsgType(d.type)

LEMMA InboundParsed ==
  ASSUME NEW d \in InboundDatagrams
  PROVE  Parsed(d)
  <1>1. ASSUME d.type = "INPUT_STATE"
        PROVE  d.seq \in InputSeqs
    BY <1>1 DEF InboundDatagrams, PlainTypes, Facilities
  <1>2. ASSUME d.type \in Facilities
        PROVE  d.seq \in InputSeqs /\ d.msg \in KbmMsgs[d.type]
    BY <1>2 DEF InboundDatagrams, PlainTypes, Facilities
  <1> QED BY <1>1, <1>2, ServerAssumption DEF Parsed

\* A datagram's batch leaves the host holding down exactly its snapshot, if the
\* shadow was right before.
LEMMA HostAfterSnapshot ==
  ASSUME NEW st, NEW m, NEW depth
  PROVE  HostAfter(st.shadow, st, m, depth) = m.held
  BY DEF HostAfter, Changed

\* kbm.c's shadow is the snapshot it adopted.
LEMMA ApplyInv ==
  ASSUME NEW f \in Facilities, NEW st \in KbmType, NEW m \in KbmMsgType(f)
  PROVE  LET x == Apply(f, KbmNoteCreated(st), m)
         IN  x \in KbmType /\ x.created /\ x.shadow = m.held
  <1>1. m.held \in Held /\ m.event_seq \in Seqs /\ m.accum \in Seqs
    BY DEF KbmMsgType, Held, AllCodes
  <1> DEFINE c == KbmNoteCreated(st)
             x == Apply(f, c, m)
  <1>2. c \in KbmType /\ c.created = TRUE
    BY DEF KbmNoteCreated, KbmType
  <1>3. x \in {[c EXCEPT !.age = 0, !.baseline = TRUE, !.shadow = m.held,
                         !.applied = m.event_seq],
               [c EXCEPT !.age = 0, !.baseline = TRUE, !.shadow = m.held,
                         !.applied = m.event_seq, !.accum = m.accum]}
    BY DEF Apply, ApplyKeyboard, ApplyMouse, ApplyMedia, Facilities
  <1> HIDE DEF c, x
  <1>4. x \in KbmType /\ x.created = TRUE /\ x.shadow = m.held
    BY <1>1, <1>2, <1>3, SlotRanges DEF KbmType
  <1> QED BY <1>4 DEF x, c

LEMMA DevicePut ==
  ASSUME NEW b, NEW f, NEW held, b = [pad |-> b.pad, dev |-> b.dev, down |-> b.down]
  PROVE  [b EXCEPT !.dev = @ \cup {f}, !.down[f] = held]
           = [pad |-> b.pad, dev |-> b.dev \cup {f}, down |-> [b.down EXCEPT ![f] = held]]
  <1> DEFINE e == b.dev \cup {f}
             h == [b.down EXCEPT ![f] = held]
             c == [b EXCEPT !.dev = e]
  <1>1. c = [pad |-> b.pad, dev |-> e, down |-> b.down]
    <2> HIDE DEF e
    <2> QED OBVIOUS
  <1>2. c.down = b.down /\ c.pad = b.pad /\ c.dev = e
    BY <1>1
  <1>3. [b EXCEPT !.dev = @ \cup {f}, !.down[f] = held] = [c EXCEPT !.down = h]
    BY <1>2
  <1> HIDE DEF c, e, h
  <1>4. [c EXCEPT !.down = h] = [pad |-> b.pad, dev |-> e, down |-> h]
    BY <1>1, <1>2
  <1> QED BY <1>3, <1>4 DEF e, h

LEMMA DeviceDown ==
  ASSUME NEW s, NEW x
  PROVE  [DevicesOf(s) EXCEPT !.down = x]
           = [pad |-> DevicesOf(s).pad, dev |-> DevicesOf(s).dev, down |-> x]
  <1> DEFINE b == DevicesOf(s)
  <1>1. b = [pad |-> b.pad, dev |-> b.dev, down |-> b.down]
    BY DEF DevicesOf
  <1> HIDE DEF b
  <1>2. [b EXCEPT !.down = x] = [pad |-> b.pad, dev |-> b.dev, down |-> x]
    BY <1>1
  <1> QED BY <1>2 DEF b

\* What HandleKbm makes of a slot and of its devices, in normal form.
KbmSlot(s, f, q, m, caps) ==
  [s EXCEPT !.core = OnRecvKbm(s.core, f, q),
            !.kbm = [s.kbm EXCEPT ![f] = Apply(f, KbmNoteCreated(s.kbm[f]), m)],
            !.inputcaps = caps]

KbmDevices(b, st, f, m, depth) ==
  [b EXCEPT !.dev = @ \cup {f}, !.down[f] = HostAfter(@, st, m, depth)]

\* One accepted datagram of one facility.
LEMMA KbmInv ==
  ASSUME NEW i \in Slots, NEW s, SlotInv(i, s), s.in_use, ~Unproven(s),
         NEW f \in Facilities, NEW q \in Seqs, NEW m \in KbmMsgType(f),
         NEW caps \in {s.inputcaps, CapsRearm(s.inputcaps)}, NEW depth
  PROVE  /\ SlotInv(i, KbmSlot(s, f, q, m, caps))
         /\ DevicesOf(KbmSlot(s, f, q, m, caps)) =
              KbmDevices(DevicesOf(s), KbmNoteCreated(s.kbm[f]), f, m, depth)
  <1> DEFINE st == KbmNoteCreated(s.kbm[f])
             y == Apply(f, st, m)
             k == [s.kbm EXCEPT ![f] = y]
             x == OnRecvKbm(s.core, f, q)
             c == [s EXCEPT !.core = x, !.kbm = k, !.inputcaps = caps]
  <1>1. s \in SlotType /\ s.core \in SessionType /\ s.kbm \in KbmStates
        /\ s.kbm[f] \in KbmType /\ s.inputcaps \in CapsType
    BY DEF SlotInv, SlotType, KbmStates
  <1>2. x \in SessionType /\ x.session_id = s.core.session_id
    BY <1>1, KbmWindowType, KbmKeepsId, ServerAssumption
  <1>3. y \in KbmType /\ y.created /\ y.shadow = m.held
    BY <1>1, ApplyInv
  <1>4. caps \in CapsType
    BY <1>1, CapsArmType
  <1>5. st.shadow = s.kbm[f].shadow
    BY <1>1 DEF KbmNoteCreated, KbmType
  <1>6. DevicesOf(s).down[f] = st.shadow
    BY <1>5 DEF DevicesOf, SlotInv, ShadowsHaveDevices
  <1>7. HostAfter(DevicesOf(s).down[f], st, m, depth) = m.held
    BY <1>6, HostAfterSnapshot
  <1> HIDE DEF x, y, st
  <1>8. k \in KbmStates /\ k[f] = y /\ \A g \in Facilities \ {f} : k[g] = s.kbm[g]
    BY <1>1, <1>3 DEF KbmStates
  <1> HIDE DEF k
  <1>9. /\ c \in SlotType /\ c.core = x /\ c.kbm = k /\ c.in_use = s.in_use
        /\ c.peer = s.peer /\ c.welcome = s.welcome /\ c.pad_created = s.pad_created
        /\ c.auth_required = s.auth_required /\ c.auth_verified = s.auth_verified
    BY <1>1, <1>2, <1>4, <1>8 DEF SlotType
  <1> HIDE DEF c
  <1>10. SlotInv(i, c)
    BY <1>2, <1>3, <1>8, <1>9 DEF SlotInv, ShadowsHaveDevices, Unproven
  <1>11. DevicesOf(c) = [DevicesOf(s) EXCEPT !.dev = @ \cup {f}, !.down[f] = m.held]
    <2>1. {g \in Facilities : k[g].created} = {g \in Facilities : s.kbm[g].created} \cup {f}
      BY <1>3, <1>8
    <2>2. [g \in Facilities |-> IF k[g].created THEN k[g].shadow ELSE {}]
            = [[g \in Facilities |-> IF s.kbm[g].created THEN s.kbm[g].shadow ELSE {}]
                 EXCEPT ![f] = m.held]
      BY <1>3, <1>8
    <2>3. DevicesOf(c) = [pad |-> s.pad_created, dev |-> DevicesOf(s).dev \cup {f},
                          down |-> [DevicesOf(s).down EXCEPT ![f] = m.held]]
      BY <1>9, <2>1, <2>2 DEF DevicesOf
    <2> DEFINE b == DevicesOf(s)
    <2>4. b = [pad |-> b.pad, dev |-> b.dev, down |-> b.down] /\ b.pad = s.pad_created
      BY DEF DevicesOf
    <2> HIDE DEF b
    <2>5. [b EXCEPT !.dev = @ \cup {f}, !.down[f] = m.held]
            = [pad |-> b.pad, dev |-> b.dev \cup {f}, down |-> [b.down EXCEPT ![f] = m.held]]
      BY <2>4, DevicePut
    <2> QED BY <2>3, <2>4, <2>5 DEF b
  <1> QED BY <1>7, <1>10, <1>11 DEF c, k, x, y, st, KbmSlot, KbmDevices

-----------------------------------------------------------------------------
(* The handlers.                                                             *)

\* What Table says of one slot.
LEMMA UsedSlot ==
  ASSUME Table(sessions, backend), NEW i \in Slots
  PROVE  /\ SlotInv(i, sessions[i]) /\ sessions[i] \in SlotType
         /\ sessions[i].core \in SessionType /\ ShadowsHaveDevices(sessions[i])
         /\ backend[i] = DevicesOf(sessions[i])
         /\ sessions[i].in_use => sessions[i].peer \in Peers
                                  /\ sessions[i].welcome \in WelcomeType
  BY DEF Table, SlotInv, SlotType

\* Nothing was sent, or one ERROR to a peer.
LEMMA RefusalAddressed ==
  ASSUME NEW to \in Peers, NEW code, Refuse(to, code)
  PROVE  Addressed(sent')
  BY DEF Refuse, ErrorMsg, Addressed

LEMMA SilenceAddressed ==
  ASSUME sent' = {}
  PROVE  Addressed(sent')
  BY DEF Addressed

\* Handlers that refuse or ignore, with or without a verified tag.
LEMMA RefusalInv ==
  ASSUME IInv, NEW from \in Peers, NEW d,
         \/ HandleDiscover(from, d) \/ HelloRejected(from, d) \/ HandshakeWithSid(from, d)
         \/ HelloNoSlot(from, d) \/ UnknownSession(from, d) \/ NotFromPeer(from, d)
         \/ AuthDropped(from, d) \/ Unparsable(from)
  PROVE  IInv'
  <1>1. sessions' \in {sessions, Checked(from, d)} /\ backend' = backend /\ pairing' = pairing
    BY DEF HandleDiscover, HelloRejected, HandshakeWithSid, HelloNoSlot, UnknownSession,
           NotFromPeer, AuthDropped, Unparsable
  <1>2. Table(sessions', backend')
    BY <1>1, CheckedInv DEF IInv
  <1>3. Addressed(sent')
    <2>1. CASE HandleDiscover(from, d)
      BY <2>1 DEF HandleDiscover, AnnounceMsg, Addressed
    <2>2. CASE sent' = {} \/ \E code : Refuse(from, code)
      BY <2>2, RefusalAddressed, SilenceAddressed
    <2>3. CASE ~HandleDiscover(from, d)
      <3>1. sent' = {} \/ \E code : Refuse(from, code)
        BY <2>3 DEF HelloRejected, HandshakeWithSid, HelloNoSlot, UnknownSession,
           NotFromPeer, AuthDropped, Unparsable
      <3> QED BY <3>1, <2>2
    <2> QED BY <2>1, <2>3
  <1> QED BY <1>1, <1>2, <1>3 DEF IInv

\* A wrong tag: the session goes, and the secret may rotate within the bound.
LEMMA FailType ==
  ASSUME NEW p \in PairingType, NEW g \in Nat, NEW ok \in BOOLEAN
  PROVE  PairingFail(p, g, ok) \in PairingType
  <1>1. p.attempts \in AttemptCounts /\ p.generation \in Nat
    BY DEF PairingType
  <1>2. 0 \in AttemptCounts /\ 0 \in Remainings
    BY PairingAssumption DEF AttemptCounts, Remainings
  <1>3. ~Exhausted(p) => p.attempts + 1 \in AttemptCounts
    BY <1>1, PairingAssumption DEF Exhausted, AttemptCounts
  <1>4. p.generation + 1 \in Nat
    BY <1>1
  <1>5. CASE ~CountsAgainst(p, g)
    BY <1>5 DEF PairingFail
  <1>6. CASE CountsAgainst(p, g) /\ ~Exhausted(p)
    <2>1. PairingFail(p, g, ok) = [p EXCEPT !.attempts = p.attempts + 1]
      BY <1>6 DEF PairingFail
    <2> QED BY <1>3, <1>6, <2>1 DEF PairingType
  <1>7. CASE CountsAgainst(p, g) /\ Exhausted(p) /\ ok
    <2>1. PairingFail(p, g, ok) = [p EXCEPT !.generation = p.generation + 1, !.attempts = 0]
      BY <1>7 DEF PairingFail
    <2> QED BY <1>2, <1>4, <2>1 DEF PairingType
  <1>8. CASE CountsAgainst(p, g) /\ Exhausted(p) /\ ~ok
    <2>1. PairingFail(p, g, ok) = PairingClose(p)
      BY <1>8 DEF PairingFail
    <2> QED BY <1>2, <2>1 DEF PairingClose, PairingType
  <1> QED BY <1>5, <1>6, <1>7, <1>8

LEMMA CloseWindowInv ==
  ASSUME NEW p, Window(p)
  PROVE  Window(PairingClose(p)) /\ PairingClose(p).generation = p.generation
  <1>1. 0 \in AttemptCounts /\ 0 \in Remainings
    BY PairingAssumption DEF AttemptCounts, Remainings
  <1> QED BY <1>1 DEF Window, PairingClose, PairingType

LEMMA OpenWindowInv ==
  ASSUME NEW p, Window(p), p.generation < MaxGeneration, NEW ok \in BOOLEAN
  PROVE  Window(PairingOpen(p, ok))
  <1> DEFINE c == PairingClose(p)
             n == c.generation + 1
             r == [c EXCEPT !.open = TRUE, !.remaining = PairingWindow, !.generation = n]
  <1>1. Window(c) /\ c.generation = p.generation
    BY CloseWindowInv
  <1>2. n \in Nat /\ n <= MaxGeneration /\ PairingWindow \in Remainings
    BY <1>1, ServerAssumption, PairingAssumption DEF Window, PairingType, Remainings
  <1>3. PairingOpen(p, ok) \in {c, r}
    BY DEF PairingOpen
  <1> HIDE DEF c, n
  <1>4. r \in PairingType /\ r.generation = n
    BY <1>1, <1>2 DEF Window, PairingType
  <1> QED BY <1>1, <1>2, <1>3, <1>4 DEF Window

LEMMA TimedWindowInv ==
  ASSUME NEW p, Window(p)
  PROVE  Window(PairingTick(p)) /\ Window(PairingAge(p))
  <1>1. Window(PairingTick(p))
    BY CloseWindowInv DEF PairingTick
  <1> DEFINE n == IF p.remaining > 0 THEN p.remaining - 1 ELSE 0
  <1>2. n \in Remainings
    BY PairingAssumption DEF Window, PairingType, Remainings
  <1>3. PairingAge(p) = [p EXCEPT !.remaining = n]
    BY DEF PairingAge
  <1> HIDE DEF n
  <1>4. Window(PairingAge(p))
    BY <1>2, <1>3 DEF Window, PairingType
  <1> QED BY <1>1, <1>4

LEMMA RandomIsBoolean ==
  RandomOutcomes \subseteq BOOLEAN /\ CreateOutcomes \subseteq BOOLEAN
  BY DEF RandomOutcomes, CreateOutcomes

LEMMA AuthFailedInv ==
  ASSUME IInv, NEW from \in Peers, NEW d, AuthFailed(from, d)
  PROVE  IInv'
  <1>1. PICK i \in Slots :
          /\ sessions' = [sessions EXCEPT ![i] = FreeSlot(sessions[i])]
          /\ backend' = [backend EXCEPT ![i] = BackendFree(backend[i], sessions[i])]
          /\ \E ok \in RandomOutcomes :
               pairing' \in {PairingFail(pairing, sessions[i].pair_generation, ok), pairing}
          /\ pairing'.generation <= MaxGeneration
          /\ Refuse(from, "AUTH_FAILED")
    BY DEF AuthFailed
  <1>2. Table(sessions', backend')
    BY <1>1, UsedSlot, FreeSlotInv, PutInv DEF IInv
  <1>3. sessions[i].pair_generation \in Nat
    BY UsedSlot DEF IInv, SlotType
  <1>4. pairing' \in PairingType
    BY <1>1, <1>3, FailType, RandomIsBoolean DEF IInv, Window
  <1> QED BY <1>1, <1>2, <1>4, RefusalAddressed DEF IInv, Window

\* handle_hello, where it changes the table.
LEMMA HelloDuplicateInv ==
  ASSUME IInv, NEW from \in Peers, NEW d, HelloDuplicate(from, d)
  PROVE  IInv'
  <1>1. PICK i \in Slots :
          /\ sessions[i].in_use
          /\ sessions' = [sessions EXCEPT ![i] =
                            [sessions[i] EXCEPT !.core = SessionHeard(sessions[i].core)]]
          /\ sent' = {sessions[i].welcome}
    BY DEF HelloDuplicate
  <1> DEFINE s == sessions[i]
             x == SessionHeard(s.core)
             c == [s EXCEPT !.core = x]
  <1>2. SlotInv(i, s) /\ s.core \in SessionType /\ s.in_use /\ s.welcome \in WelcomeType
    BY <1>1, UsedSlot DEF IInv
  <1>3. x \in SessionType /\ x.session_id = s.core.session_id
        /\ x.rx_input = s.core.rx_input /\ x.rx_kbm = s.core.rx_kbm
    BY <1>2, HeardType, HeardKeeps
  <1>4. sessions' = [sessions EXCEPT ![i] = c] /\ sent' = {s.welcome}
    BY <1>1
  <1> HIDE DEF x, s
  <1>5. SlotInv(i, c) /\ DevicesOf(c) = DevicesOf(s)
    BY <1>2, <1>3, CoreInv
  <1> HIDE DEF c
  <1>6. Table(sessions', backend)
    BY <1>4, <1>5, PutSameInv DEF IInv, s
  <1>7. Addressed(sent')
    BY <1>2, <1>4 DEF WelcomeType, Addressed
  <1> QED BY <1>6, <1>7 DEF IInv, HelloDuplicate

\* A free slot is claimed and given up again: no pad, a rate refused, no nonce.
LEMMA GivenUpInv ==
  ASSUME IInv, NEW i \in Slots, NEW c \in SlotType, ShadowsHaveDevices(c),
         sessions' = [sessions EXCEPT ![i] = FreeSlot(c)],
         backend' = [backend EXCEPT ![i] = BackendFree(DevicesOf(c), c)]
  PROVE  Table(sessions', backend')
  BY FreeSlotInv, PutInv DEF IInv

LEMMA Allotted ==
  ASSUME IInv, NEW i \in Slots, NEW from, NEW d, Allots(i, from, d)
  PROVE  SlotInv(i, sessions[i]) /\ ~sessions[i].in_use /\ backend[i] = DevicesOf(sessions[i])
  BY UsedSlot DEF IInv, Allots, FreeSlots

LEMMA HelloPadFailsInv ==
  ASSUME IInv, NEW from \in Peers, NEW d, HelloPadFails(from, d)
  PROVE  IInv'
  <1>1. PICK i \in Slots :
          /\ Allots(i, from, d)
          /\ sessions' = [sessions EXCEPT ![i] = FreeSlot(ClaimSlot(sessions[i], from))]
          /\ backend' = [backend EXCEPT ![i] =
                           BackendFree(backend[i], ClaimSlot(sessions[i], from))]
    BY DEF HelloPadFails
  <1> DEFINE c == ClaimSlot(sessions[i], from)
  <1>2. c \in SlotType /\ ShadowsHaveDevices(c) /\ backend[i] = DevicesOf(c)
    BY <1>1, Allotted, ClaimSlotInv
  <1>3. Table(sessions', backend')
    BY <1>1, <1>2, GivenUpInv
  <1>4. pairing' = pairing /\ Refuse(from, "NO_FREE_SLOT")
    BY DEF HelloPadFails
  <1> QED BY <1>3, <1>4, RefusalAddressed DEF IInv

LEMMA HelloRateRefusedInv ==
  ASSUME IInv, NEW from \in Peers, NEW d, HelloRateRefused(from, d)
  PROVE  IInv'
  <1>1. PICK i \in Slots :
          /\ Allots(i, from, d)
          /\ sessions' = [sessions EXCEPT ![i] = FreeSlot(WithPad(sessions[i], from))]
          /\ backend' = [backend EXCEPT ![i] =
                           BackendFree(BackendWithPad(backend[i]), WithPad(sessions[i], from))]
    BY DEF HelloRateRefused
  <1> DEFINE c == WithPad(sessions[i], from)
  <1>2. c \in SlotType /\ ShadowsHaveDevices(c) /\ BackendWithPad(backend[i]) = DevicesOf(c)
    BY <1>1, Allotted, WithPadInv
  <1>3. Table(sessions', backend')
    BY <1>1, <1>2, GivenUpInv
  <1>4. pairing' = pairing /\ Refuse(from, "MALFORMED")
    BY DEF HelloRateRefused
  <1> QED BY <1>3, <1>4, RefusalAddressed DEF IInv

LEMMA HelloNoEntropyInv ==
  ASSUME IInv, NEW from \in Peers, NEW d, HelloNoEntropy(from, d)
  PROVE  IInv'
  <1>1. PICK i \in Slots :
          /\ Allots(i, from, d)
          /\ sessions' = [sessions EXCEPT ![i] = FreeSlot(Accepted(sessions[i], i, from))]
          /\ backend' = [backend EXCEPT ![i] =
                           BackendFree(BackendWithPad(backend[i]),
                                       Accepted(sessions[i], i, from))]
    BY DEF HelloNoEntropy
  <1> DEFINE c == Accepted(sessions[i], i, from)
  <1>2. c \in SlotType /\ ShadowsHaveDevices(c) /\ BackendWithPad(backend[i]) = DevicesOf(c)
    BY <1>1, Allotted, AcceptedInv
  <1>3. Table(sessions', backend')
    BY <1>1, <1>2, GivenUpInv
  <1>4. pairing' = PairingClose(pairing) /\ Refuse(from, "PAIRING_CLOSED")
    BY DEF HelloNoEntropy
  <1> QED BY <1>3, <1>4, RefusalAddressed, CloseWindowInv DEF IInv

LEMMA HelloPlainInv ==
  ASSUME IInv, NEW from \in Peers, NEW d, HelloPlain(from, d)
  PROVE  IInv'
  <1>1. PICK i \in Slots :
          LET s == Welcomed(Accepted(sessions[i], i, from), FALSE, NoNonce)
          IN  /\ Allots(i, from, d)
              /\ sessions' = [sessions EXCEPT ![i] = s]
              /\ backend' = [backend EXCEPT ![i] = BackendWithPad(backend[i])]
              /\ sent' = {s.welcome}
    BY DEF HelloPlain
  <1> DEFINE s == Welcomed(Accepted(sessions[i], i, from), FALSE, NoNonce)
  <1>2. SlotInv(i, s) /\ s.welcome.to = from /\ BackendWithPad(backend[i]) = DevicesOf(s)
    <2>1. SlotInv(i, sessions[i]) /\ ~sessions[i].in_use
          /\ backend[i] = DevicesOf(sessions[i])
      BY <1>1, Allotted
    <2>2. ASSUME NEW a \in BOOLEAN, NEW n \in Nonces \cup {NoNonce}
          PROVE  LET c == Welcomed(Accepted(sessions[i], i, from), a, n)
                 IN  /\ SlotInv(i, c) /\ c.in_use /\ Untouched(c) /\ c.welcome.to = from
                     /\ BackendWithPad(backend[i]) = DevicesOf(c)
      BY <2>1, WelcomedInv
    <2> QED BY <2>2
  <1> HIDE DEF s
  <1>3. Table(sessions', backend')
    BY <1>1, <1>2, PutInv DEF IInv, s
  <1>4. Addressed(sent')
    BY <1>1, <1>2 DEF Addressed, s
  <1> QED BY <1>3, <1>4 DEF IInv, HelloPlain

LEMMA HelloPairingInv ==
  ASSUME IInv, NEW from \in Peers, NEW d, HelloPairing(from, d)
  PROVE  IInv'
  <1>1. PICK i \in Slots, nonce \in Nonces :
          LET s == Welcomed(Accepted(sessions[i], i, from), TRUE, nonce)
          IN  /\ Allots(i, from, d)
              /\ sessions' = [sessions EXCEPT ![i] = Keyed(s, pairing.generation, nonce)]
              /\ backend' = [backend EXCEPT ![i] = BackendWithPad(backend[i])]
              /\ sent' = {s.welcome}
    BY DEF HelloPairing
  <1> DEFINE s == Welcomed(Accepted(sessions[i], i, from), TRUE, nonce)
             c == Keyed(s, pairing.generation, nonce)
  <1>2. /\ SlotInv(i, s) /\ s.in_use /\ Untouched(s)
        /\ s.welcome.to = from /\ BackendWithPad(backend[i]) = DevicesOf(s)
    <2>1. SlotInv(i, sessions[i]) /\ ~sessions[i].in_use
          /\ backend[i] = DevicesOf(sessions[i])
      BY <1>1, Allotted
    <2>2. ASSUME NEW a \in BOOLEAN, NEW n \in Nonces \cup {NoNonce}
          PROVE  LET w == Welcomed(Accepted(sessions[i], i, from), a, n)
                 IN  /\ SlotInv(i, w) /\ w.in_use /\ Untouched(w) /\ w.welcome.to = from
                     /\ BackendWithPad(backend[i]) = DevicesOf(w)
      BY <2>1, WelcomedInv
    <2> QED BY <2>2
  <1> HIDE DEF s
  <1>3. pairing.generation \in 0 .. MaxGeneration
    BY ServerAssumption DEF IInv, Window, PairingType
  <1>4. SlotInv(i, c) /\ DevicesOf(c) = DevicesOf(s)
    BY <1>2, <1>3, KeyedInv
  <1>5. sessions' = [sessions EXCEPT ![i] = c]
        /\ backend' = [backend EXCEPT ![i] = BackendWithPad(backend[i])]
        /\ sent' = {s.welcome}
    BY <1>1 DEF s
  <1> HIDE DEF c
  <1>6. Table(sessions', backend')
    BY <1>2, <1>4, <1>5, PutInv DEF IInv
  <1>7. Addressed(sent')
    BY <1>2, <1>5 DEF Addressed
  <1> QED BY <1>6, <1>7 DEF IInv, HelloPairing

\* Handlers of messages inside a session.
LEMMA HandleInputStateInv ==
  ASSUME IInv, NEW from \in Peers, NEW d, Parsed(d), CheckAuth(from, d),
         HandleInputState(from, d)
  PROVE  IInv'
  <1> DEFINE t == Checked(from, d)
  <1>1. PICK i \in Slots :
          /\ Reaches(i, from, d)
          /\ sessions' = [t EXCEPT ![i] =
               [t[i] EXCEPT !.core = OnRecvInput(t[i].core, d.seq),
                            !.have_last_input = t[i].have_last_input
                                                  \/ AcceptsInput(t[i].core, d.seq)]]
    BY DEF HandleInputState
  <1> DEFINE s == t[i]
             x == OnRecvInput(s.core, d.seq)
             had == s.have_last_input \/ AcceptsInput(s.core, d.seq)
             c == [s EXCEPT !.core = x, !.have_last_input = had]
  <1>2. /\ SlotInv(i, s) /\ s \in SlotType /\ s.core \in SessionType
        /\ s.in_use /\ ~Unproven(s)
    BY <1>1, ReachedInv DEF HandleInputState, IInv
  <1>3. x \in SessionType /\ x.session_id = s.core.session_id
    BY <1>2, InputType, InputKeepsId DEF HandleInputState, Parsed
  <1>4. had \in BOOLEAN
    OBVIOUS
  <1>5. sessions' = [t EXCEPT ![i] = c]
    BY <1>1
  <1>6. Table(t, backend)
    BY CheckedInv DEF IInv
  <1> HIDE DEF x, had, t, s
  <1>7. /\ c \in SlotType /\ c.core = x /\ c.in_use = s.in_use /\ c.peer = s.peer
        /\ c.welcome = s.welcome /\ c.pad_created = s.pad_created /\ c.kbm = s.kbm
        /\ c.auth_required = s.auth_required /\ c.auth_verified = s.auth_verified
    BY <1>2, <1>3, <1>4 DEF SlotType
  <1> HIDE DEF c
  <1>8. SlotInv(i, c) /\ DevicesOf(c) = DevicesOf(s)
    BY <1>2, <1>3, <1>7, KeptInv DEF Unproven
  <1>9. Table(sessions', backend)
    BY <1>5, <1>6, <1>8, PutSameInv DEF s
  <1> QED BY <1>9, SilenceAddressed DEF IInv, HandleInputState

LEMMA HandlePingInv ==
  ASSUME IInv, NEW from \in Peers, NEW d, CheckAuth(from, d),
         HandlePing(from, d) \/ HandleOther(from, d)
  PROVE  IInv'
  <1> DEFINE t == Checked(from, d)
  <1>1. PICK i \in Slots :
          /\ Reaches(i, from, d)
          /\ sessions' = [t EXCEPT ![i] = [t[i] EXCEPT !.core = SessionHeard(t[i].core)]]
          /\ sent' \in {{PlainMsg(t[i], "PONG")}, {}}
    BY DEF HandlePing, HandleOther, Checked
  <1> DEFINE s == t[i]
             x == SessionHeard(s.core)
             c == [s EXCEPT !.core = x]
  <1>2. SlotInv(i, s) /\ s.core \in SessionType /\ s.in_use /\ s.peer \in Peers
    BY <1>1, ReachedInv DEF IInv
  <1>3. x \in SessionType /\ x.session_id = s.core.session_id
        /\ x.rx_input = s.core.rx_input /\ x.rx_kbm = s.core.rx_kbm
    BY <1>2, HeardType, HeardKeeps
  <1>4. sessions' = [t EXCEPT ![i] = c] /\ sent' \in {{PlainMsg(s, "PONG")}, {}}
    BY <1>1
  <1>5. Table(t, backend)
    BY CheckedInv DEF IInv
  <1> HIDE DEF x, t, s
  <1>6. SlotInv(i, c) /\ DevicesOf(c) = DevicesOf(s)
    BY <1>2, <1>3, CoreInv
  <1> HIDE DEF c
  <1>7. Table(sessions', backend)
    BY <1>4, <1>5, <1>6, PutSameInv DEF s
  <1>8. Addressed(sent')
    BY <1>2, <1>4 DEF PlainMsg, Addressed
  <1> QED BY <1>7, <1>8 DEF IInv, HandlePing, HandleOther

LEMMA HandlePongInv ==
  ASSUME IInv, NEW from \in Peers, NEW d, CheckAuth(from, d), HandlePong(from, d)
  PROVE  IInv'
  <1> DEFINE t == Checked(from, d)
  <1>1. PICK i \in Slots :
          /\ Reaches(i, from, d)
          /\ sessions' = [t EXCEPT ![i] =
               [t[i] EXCEPT !.core = SessionHeard(t[i].core),
                            !.ping_pending = t[i].ping_pending /\ ~d.answers]]
    BY DEF HandlePong
  <1> DEFINE s == t[i]
             x == SessionHeard(s.core)
             pending == s.ping_pending /\ ~d.answers
             c == [s EXCEPT !.core = x, !.ping_pending = pending]
  <1>2. /\ SlotInv(i, s) /\ s \in SlotType /\ s.core \in SessionType
        /\ s.in_use /\ ~Unproven(s)
    BY <1>1, ReachedInv DEF HandlePong, IInv
  <1>3. x \in SessionType /\ x.session_id = s.core.session_id
    BY <1>2, HeardType, HeardKeeps
  <1>4. pending \in BOOLEAN
    OBVIOUS
  <1>5. sessions' = [t EXCEPT ![i] = c]
    BY <1>1
  <1>6. Table(t, backend)
    BY CheckedInv DEF IInv
  <1> HIDE DEF x, pending, t, s
  <1>7. /\ c \in SlotType /\ c.core = x /\ c.in_use = s.in_use /\ c.peer = s.peer
        /\ c.welcome = s.welcome /\ c.pad_created = s.pad_created /\ c.kbm = s.kbm
        /\ c.auth_required = s.auth_required /\ c.auth_verified = s.auth_verified
    BY <1>2, <1>3, <1>4 DEF SlotType
  <1> HIDE DEF c
  <1>8. SlotInv(i, c) /\ DevicesOf(c) = DevicesOf(s)
    BY <1>2, <1>3, <1>7, KeptInv DEF Unproven
  <1>9. Table(sessions', backend)
    BY <1>5, <1>6, <1>8, PutSameInv DEF s
  <1> QED BY <1>9, SilenceAddressed DEF IInv, HandlePong

LEMMA HandleByeInv ==
  ASSUME IInv, NEW from \in Peers, NEW d, CheckAuth(from, d), HandleBye(from, d)
  PROVE  IInv'
  <1> DEFINE t == Checked(from, d)
  <1>1. PICK i \in Slots :
          /\ Reaches(i, from, d)
          /\ sessions' = [t EXCEPT ![i] = FreeSlot([t[i] EXCEPT !.core = OnRecvBye(t[i].core)])]
          /\ backend' = [backend EXCEPT ![i] = BackendFree(backend[i], t[i])]
          /\ sent' = {AckMsg(t[i], "BYE")}
    BY DEF HandleBye
  <1> DEFINE s == t[i]
             x == OnRecvBye(s.core)
             c == [s EXCEPT !.core = x]
  <1>2. /\ SlotInv(i, s) /\ s \in SlotType /\ s.core \in SessionType
        /\ s.peer \in Peers /\ ShadowsHaveDevices(s)
    BY <1>1, ReachedInv DEF IInv
  <1>3. x \in SessionType
    BY <1>2, CloseType DEF OnRecvBye, CloseReasons
  <1>4. /\ sessions' = [t EXCEPT ![i] = FreeSlot(c)] /\ sent' = {AckMsg(s, "BYE")}
        /\ backend' = [backend EXCEPT ![i] = BackendFree(backend[i], s)]
    BY <1>1
  <1>5. Table(t, backend)
    BY CheckedInv DEF IInv
  <1>6. backend[i] = DevicesOf(s)
    BY <1>5 DEF Table
  <1> HIDE DEF x, t, s
  <1>7. c \in SlotType /\ c.kbm = s.kbm /\ c.pad_created = s.pad_created
    BY <1>2, <1>3 DEF SlotType
  <1> HIDE DEF c
  <1>8. BackendFree(backend[i], s) = DevicesOf(FreeSlot(c)) /\ SlotInv(i, FreeSlot(c))
    <2>1. ShadowsHaveDevices(c) /\ DevicesOf(c) = DevicesOf(s)
      BY <1>2, <1>7 DEF ShadowsHaveDevices, DevicesOf
    <2>2. BackendFree(DevicesOf(c), c) = BackendFree(DevicesOf(s), s)
      BY <1>7, <2>1 DEF BackendFree
    <2> QED BY <1>6, <1>7, <2>1, <2>2, FreeSlotInv
  <1>9. Table(sessions', backend')
    BY <1>4, <1>5, <1>8, PutInv
  <1>10. Addressed(sent')
    BY <1>2, <1>4 DEF AckMsg, Addressed
  <1> QED BY <1>9, <1>10 DEF IInv, HandleBye

\* An ACK may come from a peer that has proved nothing: it arms INPUTCAPS only
\* where nothing has to be proved.
LEMMA HandleAckInv ==
  ASSUME IInv, NEW from \in Peers, NEW d, CheckAuth(from, d), HandleAck(from, d)
  PROVE  IInv'
  <1> DEFINE t == Checked(from, d)
             Caps(s) == IF ~s.auth_required /\ KbmFeatures # {}
                          THEN CapsArm(s.inputcaps) ELSE s.inputcaps
  <1>1. PICK i \in Slots :
          /\ Reaches(i, from, d)
          /\ sessions' = [t EXCEPT ![i] =
               [t[i] EXCEPT !.core = OnRecvAck(@, d.acks),
                            !.touchmap.dirty = TRUE,
                            !.inputcaps = IF ~t[i].auth_required /\ KbmFeatures # {}
                                            THEN CapsArm(@) ELSE @]]
    BY DEF HandleAck
  <1> DEFINE s == t[i]
             x == OnRecvAck(s.core, d.acks)
             touch == [s.touchmap EXCEPT !.dirty = TRUE]
             caps == Caps(s)
             c == [s EXCEPT !.core = x, !.touchmap = touch, !.inputcaps = caps]
  <1>2. SlotInv(i, s) /\ s \in SlotType /\ s.core \in SessionType /\ s.in_use
    BY <1>1, ReachedInv DEF IInv
  <1>3. x \in SessionType /\ x.session_id = s.core.session_id
        /\ x.rx_input = s.core.rx_input /\ x.rx_kbm = s.core.rx_kbm
    BY <1>2, AckType, HeardKeeps
  <1>4. touch \in TouchType
    BY <1>2 DEF SlotType, TouchType
  <1>5. caps \in CapsType /\ (s.auth_required => caps = s.inputcaps)
    BY <1>2, CapsArmType DEF SlotType
  <1>6. sessions' = [t EXCEPT ![i] = c]
    BY <1>1, <1>2 DEF SlotType
  <1>7. Table(t, backend)
    BY CheckedInv DEF IInv
  <1> HIDE DEF x, touch, caps, Caps, t, s
  <1>8. /\ c \in SlotType /\ c.core = x /\ c.in_use = s.in_use /\ c.peer = s.peer
        /\ c.welcome = s.welcome /\ c.pad_created = s.pad_created /\ c.kbm = s.kbm
        /\ c.auth_required = s.auth_required /\ c.auth_verified = s.auth_verified
        /\ c.have_last_input = s.have_last_input /\ c.inputcaps = caps
    BY <1>2, <1>3, <1>4, <1>5 DEF SlotType
  <1> HIDE DEF c
  <1>9. Unproven(c) => Untouched(c)
    BY <1>2, <1>3, <1>5, <1>8 DEF SlotInv, Unproven, Untouched
  <1>10. SlotInv(i, c) /\ DevicesOf(c) = DevicesOf(s)
    BY <1>2, <1>3, <1>8, <1>9, KeptInv
  <1>11. Table(sessions', backend)
    BY <1>6, <1>7, <1>10, PutSameInv DEF s
  <1> QED BY <1>11, SilenceAddressed DEF IInv, HandleAck

LEMMA HandleKbmInv ==
  ASSUME IInv, NEW from \in Peers, NEW d, Parsed(d), CheckAuth(from, d),
         HandleKbm(from, d)
  PROVE  IInv'
  <1> DEFINE t == Checked(from, d)
             f == d.type
  <1>1. PICK i \in Slots, created \in CreateOutcomes :
          LET s == t[i]
              heard == [s EXCEPT !.core = OnRecvKbm(@, f, d.seq)]
              fresh == AcceptsKbm(s.core, f, d.seq) /\ f \in KbmFeatures
              had == s.kbm[f].created
              st == KbmNoteCreated(s.kbm[f])
          IN  /\ Reaches(i, from, d)
              /\ IF fresh /\ (had \/ created)
                   THEN /\ sessions' = [t EXCEPT ![i] =
                             [heard EXCEPT !.kbm[f] = Apply(f, st, d.msg),
                                           !.inputcaps = IF had THEN @ ELSE CapsRearm(@)]]
                        /\ backend' = [backend EXCEPT
                             ![i].dev = @ \cup {f},
                             ![i].down[f] = HostAfter(@, st, d.msg, RingDepth[f])]
                   ELSE /\ sessions' = [t EXCEPT ![i] = heard]
                        /\ UNCHANGED backend
    BY DEF HandleKbm
  <1> DEFINE s == t[i]
             x == OnRecvKbm(s.core, f, d.seq)
             st == KbmNoteCreated(s.kbm[f])
             k == [s.kbm EXCEPT ![f] = Apply(f, st, d.msg)]
             caps == IF s.kbm[f].created THEN s.inputcaps ELSE CapsRearm(s.inputcaps)
             heard == [s EXCEPT !.core = x]
             c == [s EXCEPT !.core = x, !.kbm = k, !.inputcaps = caps]
  <1>2. Reaches(i, from, d) /\ f \in Facilities /\ d.type # "ACK"
    BY <1>1 DEF HandleKbm, Facilities
  <1>3. /\ SlotInv(i, s) /\ s \in SlotType /\ s.core \in SessionType
        /\ s.in_use /\ ~Unproven(s)
    BY <1>2, ReachedInv DEF IInv
  <1>4. Table(t, backend)
    BY CheckedInv DEF IInv
  <1>5. d.seq \in Seqs /\ d.msg \in KbmMsgType(f)
    BY <1>2 DEF Parsed
  <1>6. ASSUME sessions' = [t EXCEPT ![i] = heard], backend' = backend
        PROVE  Table(sessions', backend')
    <2>1. x \in SessionType /\ x.session_id = s.core.session_id
      BY <1>2, <1>3, <1>5, KbmWindowType, KbmKeepsId, ServerAssumption
    <2> HIDE DEF x, s
    <2>2. /\ heard \in SlotType /\ heard.core = x /\ heard.in_use = s.in_use
          /\ heard.peer = s.peer /\ heard.welcome = s.welcome
          /\ heard.pad_created = s.pad_created /\ heard.kbm = s.kbm
          /\ heard.auth_required = s.auth_required
          /\ heard.auth_verified = s.auth_verified
      BY <1>3, <2>1 DEF SlotType
    <2> HIDE DEF heard
    <2>3. SlotInv(i, heard) /\ DevicesOf(heard) = DevicesOf(s)
      BY <1>3, <2>1, <2>2, KeptInv DEF Unproven
    <2> HIDE DEF t
    <2>4. Table([t EXCEPT ![i] = heard], backend)
      BY <1>4, <2>3, PutSameInv DEF s
    <2> QED BY <1>6, <2>4
  <1>7. ASSUME sessions' = [t EXCEPT ![i] =
                  [heard EXCEPT !.kbm[f] = Apply(f, st, d.msg),
                                !.inputcaps = IF s.kbm[f].created THEN @ ELSE CapsRearm(@)]],
               backend' = [backend EXCEPT
                  ![i].dev = @ \cup {f},
                  ![i].down[f] = HostAfter(@, st, d.msg, RingDepth[f])]
        PROVE  Table(sessions', backend')
    <2>1. sessions' = [t EXCEPT ![i] = c]
      BY <1>3, <1>7 DEF SlotType
    <2>2. SlotInv(i, c) /\ DevicesOf(c) = KbmDevices(DevicesOf(s), st, f, d.msg, RingDepth[f])
      <3>1. caps \in {s.inputcaps, CapsRearm(s.inputcaps)}
        OBVIOUS
      <3> HIDE DEF caps
      <3>2. c = KbmSlot(s, f, d.seq, d.msg, caps)
        BY DEF KbmSlot
      <3> DEFINE q == d.seq
                 m == d.msg
      <3>3. q \in Seqs /\ m \in KbmMsgType(f) /\ c = KbmSlot(s, f, q, m, caps)
        BY <1>5, <3>2
      <3> HIDE DEF q, m, c, s, f
      <3>4. SlotInv(i, c) /\ DevicesOf(c) = KbmDevices(DevicesOf(s), KbmNoteCreated(s.kbm[f]),
                                                       f, m, RingDepth[f])
        BY <1>2, <1>3, <3>1, <3>3, KbmInv
      <3> QED BY <3>4 DEF m
    <2>3. backend' = [backend EXCEPT ![i] = DevicesOf(c)]
      <3>1. backend[i] = DevicesOf(s) /\ backend \in [Slots -> {DevicesOf(t[j]) : j \in Slots}]
        BY <1>4 DEF Table
      <3>2. backend' = [backend EXCEPT ![i] =
                          KbmDevices(backend[i], st, f, d.msg, RingDepth[f])]
        BY <1>7, <3>1 DEF KbmDevices
      <3> QED BY <2>2, <3>1, <3>2
    <2> HIDE DEF c, t
    <2>4. SlotInv(i, c)
      BY <2>2
    <2>5. Table([t EXCEPT ![i] = c], [backend EXCEPT ![i] = DevicesOf(c)])
      BY <1>4, <2>4, PutInv
    <2> QED BY <2>1, <2>3, <2>5
  <1>8. Table(sessions', backend')
    BY <1>1, <1>6, <1>7
  <1> QED BY <1>8, SilenceAddressed DEF IInv, HandleKbm

-----------------------------------------------------------------------------
(* apad_server_tick.                                                         *)

LEMMA TouchTickType ==
  ASSUME NEW t \in TouchType
  PROVE  TouchTick(t) \in TouchType
  <1> DEFINE a == TouchArmed(t)
             n == a.repeats - 1
  <1>1. a \in TouchType
    BY DeliveryRanges DEF TouchArmed, TouchType
  <1>2. TouchSends(t) => n \in Repeats
    BY <1>1, DeliveryAssumption DEF TouchSends, TouchType, Repeats
  <1>3. TouchTick(t) = IF TouchSends(t) THEN [a EXCEPT !.repeats = n, !.wait = BurstGap] ELSE a
    BY <1>1 DEF TouchTick, TouchType
  <1> HIDE DEF n, a
  <1> QED BY <1>1, <1>2, <1>3, DeliveryRanges DEF TouchType

LEMMA CapsTickType ==
  ASSUME NEW c \in CapsType
  PROVE  CapsTick(c) \in CapsType /\ CapsTick(c).can_arm = c.can_arm
  <1> DEFINE a == CapsArmed(c)
             n == a.repeats - 1
  <1>1. a \in CapsType /\ a.can_arm = c.can_arm
    BY DeliveryRanges DEF CapsArmed, CapsType
  <1>2. CapsBurst(c) => n \in Repeats
    BY <1>1, DeliveryAssumption DEF CapsBurst, CapsType, Repeats
  <1>3. CapsTick(c) = IF CapsBurst(c)
                        THEN [a EXCEPT !.repeats = n, !.wait = BurstGap, !.since = 0]
                        ELSE IF CapsSlow(c) THEN [a EXCEPT !.since = 0] ELSE a
    BY <1>1 DEF CapsTick, CapsType
  <1> HIDE DEF n, a
  <1> QED BY <1>1, <1>2, <1>3, DeliveryRanges DEF CapsType

LEMMA WatchdogTickType ==
  ASSUME NEW st \in KbmType
  PROVE  LET x == WatchdogTick(st)
         IN  /\ x \in KbmType /\ x.created = st.created
             /\ x.shadow = IF WatchdogFires(st) THEN {} ELSE st.shadow
  BY SlotRanges DEF WatchdogTick, Released, KbmType

\* The first loop: deliveries and watchdog.
LEMMA DeliveredInv ==
  ASSUME NEW i \in Slots, NEW s, SlotInv(i, s)
  PROVE  LET c == Delivered(s)
         IN  /\ SlotInv(i, c)
             /\ c.in_use = s.in_use /\ c.core = s.core /\ c.peer = s.peer
             /\ Unproven(c) = Unproven(s)
             /\ DevicesOf(c) = WatchdogReleases(DevicesOf(s), s)
  <1> DEFINE c == Delivered(s)
             touch == TouchTick(s.touchmap)
             caps == CapsTick(s.inputcaps)
             k == [f \in Facilities |-> WatchdogTick(s.kbm[f])]
             down == [f \in Facilities |-> IF s.kbm[f].created THEN s.kbm[f].shadow ELSE {}]
  <1>1. s \in SlotType
    BY DEF SlotInv
  <1>2. DevicesOf(s).down = down
    BY DEF DevicesOf
  <1>3. CASE ~s.in_use
    <2>1. c = s
      BY <1>3 DEF Delivered
    <2>2. WatchdogReleases(DevicesOf(s), s)
            = [DevicesOf(s) EXCEPT !.down = [f \in Facilities |-> down[f]]]
      BY <1>2, <1>3 DEF WatchdogReleases
    <2>3. [f \in Facilities |-> down[f]] = down
      OBVIOUS
    <2>4. [DevicesOf(s) EXCEPT !.down = down] = DevicesOf(s)
      BY <1>2, DeviceDown DEF DevicesOf
    <2> QED BY <2>1, <2>2, <2>3, <2>4
  <1>4. CASE s.in_use
    <2>1. touch \in TouchType /\ caps \in CapsType /\ caps.can_arm = s.inputcaps.can_arm
      BY <1>1, TouchTickType, CapsTickType DEF SlotType
    <2>2. /\ k \in KbmStates
          /\ \A f \in Facilities :
               /\ k[f].created = s.kbm[f].created
               /\ k[f].shadow = IF WatchdogFires(s.kbm[f]) THEN {} ELSE s.kbm[f].shadow
      BY <1>1, WatchdogTickType DEF SlotType, KbmStates
    <2>3. c = [s EXCEPT !.touchmap = touch, !.inputcaps = caps, !.kbm = k]
      BY <1>1, <1>4 DEF Delivered, SlotType
    <2> HIDE DEF touch, caps, k, c
    <2>4. /\ c \in SlotType /\ c.core = s.core /\ c.in_use = s.in_use /\ c.peer = s.peer
          /\ c.welcome = s.welcome /\ c.pad_created = s.pad_created /\ c.kbm = k
          /\ c.auth_required = s.auth_required /\ c.auth_verified = s.auth_verified
          /\ c.have_last_input = s.have_last_input /\ c.inputcaps = caps
      BY <1>1, <2>1, <2>2, <2>3 DEF SlotType
    <2>5. SlotInv(i, c) /\ Unproven(c) = Unproven(s)
      <3>1. ShadowsHaveDevices(c)
        BY <2>2, <2>4 DEF SlotInv, ShadowsHaveDevices
      <3>2. Unproven(c) => Untouched(c)
        BY <2>1, <2>2, <2>4 DEF SlotInv, Unproven, Untouched
      <3>3. Unproven(c) = Unproven(s)
        BY <2>4 DEF Unproven
      <3> QED BY <1>4, <2>4, <3>1, <3>2, <3>3 DEF SlotInv
    <2>6. DevicesOf(c) = WatchdogReleases(DevicesOf(s), s)
      <3> DEFINE dev == {f \in Facilities : s.kbm[f].created}
                 after == [f \in Facilities |-> IF k[f].created THEN k[f].shadow ELSE {}]
                 let == [f \in Facilities |->
                           IF s.in_use /\ WatchdogFires(s.kbm[f])
                             THEN HostReleased(down[f], s.kbm[f]) ELSE down[f]]
      <3>1. {f \in Facilities : k[f].created} = dev
        BY <2>2
      <3>2. DevicesOf(c) = [pad |-> s.pad_created, dev |-> dev, down |-> after]
        BY <2>4, <3>1 DEF DevicesOf
      <3>3. after = let
        BY <1>4, <2>2 DEF WatchdogFires, HostReleased
      <3>4. WatchdogReleases(DevicesOf(s), s) = [DevicesOf(s) EXCEPT !.down = let]
        BY <1>2 DEF WatchdogReleases
      <3>5. DevicesOf(s).pad = s.pad_created /\ DevicesOf(s).dev = dev
        BY DEF DevicesOf
      <3> HIDE DEF dev, after, let, down
      <3> QED BY <3>2, <3>3, <3>4, <3>5, DeviceDown
    <2> QED BY <2>4, <2>5, <2>6 DEF c
  <1> QED BY <1>3, <1>4

LEMMA ServicedInv ==
  ASSUME NEW i \in Slots, NEW s, SlotInv(i, s)
  PROVE  /\ SlotInv(i, Serviced(s))
         /\ DevicesOf(Serviced(s)) = IF TimesOut(s) THEN BackendFree(DevicesOf(s), s)
                                                    ELSE DevicesOf(s)
  <1> DEFINE x == SessionTick(s.core)
             c == [s EXCEPT !.core = x]
             p == [c EXCEPT !.ping_age = 0, !.ping_pending = TRUE]
  <1>1. s \in SlotType /\ s.core \in SessionType /\ ShadowsHaveDevices(s)
    BY DEF SlotInv, SlotType
  <1>2. x \in SessionType
    BY <1>1, TickType
  <1>3. CASE ~s.in_use
    BY <1>3 DEF Serviced, TimesOut
  <1>4. CASE s.in_use /\ TimesOut(s)
    <2>1. Serviced(s) = FreeSlot(c)
      BY <1>4 DEF Serviced
    <2> HIDE DEF x
    <2>2. c \in SlotType /\ c.kbm = s.kbm /\ c.pad_created = s.pad_created
      BY <1>1, <1>2 DEF SlotType
    <2> HIDE DEF c
    <2>3. ShadowsHaveDevices(c) /\ DevicesOf(c) = DevicesOf(s)
      BY <1>1, <2>2 DEF ShadowsHaveDevices, DevicesOf
    <2>4. BackendFree(DevicesOf(c), c) = BackendFree(DevicesOf(s), s)
      BY <2>2, <2>3 DEF BackendFree
    <2> QED BY <1>4, <2>1, <2>2, <2>3, <2>4, FreeSlotInv
  <1>5. CASE s.in_use /\ ~TimesOut(s)
    <2>1. x.session_id = s.core.session_id /\ x.rx_input = s.core.rx_input
          /\ x.rx_kbm = s.core.rx_kbm
      BY <1>1, <1>5, TickKeeps DEF TimesOut
    <2>2. Serviced(s) \in {c, p}
      BY <1>5 DEF Serviced
    <2> HIDE DEF x
    <2>3. SlotInv(i, c) /\ DevicesOf(c) = DevicesOf(s)
      BY <1>2, <1>5, <2>1, CoreInv
    <2>4. c.in_use
      BY <1>1, <1>5 DEF SlotType
    <2> HIDE DEF c
    <2>5. SlotInv(i, p) /\ DevicesOf(p) = DevicesOf(c)
      <3>1. /\ p \in SlotType /\ p.core = c.core /\ p.in_use = c.in_use /\ p.peer = c.peer
            /\ p.welcome = c.welcome /\ p.pad_created = c.pad_created /\ p.kbm = c.kbm
            /\ p.auth_required = c.auth_required /\ p.auth_verified = c.auth_verified
            /\ p.have_last_input = c.have_last_input /\ p.inputcaps = c.inputcaps
        BY <2>3, SlotRanges DEF SlotInv, SlotType
      <3> HIDE DEF p
      <3>2. Unproven(p) => Untouched(p)
        BY <2>3, <3>1 DEF SlotInv, Unproven, Untouched
      <3> QED BY <2>3, <2>4, <3>1, <3>2, KeptInv
    <2> QED BY <1>5, <2>2, <2>3, <2>5
  <1> QED BY <1>3, <1>4, <1>5

LEMMA TickedInv ==
  ASSUME NEW i \in Slots, NEW s, SlotInv(i, s)
  PROVE  SlotInv(i, Ticked(s)) /\ DevicesOf(Ticked(s)) = BackendTicked(DevicesOf(s), s)
  <1> DEFINE d == Delivered(s)
             b == WatchdogReleases(DevicesOf(s), s)
  <1>1. /\ SlotInv(i, d) /\ d.in_use = s.in_use /\ d.core = s.core
        /\ Unproven(d) = Unproven(s) /\ DevicesOf(d) = b
    BY DeliveredInv
  <1>2. ExpiresWith(d) = ExpiresWith(s) /\ TimesOut(d) = TimesOut(s)
    BY <1>1 DEF ExpiresWith, TimesOut
  <1>3. Ticked(s) = IF ExpiresWith(d) THEN FreeSlot(d) ELSE Serviced(d)
    BY DEF Ticked
  <1>4. BackendTicked(DevicesOf(s), s)
          = IF ExpiresWith(s) \/ TimesOut(s) THEN BackendFree(b, d) ELSE b
    BY DEF BackendTicked
  <1> HIDE DEF d, b
  <1>5. d \in SlotType /\ ShadowsHaveDevices(d)
    BY <1>1 DEF SlotInv
  <1>6. SlotInv(i, FreeSlot(d)) /\ BackendFree(DevicesOf(d), d) = DevicesOf(FreeSlot(d))
    BY <1>5, FreeSlotInv
  <1>7. SlotInv(i, Serviced(d))
        /\ DevicesOf(Serviced(d)) = IF TimesOut(d) THEN BackendFree(DevicesOf(d), d)
                                                   ELSE DevicesOf(d)
    BY <1>1, ServicedInv
  <1> QED BY <1>1, <1>2, <1>3, <1>4, <1>6, <1>7

LEMMA TickSendsAddressed ==
  ASSUME NEW i \in Slots, NEW s, SlotInv(i, s)
  PROVE  Addressed(TickSends(s))
  <1>1. ASSUME s.in_use
        PROVE  s.peer \in Peers /\ s.welcome.to \in Peers
    BY <1>1 DEF SlotInv, WelcomeType
  <1> QED BY <1>1 DEF TickSends, Addressed, PlainMsg, CapsMsg

LEMMA TickInv ==
  ASSUME IInv, Tick
  PROVE  IInv'
  <1>1. Table(sessions', backend')
    <2>1. ASSUME NEW i \in Slots
          PROVE  /\ SlotInv(i, Ticked(sessions[i]))
                 /\ BackendTicked(backend[i], sessions[i]) = DevicesOf(Ticked(sessions[i]))
      BY UsedSlot, TickedInv DEF IInv
    <2>2. sessions' = [i \in Slots |-> Ticked(sessions[i])]
          /\ backend' = [i \in Slots |-> BackendTicked(backend[i], sessions[i])]
      BY DEF Tick
    <2> QED BY <2>1, <2>2, EachInv
  <1>2. Addressed(sent')
    <2>1. \A i \in Slots : Addressed(TickSends(sessions[i]))
      BY UsedSlot, TickSendsAddressed DEF IInv
    <2> QED BY <2>1 DEF Tick, Addressed
  <1> QED BY <1>1, <1>2, TimedWindowInv DEF IInv, Tick

-----------------------------------------------------------------------------
(* The host's calls, and time.                                               *)

LEMMA DropUnprovenInv ==
  ASSUME IInv
  PROVE  Table(DropUnproven(sessions), BackendDropUnproven(sessions))
  <1> DEFINE t == DropUnproven(sessions)
             b == BackendDropUnproven(sessions)
  <1>1. ASSUME NEW i \in Slots
        PROVE  SlotInv(i, t[i]) /\ b[i] = DevicesOf(t[i])
    <2>1. SlotInv(i, sessions[i]) /\ sessions[i] \in SlotType
          /\ ShadowsHaveDevices(sessions[i]) /\ backend[i] = DevicesOf(sessions[i])
      BY UsedSlot DEF IInv
    <2>2. CASE Unproven(sessions[i])
      <3>1. t[i] = FreeSlot(sessions[i]) /\ b[i] = BackendFree(backend[i], sessions[i])
        BY <2>2 DEF DropUnproven, BackendDropUnproven
      <3> QED BY <2>1, <3>1, FreeSlotInv
    <2>3. CASE ~Unproven(sessions[i])
      <3>1. t[i] = sessions[i] /\ b[i] = backend[i]
        BY <2>3 DEF DropUnproven, BackendDropUnproven
      <3> QED BY <2>1, <3>1
    <2> QED BY <2>2, <2>3
  <1>2. t = [i \in Slots |-> t[i]] /\ b = [i \in Slots |-> b[i]]
    BY DEF DropUnproven, BackendDropUnproven
  <1> HIDE DEF t, b
  <1>3. Table(t, b)
    BY <1>1, <1>2, EachInv
  <1> QED BY <1>3 DEF t, b

LEMMA BeginPairingInv ==
  ASSUME IInv, BeginPairing
  PROVE  IInv'
  <1>1. Table(sessions', backend')
    BY DropUnprovenInv DEF BeginPairing, IInv
  <1>2. Window(pairing')
    BY OpenWindowInv, RandomIsBoolean DEF BeginPairing, IInv
  <1> QED BY <1>1, <1>2, SilenceAddressed DEF IInv, BeginPairing

LEMMA CancelPairingInv ==
  ASSUME IInv, CancelPairing
  PROVE  IInv'
  BY DropUnprovenInv, CloseWindowInv, SilenceAddressed DEF IInv, CancelPairing

LEMMA SetProfileInv ==
  ASSUME IInv, NEW i \in Slots, SetProfile(i)
  PROVE  IInv'
  <1> DEFINE s == sessions[i]
             touch == [s.touchmap EXCEPT !.dirty = TRUE]
             c == [s EXCEPT !.touchmap = touch]
  <1>1. SlotInv(i, s) /\ s \in SlotType /\ s.in_use
    BY UsedSlot DEF IInv, SetProfile
  <1>2. touch \in TouchType
    BY <1>1 DEF SlotType, TouchType
  <1>3. sessions' = [sessions EXCEPT ![i] = c]
    BY DEF SetProfile
  <1> HIDE DEF s, touch
  <1>4. /\ c \in SlotType /\ c.core = s.core /\ c.in_use = s.in_use /\ c.peer = s.peer
        /\ c.welcome = s.welcome /\ c.pad_created = s.pad_created /\ c.kbm = s.kbm
        /\ c.auth_required = s.auth_required /\ c.auth_verified = s.auth_verified
        /\ c.have_last_input = s.have_last_input /\ c.inputcaps = s.inputcaps
    BY <1>1, <1>2 DEF SlotType
  <1> HIDE DEF c
  <1>5. Unproven(c) => Untouched(c)
    BY <1>1, <1>4 DEF SlotInv, Unproven, Untouched
  <1>6. SlotInv(i, c) /\ DevicesOf(c) = DevicesOf(s)
    BY <1>1, <1>4, <1>5, KeptInv
  <1>7. Table(sessions', backend)
    BY <1>3, <1>6, PutSameInv DEF IInv, s
  <1> QED BY <1>7, SilenceAddressed DEF IInv, SetProfile

LEMMA KbmAgeType ==
  ASSUME NEW st \in KbmType
  PROVE  LET x == KbmAge(st)
         IN  x \in KbmType /\ x.created = st.created /\ x.shadow = st.shadow
  <1> DEFINE n == st.age + 1
  <1>1. st.age < KbmWatchdog => n \in KbmAges
    BY KbmAssumption DEF KbmType, KbmAges
  <1>2. KbmAge(st) = IF st.created /\ st.age < KbmWatchdog THEN [st EXCEPT !.age = n] ELSE st
    BY DEF KbmAge
  <1> HIDE DEF n
  <1> QED BY <1>1, <1>2 DEF KbmType

LEMMA WaitLessType ==
  ASSUME NEW n \in Repeats, NEW w \in Waits
  PROVE  WaitLess(n, w) \in Waits
  BY DeliveryAssumption DEF WaitLess, Waits, Repeats

LEMMA DeliveryAgeType ==
  ASSUME NEW t \in TouchType, NEW c \in CapsType
  PROVE  TouchAge(t) \in TouchType /\ CapsAge(c) \in CapsType
         /\ CapsAge(c).can_arm = c.can_arm
  <1> DEFINE v == WaitLess(t.repeats, t.wait)
             w == WaitLess(c.repeats, c.wait)
             n == IF c.since = NeverSent \/ c.since >= SlowRepeat THEN c.since ELSE c.since + 1
  <1>1. v \in Waits /\ w \in Waits
    BY WaitLessType DEF TouchType, CapsType
  <1>2. n \in Sinces
    BY DeliveryAssumption DEF CapsType, Sinces, NeverSent
  <1>3. TouchAge(t) = [t EXCEPT !.wait = v] /\ CapsAge(c) = [c EXCEPT !.wait = w, !.since = n]
    BY DEF TouchAge, CapsAge, CapsType
  <1> HIDE DEF v, w, n
  <1> QED BY <1>1, <1>2, <1>3 DEF TouchType, CapsType

LEMMA AgedInv ==
  ASSUME NEW i \in Slots, NEW s, SlotInv(i, s)
  PROVE  SlotInv(i, Aged(s)) /\ DevicesOf(Aged(s)) = DevicesOf(s)
  <1> DEFINE x == SessionAge(s.core)
             touch == TouchAge(s.touchmap)
             caps == CapsAge(s.inputcaps)
             n == Saturate(s.ping_age + 1, PingPeriod)
             k == [f \in Facilities |-> KbmAge(s.kbm[f])]
             c == Aged(s)
  <1>1. s \in SlotType /\ s.core \in SessionType
    BY DEF SlotInv, SlotType
  <1>2. CASE ~s.in_use
    BY <1>2 DEF Aged
  <1>3. CASE s.in_use
    <2>1. x \in SessionType /\ x.session_id = s.core.session_id
          /\ x.rx_input = s.core.rx_input /\ x.rx_kbm = s.core.rx_kbm
      BY <1>1, AgeType, HeardKeeps
    <2>2. touch \in TouchType /\ caps \in CapsType /\ caps.can_arm = s.inputcaps.can_arm
      BY <1>1, DeliveryAgeType DEF SlotType
    <2>3. n \in PingAges
      BY <1>1, ServerAssumption DEF SlotType, PingAges, Saturate
    <2>4. /\ k \in KbmStates
          /\ \A f \in Facilities : k[f].created = s.kbm[f].created
                                   /\ k[f].shadow = s.kbm[f].shadow
      BY <1>1, KbmAgeType DEF SlotType, KbmStates
    <2>5. c = [s EXCEPT !.core = x, !.ping_age = n, !.touchmap = touch,
                        !.inputcaps = caps, !.kbm = k]
      BY <1>1, <1>3 DEF Aged, SlotType
    <2> HIDE DEF x, touch, caps, n, k, c
    <2>6. /\ c \in SlotType /\ c.core = x /\ c.in_use = s.in_use /\ c.peer = s.peer
          /\ c.welcome = s.welcome /\ c.pad_created = s.pad_created /\ c.kbm = k
          /\ c.auth_required = s.auth_required /\ c.auth_verified = s.auth_verified
          /\ c.have_last_input = s.have_last_input /\ c.inputcaps = caps
      BY <1>1, <2>1, <2>2, <2>3, <2>4, <2>5 DEF SlotType
    <2>7. ShadowsHaveDevices(c)
      BY <2>4, <2>6 DEF SlotInv, ShadowsHaveDevices
    <2>8. Unproven(c) => Untouched(c)
      BY <2>1, <2>2, <2>4, <2>6 DEF SlotInv, Unproven, Untouched
    <2>9. SlotInv(i, c)
      BY <1>3, <2>1, <2>6, <2>7, <2>8 DEF SlotInv
    <2>10. DevicesOf(c) = DevicesOf(s)
      BY <2>4, <2>6 DEF DevicesOf
    <2> QED BY <2>9, <2>10 DEF c
  <1> QED BY <1>2, <1>3

LEMMA ElapseInv ==
  ASSUME IInv, Elapse
  PROVE  IInv'
  <1>1. Table(sessions', backend)
    <2>1. ASSUME NEW i \in Slots
          PROVE  SlotInv(i, Aged(sessions[i])) /\ backend[i] = DevicesOf(Aged(sessions[i]))
      BY UsedSlot, AgedInv DEF IInv
    <2>2. sessions' = [i \in Slots |-> Aged(sessions[i])]
          /\ backend = [i \in Slots |-> backend[i]]
      BY DEF Elapse, IInv, Table
    <2> QED BY <2>1, <2>2, EachInv
  <1> QED BY <1>1, TimedWindowInv, SilenceAddressed DEF IInv, Elapse

-----------------------------------------------------------------------------
(* The invariant and what follows from it.                                   *)

\* A table nobody has used, whenever a process begins.
LEMMA FreshTable ==
  Table([i \in Slots |-> NeverUsedSlot], [i \in Slots |-> NoDevices])
  <1> DEFINE n == NeverUsedSlot
             x == SessionInit(TRUE)
             k == [f \in Facilities |-> KbmInit]
  <1>1. x \in SessionType
    BY InitType
  <1>2. k \in KbmStates /\ \A f \in Facilities : ~k[f].created /\ k[f].shadow = {}
    BY KbmInits DEF KbmInit
  <1>3. n = [in_use |-> FALSE, pad_created |-> FALSE, peer |-> NoPeer, core |-> x,
             welcome |-> NoWelcome, auth_required |-> FALSE, auth_verified |-> FALSE,
             auth_charged |-> FALSE, pair_generation |-> 0, have_last_input |-> FALSE,
             ping_age |-> 0, ping_pending |-> FALSE, touchmap |-> TouchInit,
             inputcaps |-> CapsInit, kbm |-> k]
    BY DEF NeverUsedSlot
  <1> HIDE DEF n, x, k
  <1>4. /\ n \in SlotType /\ n.kbm = k /\ n.inputcaps = CapsInit
        /\ ~n.in_use /\ ~n.pad_created /\ ~n.have_last_input
    BY <1>1, <1>2, <1>3, SlotRanges, InitialTypes DEF SlotType
  <1>5. \A i \in Slots : SlotInv(i, n)
    BY <1>2, <1>4 DEF SlotInv, ShadowsHaveDevices, Unproven, CapsInit
  <1>6. DevicesOf(n) = NoDevices
    BY <1>2, <1>4, DevicesOfNone
  <1>7. Table([i \in Slots |-> n], [i \in Slots |-> NoDevices])
    BY <1>5, <1>6, EachInv
  <1> QED BY <1>7 DEF n

LEMMA InitInv ==
  Init => IInv
  <1>1. Window(PairingInit)
    BY PairingAssumption, ServerAssumption
    DEF Window, PairingInit, PairingType, Remainings, AttemptCounts
  <1> QED BY <1>1, FreshTable DEF Init, IInv, Addressed

LEMMA DispatchInv ==
  ASSUME IInv, NEW from \in Peers, NEW d, Parsed(d), CheckAuth(from, d),
         Dispatch(from, d)
  PROVE  IInv'
  BY RefusalInv, HelloDuplicateInv, HelloPadFailsInv, HelloRateRefusedInv, HelloPlainInv,
     HelloPairingInv, HelloNoEntropyInv, HandleInputStateInv, HandleKbmInv, HandlePingInv,
     HandlePongInv, HandleByeInv, HandleAckInv DEF Dispatch

LEMMA DatagramInv ==
  ASSUME IInv, NEW from \in Peers, NEW d, Parsed(d), OnDatagram(from, d)
  PROVE  IInv'
  BY DispatchInv, AuthFailedInv, RefusalInv DEF OnDatagram

LEMMA ReceiveInv ==
  ASSUME IInv, Receive
  PROVE  IInv'
  <1>1. PICK from \in Peers : Unparsable(from) \/ \E d \in InboundDatagrams : OnDatagram(from, d)
    BY DEF Receive
  <1>2. CASE Unparsable(from)
    <2>1. sessions' = sessions /\ backend' = backend /\ pairing' = pairing
      BY <1>2 DEF Unparsable
    <2>2. Addressed(sent')
      BY <1>2, RefusalAddressed DEF Unparsable
    <2> QED BY <2>1, <2>2 DEF IInv
  <1>3. ASSUME NEW d \in InboundDatagrams, OnDatagram(from, d)
        PROVE  IInv'
    BY <1>3, DatagramInv, InboundParsed
  <1> QED BY <1>1, <1>2, <1>3

LEMMA StepInv ==
  IInv /\ [Next]_vars => IInv'
  <1> SUFFICES ASSUME IInv, [Next]_vars
               PROVE  IInv'
    OBVIOUS
  <1>1. CASE Receive
    BY <1>1, ReceiveInv
  <1>2. CASE Tick
    BY <1>2, TickInv
  <1>3. CASE Elapse
    BY <1>3, ElapseInv
  <1>4. CASE BeginPairing
    BY <1>4, BeginPairingInv
  <1>5. CASE CancelPairing
    BY <1>5, CancelPairingInv
  <1>6. CASE \E i \in Slots : SetProfile(i)
    BY <1>6, SetProfileInv
  <1>7. CASE UNCHANGED vars
    BY <1>7 DEF vars, IInv
  <1> QED BY <1>1, <1>2, <1>3, <1>4, <1>5, <1>6, <1>7 DEF Next

\* The inductive invariant holds throughout every behaviour of the server.
THEOREM SpecInv ==
  Spec => []IInv
  BY InitInv, StepInv, PTL DEF Spec

LEMMA HostHasItsTypes ==
  ASSUME NEW s \in SlotType
  PROVE  DevicesOf(s) \in BackendType
  <1> DEFINE down == [f \in Facilities |-> IF s.kbm[f].created THEN s.kbm[f].shadow ELSE {}]
             dev == {f \in Facilities : s.kbm[f].created}
  <1>1. down \in [Facilities -> Held] /\ dev \in SUBSET Facilities /\ s.pad_created \in BOOLEAN
    BY SlotRanges DEF SlotType, KbmStates, KbmType
  <1>2. DevicesOf(s) = [pad |-> s.pad_created, dev |-> dev, down |-> down]
    BY DEF DevicesOf
  <1> HIDE DEF dev, down
  <1> QED BY <1>1, <1>2 DEF BackendType

\* Every field keeps its range and nothing is sent to nobody, for any number
\* of slots, peers and nonces and any window, timeout and attempt limit.
THEOREM TypeCorrect ==
  Spec => []TypeOK
  <1>1. IInv => TypeOK
    <2> SUFFICES ASSUME IInv
                 PROVE  TypeOK
      OBVIOUS
    <2>1. backend \in [Slots -> BackendType]
      BY HostHasItsTypes DEF IInv, Table
    <2> QED BY <2>1 DEF IInv, Table, Window, Addressed, TypeOK
  <1> QED BY <1>1, SpecInv, PTL

\* The host has exactly the devices the table says and holds down exactly what
\* the shadows say: free_session, the watchdog and the reconcile leave nothing
\* behind, whatever order datagrams, ticks and failures come in.
THEOREM DevicesAlwaysMatch ==
  Spec => []DevicesMatch
  <1>1. IInv => DevicesMatch
    BY DEF IInv, Table, DevicesMatch
  <1> QED BY <1>1, SpecInv, PTL

\* Section 10: nothing is injected, created or offered for a session that was
\* told AUTH_REQUIRED before a tag of its own key has verified.
THEOREM ProofGateHolds ==
  Spec => []ProofGate
  <1>1. IInv => ProofGate
    BY DEF IInv, Table, SlotInv, ProofGate
  <1> QED BY <1>1, SpecInv, PTL
=============================================================================
