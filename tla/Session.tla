------------------------------ MODULE Session -------------------------------
(***************************************************************************)
(* core/src/session.c: the session state machine both peers embed.  It does *)
(* no I/O, so it is a set of operators on one apad_session record rather    *)
(* than a set of actions; Server and the client model call them from their  *)
(* own actions, exactly as server.c and apad_client.c call the C functions. *)
(*                                                                         *)
(* Time is relative.  Where the C code stores the instant of the last       *)
(* event (last_rx_ms) the record stores its age, saturating at the largest  *)
(* value any comparison distinguishes; where it stores a deadline           *)
(* (retx_due_ms) the record stores the time left, never below zero.         *)
(* SessionAge is the passage of one unit of time.                           *)
(***************************************************************************)
EXTENDS Sequences, SeqArith

CONSTANTS
  IdleTimeout,   \* APAD_IDLE_TIMEOUT_MS
  Keepalive,     \* APAD_KEEPALIVE_MS; only a client reads it
  RetxDelays,    \* apad_retx_delays_ms, whose length is APAD_RETX_COUNT
  KbmClasses,    \* enum apad_kbm_class: the per-type receive windows
  Keys,          \* session keys PBKDF2 can produce
  NoKey,         \* have_key = 0
  NoSeq          \* rx_*_valid = 0

ASSUME SessionAssumption ==
  /\ IdleTimeout \in Nat
  /\ Keepalive \in Nat
  /\ RetxDelays \in Seq(Nat) /\ Len(RetxDelays) > 0
  /\ NoKey \notin Keys
  /\ NoSeq \notin Nat

RetxCount == Len(RetxDelays)
MaxRetxDelay == CHOOSE d \in {RetxDelays[k] : k \in 1 .. RetxCount} :
                  \A k \in 1 .. RetxCount : RetxDelays[k] <= d

States == {"IDLE", "DISCOVERING", "HANDSHAKING", "ACTIVE", "CLOSED"}

CloseReasons ==
  {"NONE", "LOCAL", "PEER_BYE", "PEER_ERROR", "IDLE_TIMEOUT", "RETX_FAILED"}

ReliableTypes == {"HELLO", "WELCOME", "BYE", "RUMBLE", "LED", "STATUS"}

\* min and saturating countdown, the two ways a timer field moves.
Saturate(n, top) == IF n < top THEN n ELSE top
CountDown(n) == IF n > 0 THEN n - 1 ELSE 0

NoRetx == [armed |-> FALSE, type |-> "NONE", seq |-> 0, attempt |-> 0, due |-> 0]

SessionInit(isServer) ==
  [is_server |-> isServer, state |-> "IDLE", session_id |-> 0,
   idle |-> 0, tx_age |-> 0, retx |-> NoRetx, rx_input |-> NoSeq,
   rx_kbm |-> [c \in KbmClasses |-> NoSeq],
   key |-> NoKey, close_reason |-> "NONE"]

\* A closed session answers no call, so its timers are parked at zero.
SessionClose(s, reason) ==
  [s EXCEPT !.state = "CLOSED", !.close_reason = reason, !.retx = NoRetx,
            !.key = NoKey, !.idle = 0, !.tx_age = 0]

SessionSetKey(s, key) == [s EXCEPT !.key = key]

-----------------------------------------------------------------------------
(* The server invents the session id; the client adopts it from WELCOME.    *)

ServerAcceptOK(s, id) ==
  s.is_server /\ id # 0 /\ s.state \in {"HANDSHAKING", "ACTIVE"}

SessionServerAccept(s, id) ==
  [s EXCEPT !.session_id = id, !.state = "ACTIVE", !.idle = 0,
            !.rx_input = NoSeq, !.rx_kbm = [c \in KbmClasses |-> NoSeq]]

-----------------------------------------------------------------------------
(* Sending.  The header's session_id is zero for the three messages that    *)
(* precede a session, and the datagram is tagged iff a key is installed.    *)

HeaderSid(s, type) ==
  IF type \in {"DISCOVER", "ANNOUNCE", "HELLO"} THEN 0 ELSE s.session_id

HeaderTag(s) == s.key

CanSend(s) == s.state # "CLOSED"

\* A reliable message arms the one retransmit slot, replacing what was in it.
SessionOnSent(s, type, seq) ==
  LET moved ==
        CASE ~s.is_server /\ type = "DISCOVER" /\ s.state = "IDLE" -> "DISCOVERING"
          [] ~s.is_server /\ type = "HELLO" /\ s.state # "ACTIVE" -> "HANDSHAKING"
          [] OTHER -> s.state
      retx ==
        IF type \in ReliableTypes
          THEN [armed |-> TRUE, type |-> type, seq |-> seq,
                attempt |-> 0, due |-> RetxDelays[1]]
          ELSE s.retx
  IN  [s EXCEPT !.state = moved, !.tx_age = 0, !.retx = retx]

-----------------------------------------------------------------------------
(* Receiving.  Liveness first, freshness after: a stale datagram is still a *)
(* datagram received.                                                       *)

\* Mutant: compared as plain integers.
FreshAgainstRaw(window, seq) == IF window = NoSeq THEN TRUE ELSE seq > window

FreshAgainst(window, seq) == IF window = NoSeq THEN TRUE ELSE SeqNewer(seq, window)

AcceptsInput(s, seq) == FreshAgainst(s.rx_input, seq)
AcceptsKbm(s, class, seq) == FreshAgainst(s.rx_kbm[class], seq)

SessionHeard(s) == [s EXCEPT !.idle = 0]

OnRecvInput(s, seq) ==
  IF AcceptsInput(s, seq) THEN [s EXCEPT !.idle = 0, !.rx_input = seq]
                          ELSE SessionHeard(s)

OnRecvKbm(s, class, seq) ==
  IF AcceptsKbm(s, class, seq) THEN [s EXCEPT !.idle = 0, !.rx_kbm[class] = seq]
                               ELSE SessionHeard(s)

OnRecvHello(s) ==
  [s EXCEPT !.idle = 0,
            !.state = IF s.is_server THEN "HANDSHAKING" ELSE s.state]

\* WELCOME answers HELLO and nothing else: an armed BYE stays armed.
OnRecvWelcome(s, id) ==
  [s EXCEPT !.idle = 0, !.session_id = id, !.state = "ACTIVE",
            !.retx = IF s.retx.armed /\ s.retx.type = "HELLO" THEN NoRetx ELSE s.retx]

OnRecvAck(s, acked) ==
  [s EXCEPT !.idle = 0,
            !.retx = IF s.retx.armed /\ s.retx.seq = acked THEN NoRetx ELSE s.retx]

OnRecvBye(s) == SessionClose(s, "PEER_BYE")

-----------------------------------------------------------------------------
(* apad_session_tick: at most one thing is due, in this order.              *)

RetxDue(s) == s.state # "CLOSED" /\ s.retx.armed /\ s.retx.due = 0

\* Mutant: once its WELCOME is discharged a session waits for ever.
TickActNoIdle(s) ==
  CASE s.state = "CLOSED" -> "NONE"
    [] RetxDue(s) /\ s.retx.attempt >= RetxCount -> "TIMEOUT"
    [] RetxDue(s) /\ s.retx.attempt < RetxCount -> "RETRANSMIT"
    [] OTHER -> "NONE"

TickAct(s) ==
  CASE s.state = "CLOSED" -> "NONE"
    [] RetxDue(s) /\ s.retx.attempt >= RetxCount -> "TIMEOUT"
    [] RetxDue(s) /\ s.retx.attempt < RetxCount -> "RETRANSMIT"
    [] ~RetxDue(s) /\ s.state = "ACTIVE" /\ s.idle >= IdleTimeout -> "TIMEOUT"
    [] ~RetxDue(s) /\ s.state = "ACTIVE" /\ s.idle < IdleTimeout
         /\ ~s.is_server /\ s.tx_age >= Keepalive -> "KEEPALIVE"
    [] OTHER -> "NONE"

\* The gap after retransmit number n: the last delay repeats once they run out.
DelayAfter(n) == RetxDelays[IF n < RetxCount THEN n + 1 ELSE RetxCount]

\* Mutant: retransmits are not counted.
SessionTickUncounted(s) ==
  CASE TickAct(s) = "TIMEOUT" ->
         SessionClose(s, IF RetxDue(s) THEN "RETX_FAILED" ELSE "IDLE_TIMEOUT")
    [] TickAct(s) = "RETRANSMIT" -> [s EXCEPT !.retx.due = DelayAfter(1)]
    [] OTHER -> s

SessionTick(s) ==
  CASE TickAct(s) = "TIMEOUT" ->
         SessionClose(s, IF RetxDue(s) THEN "RETX_FAILED" ELSE "IDLE_TIMEOUT")
    [] TickAct(s) = "RETRANSMIT" ->
         [s EXCEPT !.retx.attempt = @ + 1,
                   !.retx.due = DelayAfter(s.retx.attempt + 1)]
    [] OTHER -> s

SessionAge(s) ==
  IF s.state = "CLOSED" THEN s
  ELSE [s EXCEPT !.idle = Saturate(@ + 1, IdleTimeout),
                 !.tx_age = Saturate(@ + 1, Keepalive),
                 !.retx.due = CountDown(@)]

-----------------------------------------------------------------------------

\* One name per range: a proof that needs no more than a name leaves it folded.
Idles == 0 .. IdleTimeout
TxAges == 0 .. Keepalive
Attempts == 0 .. RetxCount
RetxTypes == ReliableTypes \cup {"NONE"}
Windows == Seqs \cup {NoSeq}
KbmWindows == [KbmClasses -> Windows]
SessionKeys == Keys \cup {NoKey}

RetxType ==
  [armed : BOOLEAN, type : RetxTypes, seq : Seqs, attempt : Attempts, due : Nat]

SessionType ==
  [is_server : BOOLEAN, state : States, session_id : Nat, idle : Idles,
   tx_age : TxAges, retx : RetxType, rx_input : Windows, rx_kbm : KbmWindows,
   key : SessionKeys, close_reason : CloseReasons]

=============================================================================
