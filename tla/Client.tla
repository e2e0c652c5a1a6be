------------------------------- MODULE Client --------------------------------
(***************************************************************************)
(* clients/common/apad_client.c: the engine every client embeds, but for    *)
(* its keyboard, mouse and media senders (KbmSender).  Its calls block, so  *)
(* `call` says which one the application is inside: probe and connect loop  *)
(* until they have an answer, and an application that is connected calls    *)
(* pump again and again.  One iteration of drain_rx is one action, and the  *)
(* key derivation inside it another: PBKDF2 takes seconds on a console, and *)
(* nothing else of the client runs meanwhile.                               *)
(*                                                                         *)
(* A datagram is the record the server's model reads or writes.  Secrets    *)
(* are named by the window they were drawn for, as in Pairing.              *)
(***************************************************************************)
EXTENDS Session

CONSTANTS
  NoneAccepted,    \* welcome_len = 0
  Secrets,         \* what a user may type or scan
  NoSecret,        \* secret[0] = 0
  Derived(_, _),   \* apad_derive_session_key
  CallTimeout,     \* timeout_ms of probe and connect
  InputInterval,   \* input_interval_ms
  PingInterval     \* APAD_PING_INTERVAL_MS

ASSUME ClientAssumption ==
  /\ NoSecret \notin Secrets
  /\ CallTimeout \in Nat /\ InputInterval \in Nat /\ PingInterval \in Nat

VARIABLES
  client,   \* struct apad_client
  emitted   \* what the last call handed to apad_udp_send

clientVars == <<client, emitted>>

AuthStates == {"NONE", "NEED_SECRET", "KEYED", "VERIFIED", "FAILED"}
Calls == {"NONE", "PROBE", "CONNECT", "PUMP"}

ClientCreated ==
  [sess |-> SessionInit(FALSE), tx_seq |-> 0, call |-> "NONE", waited |-> 0,
   secret |-> NoSecret, welcome |-> NoneAccepted, deriving |-> FALSE,
   pairing_required |-> "UNKNOWN", auth_required |-> FALSE, auth_state |-> "NONE",
   input_age |-> 0, ping_age |-> 0, awaiting_pong |-> FALSE]

Busy == client.deriving
Inside(call) == client.call = call /\ ~Busy

-----------------------------------------------------------------------------
(* Sending.                                                                 *)

\* Every datagram a session sends takes the next sequence number, and is
\* tagged as soon as there is a key.
Datagram(c, type) == [type |-> type, sid |-> HeaderSid(c.sess, type), tag |-> HeaderTag(c.sess)]

Sent(c, type) ==
  [c EXCEPT !.sess = SessionOnSent(@, type, c.tx_seq), !.tx_seq = SeqNext(@)]

InputDatagram(c) ==
  [type |-> "INPUT_STATE", sid |-> c.sess.session_id, tag |-> HeaderTag(c.sess), seq |-> c.tx_seq]

AckDatagram(c, sid, acked) ==
  [type |-> "ACK", sid |-> sid, tag |-> HeaderTag(c.sess), acks |-> acked]

PongDatagram(c) ==
  [type |-> "PONG", sid |-> c.sess.session_id, tag |-> HeaderTag(c.sess), answers |-> TRUE]

\* Mutant: only an explicit refusal settles anything.
SettleAuthByError(c) == c

\* A session whose AUTH_REQUIRED was never followed by a verifying tag failed,
\* however it ended.
SettleAuth(c) ==
  IF c.auth_required /\ c.auth_state \notin {"VERIFIED", "NEED_SECRET"}
    THEN [c EXCEPT !.auth_state = "FAILED"] ELSE c

Return(c) == [c EXCEPT !.call = "NONE", !.waited = 0]

-----------------------------------------------------------------------------
(* The blocking calls.                                                      *)

ClientSetSecret(secret) ==
  /\ client.call = "NONE" /\ ~Busy
  /\ client' = [client EXCEPT !.secret = secret]
  /\ emitted' = {}

Probe ==
  /\ client.call = "NONE" /\ ~Busy
  /\ LET fresh == [client EXCEPT !.sess = SessionInit(FALSE), !.tx_seq = 0,
                                 !.pairing_required = "UNKNOWN",
                                 !.call = "PROBE", !.waited = 0]
     IN  /\ emitted' = {Datagram(fresh, "DISCOVER")}
         /\ client' = Sent(fresh, "DISCOVER")

\* Mutant: a probe nobody answers waits for ever.
ProbeOverAnswered == Inside("PROBE") /\ client.pairing_required # "UNKNOWN"

ProbeOver ==
  Inside("PROBE") /\ (client.pairing_required # "UNKNOWN" \/ client.waited > CallTimeout)

ProbeReturns ==
  /\ ProbeOver
  /\ client' = Return(client)
  /\ emitted' = {}

HelloDatagram == [kind |-> "GOOD", type |-> "HELLO", sid |-> 0, tag |-> NoKey]

\* Everything that belongs to a session starts over; the secret does not.
Connect ==
  /\ client.call = "NONE" /\ ~Busy
  /\ LET fresh == [client EXCEPT !.sess = SessionInit(FALSE), !.tx_seq = 0,
                                 !.auth_required = FALSE, !.auth_state = "NONE",
                                 !.awaiting_pong = FALSE,
                                 !.call = "CONNECT", !.waited = 0]
     IN  client' = Sent(fresh, "HELLO")
  /\ emitted' = {HelloDatagram}

\* The loop's tick: the HELLO goes out again, byte for byte, or the call fails.
ConnectTick ==
  /\ Inside("CONNECT") /\ client.sess.state = "HANDSHAKING"
  /\ LET ticked == [client EXCEPT !.sess = SessionTick(@)]
     IN  \/ /\ TickAct(client.sess) = "RETRANSMIT"
            /\ client' = ticked
            /\ emitted' = {HelloDatagram}
         \/ /\ TickAct(client.sess) = "TIMEOUT"
            /\ client' = Return(SettleAuth(ticked))
            /\ emitted' = {}

NeedsSecret == client.auth_state = "NEED_SECRET"

Connected ==
  /\ Inside("CONNECT") /\ client.sess.state = "ACTIVE"
  /\ client' =
       IF NeedsSecret
         THEN Return([client EXCEPT !.sess = SessionClose(@, "LOCAL")])
         ELSE [client EXCEPT !.call = "PUMP", !.waited = 0, !.input_age = 0, !.ping_age = 0]
  /\ emitted' = {}

ConnectOver ==
  \/ client.sess.state = "CLOSED"
  \/ client.sess.state = "HANDSHAKING" /\ client.waited > CallTimeout

ConnectFails ==
  /\ Inside("CONNECT") /\ ConnectOver
  /\ client' = Return(SettleAuth(client))
  /\ emitted' = {}

-----------------------------------------------------------------------------
(* drain_rx: one datagram from the server's address.                        *)

Draining == client.call # "NONE" /\ ~Busy

\* On an ACTIVE paired session only the very WELCOME it began with is heard,
\* and all it gets is another ACK.
OldWelcome(m) ==
  m.type = "WELCOME" /\ client.sess.state = "ACTIVE" /\ client.auth_required

ReceiveOldWelcome(m) ==
  /\ Draining /\ OldWelcome(m)
  /\ IF m = client.welcome
       THEN emitted' = {AckDatagram(client, m.sid, 0)} /\ client' = Sent(client, "ACK")
       ELSE emitted' = {} /\ UNCHANGED client

\* Mutant: any tag at all proves the PIN.
AdmitsUnverified(m) ==
  m.type \notin {"WELCOME", "ANNOUNCE", "ERROR"} => m.tag \in {client.sess.key} \cup Keys

\* A tag must verify, and once the session requires tags there must be one.
Admits(m) ==
  CASE m.type = "WELCOME" -> TRUE
    [] m.type # "WELCOME" /\ m.type \in {"ANNOUNCE", "ERROR"} -> ~client.auth_required
    [] OTHER -> m.tag = client.sess.key /\ (client.auth_required => m.tag # NoKey)

\* An untagged ERROR on a paired session may be shown, and change nothing else.
ReceiveRefused(m) ==
  /\ Draining /\ ~OldWelcome(m) /\ ~Admits(m)
  /\ client' =
       IF m.type = "ERROR" /\ m.code = "AUTH_FAILED" /\ client.auth_state = "KEYED"
         THEN [client EXCEPT !.auth_state = "FAILED"] ELSE client
  /\ emitted' = {}

\* The only positive proof that the PIN was right.
Verify(c, m) ==
  IF m.type \notin {"WELCOME", "ANNOUNCE", "ERROR"} /\ m.tag # NoKey
       /\ c.auth_state = "KEYED"
    THEN [c EXCEPT !.auth_state = "VERIFIED"] ELSE c

Heard(c) == [c EXCEPT !.sess = IF @.state = "CLOSED" THEN @ ELSE SessionHeard(@)]

\* apad_session_on_recv adopts what WELCOME says, then the ACK goes, and only
\* then does the key derivation begin.
AfterWelcome(c, m) ==
  LET adopted == [c EXCEPT !.welcome = m,
                    !.sess = IF @.state = "CLOSED" THEN @ ELSE OnRecvWelcome(@, m.sid)]
      acked == IF CanSend(adopted.sess) THEN Sent(adopted, "ACK") ELSE adopted
      keyless == acked.sess.key = NoKey
  IN  CASE ~m.auth -> acked
        [] m.auth /\ keyless /\ acked.secret = NoSecret ->
             [acked EXCEPT !.auth_required = TRUE, !.auth_state = "NEED_SECRET"]
        [] m.auth /\ keyless /\ acked.secret # NoSecret ->
             [acked EXCEPT !.auth_required = TRUE, !.deriving = TRUE]
        [] OTHER -> [acked EXCEPT !.auth_required = TRUE]

\* Mutant: the WELCOME is acknowledged only when the key is ready.
ReceiveWelcomeDerivesFirst(m) ==
  /\ Draining /\ m.type = "WELCOME" /\ ~OldWelcome(m)
  /\ client' = AfterWelcome(client, m)
  /\ emitted' = {a \in {AckDatagram(client, m.sid, 0)} : CanSend(client.sess) /\ ~m.auth}

ReceiveWelcome(m) ==
  /\ Draining /\ m.type = "WELCOME" /\ ~OldWelcome(m)
  /\ client' = AfterWelcome(client, m)
  /\ emitted' = {a \in {AckDatagram(client, m.sid, 0)} : CanSend(client.sess)}

DerivationEnds ==
  /\ Busy
  /\ client' = [client EXCEPT !.deriving = FALSE, !.auth_state = "KEYED",
                  !.sess = SessionSetKey(@, Derived(client.secret, client.welcome.nonce))]
  /\ emitted' = {}

ReceiveAnnounce(m) ==
  /\ Draining /\ m.type = "ANNOUNCE" /\ Admits(m)
  /\ client' = [Heard(client) EXCEPT !.pairing_required =
                  IF m.pairing_required THEN "YES" ELSE "NO"]
  /\ emitted' = {}

\* Only the answer to the PING that is out ends the wait for it.
ReceivePong(m) ==
  /\ Draining /\ m.type = "PONG" /\ Admits(m)
  /\ \E answers \in BOOLEAN :
       client' = [Verify(Heard(client), m) EXCEPT !.awaiting_pong = @ /\ ~answers]
  /\ emitted' = {}

ReceivePing(m) ==
  /\ Draining /\ m.type = "PING" /\ Admits(m)
  /\ LET heard == Verify(Heard(client), m)
     IN  IF CanSend(heard.sess)
           THEN /\ emitted' = {PongDatagram(heard)}
                /\ client' = Sent(heard, "PONG")
           ELSE emitted' = {} /\ client' = heard

\* Mutant: the code is shown and the session goes on.
ErrorOnlyShown(c, m) ==
  IF m.code = "AUTH_FAILED" THEN [c EXCEPT !.auth_state = "FAILED"] ELSE c

\* ERROR 7 on an ACTIVE session means the server has forgotten it.
AfterError(c, m) ==
  CASE m.code = "AUTH_FAILED" -> [c EXCEPT !.auth_state = "FAILED"]
    [] m.code = "UNKNOWN_SESSION" /\ c.sess.state = "ACTIVE" ->
         [c EXCEPT !.sess = SessionClose(@, "PEER_ERROR")]
    [] OTHER -> c

ReceiveError(m) ==
  /\ Draining /\ m.type = "ERROR" /\ Admits(m)
  /\ client' = AfterError(Heard(client), m)
  /\ emitted' = {}

\* TOUCHMAP is a drawing hint, and the ACK of a BYE finds the session closed.
ReceiveOther(m) ==
  /\ Draining /\ m.type \in {"TOUCHMAP", "ACK"} /\ Admits(m)
  /\ client' = Verify(Heard(client), m)
  /\ emitted' = {}

ClientReceives(m) ==
  \/ ReceiveOldWelcome(m) \/ ReceiveRefused(m) \/ ReceiveWelcome(m) \/ ReceiveAnnounce(m)
  \/ ReceivePong(m) \/ ReceivePing(m) \/ ReceiveError(m) \/ ReceiveOther(m)

-----------------------------------------------------------------------------
(* The pump, after its drain.                                               *)

\* The session is over: silence, or what the drain received.
PumpEnds ==
  /\ Inside("PUMP")
  /\ \/ client.sess.state # "ACTIVE"
     \/ TickAct(client.sess) = "TIMEOUT"
  /\ client' = Return(SettleAuth([client EXCEPT !.sess =
                 IF @.state = "CLOSED" THEN @ ELSE SessionClose(@, "IDLE_TIMEOUT")]))
  /\ emitted' = {}

InputDue == client.input_age >= InputInterval
PingDueFrom(c) == c.ping_age >= PingInterval

\* INPUT_STATE at the negotiated rate, and a PING unless one is unanswered.
PumpSends ==
  /\ Inside("PUMP")
  /\ client.sess.state = "ACTIVE" /\ TickAct(client.sess) # "TIMEOUT"
  /\ InputDue \/ PingDueFrom(client)
  /\ LET pings == PingDueFrom(client) /\ ~client.awaiting_pong
         input == IF InputDue THEN [Sent(client, "INPUT_STATE") EXCEPT !.input_age = 0]
                              ELSE client
         pinged == IF pings THEN Sent(input, "PING") ELSE input
     IN  /\ client' = IF PingDueFrom(client)
                        THEN [pinged EXCEPT !.ping_age = 0, !.awaiting_pong = pings]
                        ELSE pinged
         /\ emitted' = {d \in {InputDatagram(client)} : InputDue}
                       \cup {d \in {Datagram(client, "PING")} : pings}

\* disconnect: one BYE, never repeated, because the session that would repeat
\* it is closed at once.
Disconnect ==
  /\ client.call \in {"NONE", "PUMP"} /\ ~Busy
  /\ emitted' = {d \in {Datagram(client, "BYE")} : client.sess.state = "ACTIVE"}
  /\ client' = Return([client EXCEPT !.sess = SessionClose(@, "LOCAL")])

ClientAged ==
  [client EXCEPT !.sess = SessionAge(@),
     !.waited = IF client.call \in {"PROBE", "CONNECT"} THEN Saturate(@ + 1, 2 * CallTimeout + 1) ELSE @,
     !.input_age = IF client.call = "PUMP" THEN Saturate(@ + 1, InputInterval) ELSE @,
     !.ping_age = IF client.call = "PUMP" THEN Saturate(@ + 1, PingInterval) ELSE @]

ClientInit == client = ClientCreated /\ emitted = {}

\* The calls of an application, and what happens inside the ones that block.
ClientCalls ==
  \/ \E secret \in Secrets : ClientSetSecret(secret)
  \/ Probe \/ Connect \/ Disconnect

ClientRuns ==
  \/ ProbeReturns \/ ConnectTick \/ Connected \/ ConnectFails
  \/ DerivationEnds \/ PumpEnds \/ PumpSends

\* The program has something to do: one of ClientRuns could be taken.  A key
\* derivation takes as long as it takes.
ClientDue ==
  \/ ProbeOver
  \/ /\ Inside("CONNECT")
     /\ \/ client.sess.state = "HANDSHAKING" /\ TickAct(client.sess) \in {"RETRANSMIT", "TIMEOUT"}
        \/ client.sess.state = "ACTIVE" \/ ConnectOver
  \/ /\ Inside("PUMP")
     /\ \/ client.sess.state # "ACTIVE" \/ TickAct(client.sess) = "TIMEOUT"
        \/ InputDue \/ PingDueFrom(client)

=============================================================================
