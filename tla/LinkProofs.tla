------------------------------ MODULE LinkProofs ------------------------------
(***************************************************************************)
(* That the client and the server, on the network of Link, implement       *)
(* Connection; that every call of the client returns with its verdict; and *)
(* that no handshake is left waiting for the ACK it owes: for every number *)
(* of slots, of nonces, of faults and of calls.                            *)
(*                                                                         *)
(* The refinement.  Nothing the client knows says by itself that its       *)
(* session is real.  Its tag verifies because the datagram that carried it *)
(* was made with a key the server held once (NetworkInv); that key has the *)
(* nonce of the WELCOME the client accepted, and a nonce is drawn once, so *)
(* the key is the one of the session that WELCOME named (Ledger), and that *)
(* WELCOME was one the server gave for a session it held (Offered).        *)
(* ClientInv carries this from the WELCOME to the first tag; for the       *)
(* server's own table it needs SInv.                                       *)
(*                                                                         *)
(* The calls.  CallInv ties how long a call has lasted to the clocks of    *)
(* the client's session record, and says of each call that is over what it *)
(* has to show for it.                                                     *)
(*                                                                         *)
(* The handshake.  PromptInv: while no fault has happened, a session that  *)
(* the server holds for a key the client has made is owed an ACK which is  *)
(* on its way, in front of every tag made with that key and behind every   *)
(* HELLO.                                                                  *)
(***************************************************************************)
EXTENDS Link, ServerSafetyProofs, SequenceTheorems, FiniteSetTheorems

ClientType ==
  [sess : SessionType, tx_seq : Seqs, call : Calls, waited : Nat,
   secret : Secrets \cup {NoSecret}, welcome : WelcomeType \cup {NoneAccepted},
   deriving : BOOLEAN, pairing_required : {"UNKNOWN", "YES", "NO"},
   auth_required : BOOLEAN, auth_state : AuthStates,
   input_age : Nat, ping_age : Nat, awaiting_pong : BOOLEAN]

\* A WELCOME of a session that was granted, whether or not it still lives.
Offered(w, past) ==
  /\ w \in WelcomeType
  /\ ~w.auth => <<w.sid, NoKey>> \in past
  /\ w.auth => /\ w.nonce \in Nonces
               /\ \E g \in 0 .. MaxGeneration : <<w.sid, Key(g, w.nonce)>> \in past

\* The session a client is in has the key that its own WELCOME salts.
KeyFollows(c, past) ==
  /\ Offered(c.welcome, past) /\ c.welcome.auth /\ c.welcome.sid = c.sess.session_id

\* An ACTIVE client is in a session that was offered to it; once it has a key,
\* or is about to have one, the WELCOME at hand is that session's.
InOffered(c, past) ==
  /\ c.sess.session_id \in 1 .. NSlots
  /\ ~c.auth_required => <<c.sess.session_id, NoKey>> \in past
  /\ c.deriving => KeyFollows(c, past)
  /\ c.sess.key # NoKey =>
       /\ KeyFollows(c, past)
       /\ \E secret \in Secrets : c.sess.key = Derived(secret, c.welcome.nonce)
  /\ ~c.deriving /\ c.auth_required /\ c.auth_state = "VERIFIED" =>
       <<c.sess.session_id, c.sess.key>> \in past

ClientInv(c, past) ==
  /\ c \in ClientType /\ ~c.sess.is_server
  /\ c.sess.key # NoKey => c.auth_required
  /\ c.deriving => /\ c.auth_required /\ c.secret \in Secrets
                   /\ Offered(c.welcome, past) /\ c.welcome.auth
  /\ c.sess.state \notin {"ACTIVE", "CLOSED"} => c.sess.key = NoKey /\ ~c.deriving
  /\ c.sess.state = "ACTIVE" => InOffered(c, past)

\* The sessions there ever were: at most one for each nonce.
Salted(past, drawn) ==
  \A x \in past : x[2] # NoKey => \E g \in 0 .. MaxGeneration, n \in drawn : x[2] = Key(g, n)

OnePerNonce(past) ==
  \A x, y \in past, g, h \in 0 .. MaxGeneration, n \in Nonces :
    x[2] = Key(g, n) /\ y[2] = Key(h, n) => x = y

Ledger(past, drawn) ==
  /\ past \subseteq (1 .. NSlots) \X SessionKeys
  /\ drawn \subseteq Nonces
  /\ Salted(past, drawn) /\ OnePerNonce(past)

Untagged == {"WELCOME", "ANNOUNCE", "ERROR"}

\* What the server sends: a WELCOME of its own, or a tag made with its key.
Genuine(m, past) ==
  /\ m.type = "WELCOME" => Offered(m, past)
  /\ m.type \notin Untagged /\ m.tag # NoKey => \E i \in 1 .. NSlots : <<i, m.tag>> \in past

Contents(queue) == {queue[k] : k \in DOMAIN queue}

NetworkInv ==
  /\ up \in Seq(Contents(up)) /\ down \in Seq(Contents(down))
  /\ \A d \in Contents(up) : Parsed(d)
  /\ \A m \in Contents(down) : Genuine(m, granted)

\* The server's sessions are the client's, and were granted.
TableInv ==
  \A i \in Slots : sessions[i].in_use =>
    /\ sessions[i].peer = ThePeer
    /\ sessions[i].auth_required => sessions[i].pair_generation \in 0 .. MaxGeneration
    /\ <<sessions[i].core.session_id, sessions[i].core.key>> \in granted

LInv ==
  /\ SInv /\ TableInv /\ Ledger(granted, spent) /\ NetworkInv
  /\ ClientInv(client, granted)

-----------------------------------------------------------------------------
(* The network.                                                              *)

LEMMA CarriedContents ==
  ASSUME NEW q, q \in Seq(Contents(q)), NEW new, NEW after \in Carried(q, new)
  PROVE  /\ after \in Seq(Contents(after))
         /\ Contents(after) \subseteq Contents(q) \cup new
  <1>1. PICK order \in Orders(new) : after = q \o order
    BY DEF Carried
  <1>2. PICK n \in 0 .. Cardinality(new) : order \in [1 .. n -> new]
    BY DEF Orders, Injection
  <1>3. n \in Nat
    OBVIOUS
  <1>4. order \in Seq(new)
    BY <1>2, <1>3
  <1> DEFINE S == Contents(q) \cup new
  <1>5. after \in Seq(S)
    BY <1>1, <1>4, ConcatProperties
  <1> QED BY <1>5 DEF Contents

LEMMA RemainingContents ==
  ASSUME NEW q, q \in Seq(Contents(q)), NEW k \in DOMAIN q, NEW kept \in Remaining(q, k)
  PROVE  /\ kept \in Seq(Contents(kept))
         /\ Contents(kept) \subseteq Contents(q)
  <1>1. CASE kept = q
    BY <1>1
  <1>2. CASE kept = RemoveAt(q, k)
    <2>1. kept \in Seq(Contents(q))
      BY <1>2, ConcatProperties DEF RemoveAt
    <2> QED BY <2>1 DEF Contents
  <1> QED BY <1>1, <1>2 DEF Remaining

-----------------------------------------------------------------------------
(* The client's session record.                                              *)

\* Only DISCOVER and HELLO move the state, and nothing that is sent the key.
LEMMA ClientSentType ==
  ASSUME NEW s \in SessionType, ~s.is_server, NEW t, NEW q \in Seqs
  PROVE  LET x == SessionOnSent(s, t, q)
         IN  /\ x \in SessionType /\ x.is_server = s.is_server
             /\ x.session_id = s.session_id /\ x.key = s.key
             /\ t \notin {"DISCOVER", "HELLO"} => x.state = s.state
             /\ s.state = "IDLE" /\ t \in {"DISCOVER", "HELLO"} =>
                  x.state \in {"DISCOVERING", "HANDSHAKING"}
  <1> DEFINE r == IF t \in ReliableTypes
                    THEN [armed |-> TRUE, type |-> t, seq |-> q, attempt |-> 0,
                          due |-> RetxDelays[1]]
                    ELSE s.retx
             moved == CASE ~s.is_server /\ t = "DISCOVER" /\ s.state = "IDLE" -> "DISCOVERING"
                        [] ~s.is_server /\ t = "HELLO" /\ s.state # "ACTIVE" -> "HANDSHAKING"
                        [] OTHER -> s.state
  <1>1. r \in RetxType
    BY Ranges, DelaysAreNat DEF RetxType, RetxTypes, SessionType
  <1>2. /\ moved \in States
        /\ t \notin {"DISCOVER", "HELLO"} => moved = s.state
        /\ s.state = "IDLE" /\ t \in {"DISCOVER", "HELLO"} =>
             moved \in {"DISCOVERING", "HANDSHAKING"}
    BY DEF SessionType, States
  <1>3. SessionOnSent(s, t, q) = [s EXCEPT !.state = moved, !.tx_age = 0, !.retx = r]
    BY DEF SessionOnSent
  <1> HIDE DEF r, moved
  <1> QED BY <1>1, <1>2, <1>3, Ranges DEF SessionType

LEMMA WelcomeReceived ==
  ASSUME NEW s \in SessionType, NEW id \in Nat
  PROVE  LET x == OnRecvWelcome(s, id)
         IN  /\ x \in SessionType /\ x.is_server = s.is_server
             /\ x.session_id = id /\ x.key = s.key /\ x.state = "ACTIVE"
  <1> DEFINE r == IF s.retx.armed /\ s.retx.type = "HELLO" THEN NoRetx ELSE s.retx
  <1>1. r \in RetxType
    BY NoRetxType DEF SessionType
  <1>2. OnRecvWelcome(s, id) = [s EXCEPT !.idle = 0, !.session_id = id, !.state = "ACTIVE",
                                         !.retx = r]
    BY DEF OnRecvWelcome
  <1> HIDE DEF r
  <1> QED BY <1>1, <1>2, Ranges DEF SessionType, States

\* The same session as far as anything below can tell.
SameCore(x, y) ==
  /\ y \in SessionType /\ y.is_server = x.is_server
  /\ y.session_id = x.session_id /\ y.key = x.key /\ y.state = x.state

ClosedCore(x, y) ==
  y \in SessionType /\ y.is_server = x.is_server /\ y.state = "CLOSED" /\ y.key = NoKey

LEMMA ClosedIsClosed ==
  ASSUME NEW s \in SessionType, NEW r \in CloseReasons
  PROVE  ClosedCore(s, SessionClose(s, r))
  BY CloseType DEF SessionClose, SessionType, ClosedCore

LEMMA HeardSame ==
  ASSUME NEW s \in SessionType
  PROVE  SameCore(s, SessionHeard(s))
  BY HeardType DEF SessionHeard, SessionType, SameCore

LEMMA AgeSame ==
  ASSUME NEW s \in SessionType
  PROVE  SameCore(s, SessionAge(s))
  <1> DEFINE r == [s.retx EXCEPT !.due = CountDown(s.retx.due)]
  <1> HIDE DEF r
  <1>1. SessionAge(s) = s
        \/ SessionAge(s) = [s EXCEPT !.idle = Saturate(s.idle + 1, IdleTimeout),
                                     !.tx_age = Saturate(s.tx_age + 1, Keepalive),
                                     !.retx = r]
    BY DEF SessionAge, SessionType, r
  <1> QED BY <1>1, AgeType DEF SessionType, SameCore

LEMMA TickSame ==
  ASSUME NEW s \in SessionType
  PROVE  SameCore(s, SessionTick(s)) \/ ClosedCore(s, SessionTick(s))
  <1>1. CASE TickAct(s) = "TIMEOUT"
    BY <1>1, ClosedIsClosed DEF SessionTick, CloseReasons
  <1>2. CASE TickAct(s) = "RETRANSMIT"
    <2> DEFINE r == [s.retx EXCEPT !.attempt = s.retx.attempt + 1,
                                   !.due = DelayAfter(s.retx.attempt + 1)]
    <2> HIDE DEF r
    <2>1. SessionTick(s) = [s EXCEPT !.retx = r]
      BY <1>2 DEF SessionTick, SessionType, r
    <2> QED BY <2>1, TickType DEF SessionType, SameCore
  <1>3. CASE TickAct(s) \notin {"TIMEOUT", "RETRANSMIT"}
    BY <1>3 DEF SessionTick, SameCore
  <1> QED BY <1>1, <1>2, <1>3

-----------------------------------------------------------------------------
(* The client's own steps.                                                   *)

\* A step that keeps the session, and proves nothing.
LEMMA KeptByClient ==
  ASSUME NEW past, NEW c, ClientInv(c, past), NEW e \in ClientType,
         SameCore(c.sess, e.sess),
         e.welcome = c.welcome, e.deriving = c.deriving, e.auth_required = c.auth_required,
         c.deriving => e.secret = c.secret,
         e.auth_state = "VERIFIED" => c.auth_state = "VERIFIED"
  PROVE  ClientInv(e, past)
  BY DEF ClientInv, InOffered, KeyFollows, SameCore, ClientType

\* A step that ends the session.
LEMMA EndedByClient ==
  ASSUME NEW past, NEW c, ClientInv(c, past), NEW e \in ClientType,
         ClosedCore(c.sess, e.sess),
         e.welcome = c.welcome, e.deriving = c.deriving, e.auth_required = c.auth_required,
         c.deriving => e.secret = c.secret
  PROVE  ClientInv(e, past)
  BY DEF ClientInv, ClosedCore, ClientType

\* What leaves through send_via_session changes the record's clock and counters.
LEMMA SentByClient ==
  ASSUME NEW c \in ClientType, ~c.sess.is_server, NEW t
  PROVE  LET e == Sent(c, t)
         IN  /\ e \in ClientType
             /\ e = [c EXCEPT !.sess = e.sess, !.tx_seq = e.tx_seq]
             /\ e.sess = SessionOnSent(c.sess, t, c.tx_seq)
             /\ t \notin {"DISCOVER", "HELLO"} => SameCore(c.sess, e.sess)
  <1> DEFINE x == SessionOnSent(c.sess, t, c.tx_seq)
             q == SeqNext(c.tx_seq)
             e == [c EXCEPT !.sess = x, !.tx_seq = q]
  <1>1. x \in SessionType /\ (t \notin {"DISCOVER", "HELLO"} => SameCore(c.sess, x))
    BY ClientSentType DEF ClientType, SameCore
  <1>2. q \in Seqs
    BY SeqModAssumption DEF SeqNext, Seqs, ClientType
  <1>3. Sent(c, t) = e
    BY DEF Sent, ClientType
  <1> HIDE DEF x, q
  <1>4. e \in ClientType /\ e.sess = x /\ e.tx_seq = q
    BY <1>1, <1>2 DEF ClientType
  <1> HIDE DEF e
  <1> QED BY <1>1, <1>3, <1>4 DEF e, x

\* The sender keeps its session, whatever it sends inside one.
LEMMA SentKeepsInv ==
  ASSUME NEW past, NEW c, ClientInv(c, past), NEW t, t \notin {"DISCOVER", "HELLO"}
  PROVE  ClientInv(Sent(c, t), past)
  <1> DEFINE e == Sent(c, t)
  <1>1. /\ e \in ClientType /\ e = [c EXCEPT !.sess = e.sess, !.tx_seq = e.tx_seq]
        /\ SameCore(c.sess, e.sess)
    BY SentByClient DEF ClientInv
  <1> HIDE DEF e
  <1>2. /\ e.welcome = c.welcome /\ e.deriving = c.deriving /\ e.secret = c.secret
        /\ e.auth_required = c.auth_required /\ e.auth_state = c.auth_state
    BY <1>1 DEF ClientInv, ClientType
  <1>3. ClientInv(e, past)
    BY <1>1, <1>2, KeptByClient
  <1> QED BY <1>3 DEF e

LEMMA ReturnKeepsInv ==
  ASSUME NEW past, NEW c, ClientInv(c, past)
  PROVE  ClientInv(Return(c), past)
  <1> DEFINE e == [c EXCEPT !.call = "NONE", !.waited = 0]
  <1>1. /\ e \in ClientType /\ e.sess = c.sess
        /\ e.welcome = c.welcome /\ e.deriving = c.deriving /\ e.secret = c.secret
        /\ e.auth_required = c.auth_required /\ e.auth_state = c.auth_state
    BY DEF ClientInv, ClientType, Calls
  <1> HIDE DEF e
  <1>2. SameCore(c.sess, e.sess)
    BY <1>1 DEF SameCore, ClientInv, ClientType
  <1>3. ClientInv(e, past)
    BY <1>1, <1>2, KeptByClient
  <1> QED BY <1>3 DEF e, Return

LEMMA SettleKeepsInv ==
  ASSUME NEW past, NEW c, ClientInv(c, past)
  PROVE  ClientInv(SettleAuth(c), past)
  <1> DEFINE e == [c EXCEPT !.auth_state = "FAILED"]
  <1>1. /\ e \in ClientType /\ e.sess = c.sess
        /\ e.welcome = c.welcome /\ e.deriving = c.deriving /\ e.secret = c.secret
        /\ e.auth_required = c.auth_required /\ e.auth_state = "FAILED"
    BY DEF ClientInv, ClientType, AuthStates
  <1> HIDE DEF e
  <1>2. SameCore(c.sess, e.sess)
    BY <1>1 DEF SameCore, ClientInv, ClientType
  <1>3. ClientInv(e, past)
    BY <1>1, <1>2, KeptByClient
  <1> QED BY <1>3 DEF e, SettleAuth

LEMMA WithSess ==
  ASSUME NEW past, NEW c, ClientInv(c, past), NEW x,
         SameCore(c.sess, x) \/ ClosedCore(c.sess, x)
  PROVE  ClientInv([c EXCEPT !.sess = x], past)
  <1> DEFINE e == [c EXCEPT !.sess = x]
  <1>1. /\ e \in ClientType /\ e.sess = x
        /\ e.welcome = c.welcome /\ e.deriving = c.deriving /\ e.secret = c.secret
        /\ e.auth_required = c.auth_required /\ e.auth_state = c.auth_state
    BY DEF ClientInv, ClientType, SameCore, ClosedCore
  <1> HIDE DEF e
  <1>2. ClientInv(e, past)
    BY <1>1, KeptByClient, EndedByClient
  <1> QED BY <1>2 DEF e

\* A closed session neither holds a key nor begins to derive one.
LEMMA CloseKeepsInv ==
  ASSUME NEW past, NEW c, ClientInv(c, past), NEW r \in CloseReasons
  PROVE  ClientInv([c EXCEPT !.sess = SessionClose(c.sess, r)], past)
  BY WithSess, ClosedIsClosed DEF ClientInv, ClientType

\* What every step of the client comes to.
Moves(past) == ClientInv(client', past) /\ \A d \in emitted' : Parsed(d)

LEMMA DatagramParsed ==
  ASSUME NEW d, d.type \notin {"INPUT_STATE"} \cup Facilities
  PROVE  Parsed(d)
  BY DEF Parsed

LEMMA CallsBegin ==
  ASSUME NEW past, ClientInv(client, past), Probe \/ Connect
  PROVE  Moves(past)
  <1> DEFINE i == SessionInit(FALSE)
  <1>1. i \in SessionType /\ i.state = "IDLE" /\ ~i.is_server /\ i.key = NoKey
    BY InitType DEF SessionInit
  <1> HIDE DEF i
  <1>2. 0 \in Seqs
    BY Ranges
  <1>3. CASE Probe
    <2> DEFINE c == [client EXCEPT !.sess = i, !.tx_seq = 0, !.pairing_required = "UNKNOWN",
                                   !.call = "PROBE", !.waited = 0]
    <2>1. client' = Sent(c, "DISCOVER") /\ emitted' = {Datagram(c, "DISCOVER")} /\ ~client.deriving
      BY <1>3 DEF Probe, i, Busy
    <2>2. c \in ClientType /\ c.sess = i /\ c.deriving = client.deriving
      BY <1>1, <1>2 DEF ClientInv, ClientType, Calls
    <2> HIDE DEF c
    <2> DEFINE e == Sent(c, "DISCOVER")
    <2>3. /\ e \in ClientType /\ e = [c EXCEPT !.sess = e.sess, !.tx_seq = e.tx_seq]
          /\ e.sess = SessionOnSent(i, "DISCOVER", c.tx_seq)
      BY <1>1, <2>2, SentByClient
    <2> HIDE DEF e
    <2>4. /\ ~e.sess.is_server /\ e.sess.key = NoKey
          /\ e.sess.state \in {"DISCOVERING", "HANDSHAKING"}
      BY <1>1, <2>2, <2>3, ClientSentType DEF ClientType
    <2>5. ~e.deriving
      BY <2>1, <2>2, <2>3 DEF ClientType
    <2>6. ClientInv(e, past)
      BY <2>3, <2>4, <2>5 DEF ClientInv
    <2>7. Parsed(Datagram(c, "DISCOVER"))
      BY DatagramParsed DEF Datagram, Facilities
    <2> QED BY <2>1, <2>6, <2>7 DEF Moves, e
  <1>4. CASE Connect
    <2> DEFINE c == [client EXCEPT !.sess = i, !.tx_seq = 0, !.auth_required = FALSE,
                                   !.auth_state = "NONE", !.awaiting_pong = FALSE,
                                   !.call = "CONNECT", !.waited = 0]
    <2>1. client' = Sent(c, "HELLO") /\ emitted' = {HelloDatagram} /\ ~client.deriving
      BY <1>4 DEF Connect, i, Busy
    <2>2. c \in ClientType /\ c.sess = i /\ c.deriving = client.deriving
      BY <1>1, <1>2 DEF ClientInv, ClientType, Calls, AuthStates
    <2> HIDE DEF c
    <2> DEFINE e == Sent(c, "HELLO")
    <2>3. /\ e \in ClientType /\ e = [c EXCEPT !.sess = e.sess, !.tx_seq = e.tx_seq]
          /\ e.sess = SessionOnSent(i, "HELLO", c.tx_seq)
      BY <1>1, <2>2, SentByClient
    <2> HIDE DEF e
    <2>4. /\ ~e.sess.is_server /\ e.sess.key = NoKey
          /\ e.sess.state \in {"DISCOVERING", "HANDSHAKING"}
      BY <1>1, <2>2, <2>3, ClientSentType DEF ClientType
    <2>5. ~e.deriving
      BY <2>1, <2>2, <2>3 DEF ClientType
    <2>6. ClientInv(e, past)
      BY <2>3, <2>4, <2>5 DEF ClientInv
    <2>7. Parsed(HelloDatagram)
      BY DatagramParsed DEF HelloDatagram, Facilities
    <2> QED BY <2>1, <2>6, <2>7 DEF Moves, e
  <1> QED BY <1>3, <1>4

LEMMA SecretTyped ==
  ASSUME NEW past, ClientInv(client, past), NEW secret \in Secrets, ClientSetSecret(secret)
  PROVE  Moves(past)
  <1>1. /\ client' \in ClientType /\ client'.sess = client.sess
        /\ client'.welcome = client.welcome /\ client'.deriving = client.deriving
        /\ client'.auth_required = client.auth_required
        /\ client'.auth_state = client.auth_state
    BY DEF ClientSetSecret, ClientInv, ClientType
  <1>2. ~client.deriving /\ emitted' = {}
    BY DEF ClientSetSecret, Busy
  <1>3. SameCore(client.sess, client'.sess)
    BY <1>1 DEF SameCore, ClientInv, ClientType
  <1> QED BY <1>1, <1>2, <1>3, KeptByClient DEF Moves

\* Three more iterations of the blocking calls' loops.
LEMMA ConnectingMoves ==
  ASSUME NEW past, ClientInv(client, past),
         ProbeReturns \/ ConnectTick \/ Connected \/ ConnectFails \/ Disconnect
  PROVE  Moves(past)
  <1> DEFINE k == SessionTick(client.sess)
             ticked == [client EXCEPT !.sess = k]
  <1>1. CASE ProbeReturns
    BY <1>1, ReturnKeepsInv DEF ProbeReturns, Moves
  <1>2. CASE ConnectTick
    <2>1. ClientInv(ticked, past)
      BY TickSame, WithSess DEF ClientInv, ClientType
    <2>2. \/ client' = ticked /\ emitted' = {HelloDatagram}
          \/ client' = Return(SettleAuth(ticked)) /\ emitted' = {}
      BY <1>2 DEF ConnectTick
    <2>3. Parsed(HelloDatagram)
      BY DatagramParsed DEF HelloDatagram, Facilities
    <2> HIDE DEF ticked
    <2> QED BY <2>1, <2>2, <2>3, ReturnKeepsInv, SettleKeepsInv DEF Moves
  <1>3. CASE Connected
    <2> DEFINE closed == [client EXCEPT !.sess = SessionClose(client.sess, "LOCAL")]
               c == [client EXCEPT !.call = "PUMP", !.waited = 0, !.input_age = 0, !.ping_age = 0]
    <2>1. (client' = Return(closed) \/ client' = c) /\ emitted' = {}
      BY <1>3 DEF Connected
    <2>2. ClientInv(closed, past)
      BY CloseKeepsInv DEF CloseReasons
    <2>3. /\ c \in ClientType /\ c.sess = client.sess
          /\ c.welcome = client.welcome /\ c.deriving = client.deriving
          /\ c.auth_required = client.auth_required /\ c.auth_state = client.auth_state
          /\ c.secret = client.secret
      BY DEF ClientInv, ClientType, Calls
    <2> HIDE DEF c, closed
    <2>4. ClientInv(c, past)
      BY <2>3, KeptByClient DEF SameCore, ClientInv, ClientType
    <2> QED BY <2>1, <2>2, <2>4, ReturnKeepsInv DEF Moves
  <1>4. CASE ConnectFails
    BY <1>4, SettleKeepsInv, ReturnKeepsInv DEF ConnectFails, Moves
  <1>5. CASE Disconnect
    <2> DEFINE closed == [client EXCEPT !.sess = SessionClose(client.sess, "LOCAL")]
    <2>1. /\ client' = Return(closed)
          /\ emitted' \subseteq {Datagram(client, "BYE")}
      BY <1>5 DEF Disconnect
    <2>2. ClientInv(closed, past)
      BY CloseKeepsInv DEF CloseReasons
    <2>3. Parsed(Datagram(client, "BYE"))
      BY DatagramParsed DEF Datagram, Facilities
    <2> HIDE DEF closed
    <2> QED BY <2>1, <2>2, <2>3, ReturnKeepsInv DEF Moves
  <1> QED BY <1>1, <1>2, <1>3, <1>4, <1>5

\* The derivation takes seconds, and the session may close meanwhile: the key
\* it then yields belongs to no session the client acts in.
LEMMA DerivationMoves ==
  ASSUME NEW past, ClientInv(client, past), DerivationEnds
  PROVE  Moves(past)
  <1> DEFINE k == Derived(client.secret, client.welcome.nonce)
             x == SessionSetKey(client.sess, k)
             e == [client EXCEPT !.deriving = FALSE, !.auth_state = "KEYED", !.sess = x]
  <1>1. /\ client.deriving /\ client.auth_required /\ client.secret \in Secrets
        /\ Offered(client.welcome, past) /\ client.welcome.auth
    BY DEF DerivationEnds, Busy, ClientInv
  <1>2. k \in Keys
    BY <1>1, LinkAssumption DEF Offered
  <1>3. /\ x \in SessionType /\ x.is_server = client.sess.is_server /\ x.key = k
        /\ x.session_id = client.sess.session_id /\ x.state = client.sess.state
    BY <1>2, SetKeyType DEF SessionSetKey, ClientInv, ClientType, SessionType
  <1>4. client' = e /\ emitted' = {}
    BY DEF DerivationEnds, ClientInv, ClientType
  <1> HIDE DEF x
  <1>5. /\ e \in ClientType /\ e.sess = x /\ e.welcome = client.welcome
        /\ e.deriving = FALSE /\ e.auth_required = client.auth_required
        /\ e.auth_state = "KEYED" /\ e.secret = client.secret
    BY <1>3 DEF ClientInv, ClientType, AuthStates
  <1> HIDE DEF e
  <1>6. ASSUME x.state = "ACTIVE"
        PROVE  InOffered(e, past)
    <2>1. InOffered(client, past) /\ KeyFollows(client, past)
      BY <1>1, <1>3, <1>6 DEF ClientInv, InOffered
    <2>2. KeyFollows(e, past)
      BY <2>1, <1>3, <1>5 DEF KeyFollows
    <2> QED BY <1>1, <1>3, <1>5, <2>1, <2>2 DEF InOffered
  <1>7. client.sess.state \in {"ACTIVE", "CLOSED"}
    BY <1>1 DEF ClientInv
  <1>8. ClientInv(e, past)
    BY <1>1, <1>3, <1>5, <1>6, <1>7 DEF ClientInv
  <1> QED BY <1>4, <1>8 DEF Moves

LEMMA PumpMoves ==
  ASSUME NEW past, ClientInv(client, past), PumpEnds \/ PumpSends
  PROVE  Moves(past)
  <1>1. CASE PumpEnds
    <2> DEFINE closed == [client EXCEPT !.sess = SessionClose(client.sess, "IDLE_TIMEOUT")]
    <2>1. ClientInv(closed, past)
      BY CloseKeepsInv DEF CloseReasons
    <2>2. [client EXCEPT !.sess = client.sess] = client
      BY DEF ClientInv, ClientType
    <2>3. \/ client' = Return(SettleAuth([client EXCEPT !.sess = client.sess]))
          \/ client' = Return(SettleAuth(closed))
      BY <1>1 DEF PumpEnds
    <2>4. emitted' = {}
      BY <1>1 DEF PumpEnds
    <2> HIDE DEF closed
    <2> QED BY <2>1, <2>2, <2>3, <2>4, SettleKeepsInv, ReturnKeepsInv DEF Moves
  <1>2. CASE PumpSends
    <2> DEFINE pings == PingDueFrom(client) /\ ~client.awaiting_pong
               fed == [Sent(client, "INPUT_STATE") EXCEPT !.input_age = 0]
               input == IF InputDue THEN fed ELSE client
               pinged == IF pings THEN Sent(input, "PING") ELSE input
               timed == [pinged EXCEPT !.ping_age = 0, !.awaiting_pong = pings]
    <2>1. client' = (IF PingDueFrom(client) THEN timed ELSE pinged)
      BY <1>2 DEF PumpSends
    <2>2. /\ emitted' \subseteq {InputDatagram(client), Datagram(client, "PING")}
      BY <1>2 DEF PumpSends
    <2>3. Parsed(InputDatagram(client)) /\ Parsed(Datagram(client, "PING"))
      BY DEF Parsed, InputDatagram, Datagram, Facilities, ClientInv, ClientType
    <2>4. ASSUME NEW c, ClientInv(c, past), NEW e,
                 \/ e = [c EXCEPT !.input_age = 0]
                 \/ \E b \in BOOLEAN : e = [c EXCEPT !.ping_age = 0, !.awaiting_pong = b]
          PROVE  ClientInv(e, past)
      <3> DEFINE Same(x) ==
             /\ x \in ClientType /\ x.sess = c.sess /\ x.welcome = c.welcome
             /\ x.deriving = c.deriving /\ x.auth_required = c.auth_required
             /\ x.auth_state = c.auth_state /\ x.secret = c.secret
      <3>1. Same([c EXCEPT !.input_age = 0])
        BY <2>4 DEF ClientInv, ClientType
      <3>2. ASSUME NEW b \in BOOLEAN
            PROVE  Same([c EXCEPT !.ping_age = 0, !.awaiting_pong = b])
        BY <2>4 DEF ClientInv, ClientType
      <3>3. Same(e)
        BY <2>4, <3>1, <3>2
      <3>4. SameCore(c.sess, e.sess)
        BY <2>4, <3>3 DEF SameCore, ClientInv, ClientType
      <3> QED BY <2>4, <3>3, <3>4, KeptByClient
    <2>5. ClientInv(input, past)
      BY <2>4, SentKeepsInv
    <2> HIDE DEF input
    <2>6. ClientInv(pinged, past)
      BY <2>5, SentKeepsInv
    <2> HIDE DEF pinged
    <2>7. pings \in BOOLEAN
      BY DEF PingDueFrom
    <2> HIDE DEF pings
    <2>8. ClientInv(timed, past)
      BY <2>4, <2>6, <2>7
    <2> QED BY <2>1, <2>2, <2>3, <2>6, <2>8 DEF Moves
  <1> QED BY <1>1, <1>2

LEMMA AgedMoves ==
  ASSUME NEW past, ClientInv(client, past)
  PROVE  ClientInv(ClientAged, past)
  <1> DEFINE w == IF client.call \in {"PROBE", "CONNECT"}
                    THEN Saturate(client.waited + 1, 2 * CallTimeout + 1) ELSE client.waited
             a == IF client.call = "PUMP" THEN Saturate(client.input_age + 1, InputInterval)
                                          ELSE client.input_age
             b == IF client.call = "PUMP" THEN Saturate(client.ping_age + 1, PingInterval)
                                          ELSE client.ping_age
             x == SessionAge(client.sess)
             e == [client EXCEPT !.sess = x, !.waited = w, !.input_age = a, !.ping_age = b]
  <1>1. SameCore(client.sess, x)
    BY AgeSame DEF ClientInv, ClientType
  <1>2. w \in Nat /\ a \in Nat /\ b \in Nat
    BY ClientAssumption DEF ClientInv, ClientType, Saturate
  <1>3. ClientAged = e
    BY DEF ClientAged, ClientInv, ClientType
  <1> HIDE DEF w, a, b, x
  <1>4. /\ e \in ClientType /\ e.sess = x /\ e.welcome = client.welcome
        /\ e.deriving = client.deriving /\ e.auth_required = client.auth_required
        /\ e.auth_state = client.auth_state /\ e.secret = client.secret
    BY <1>1, <1>2 DEF ClientInv, ClientType, SameCore
  <1> HIDE DEF e
  <1>5. ClientInv(e, past)
    BY <1>1, <1>4, KeptByClient
  <1> QED BY <1>3, <1>5

-----------------------------------------------------------------------------
(* What the client hears.                                                    *)

LEMMA HeardKeepsInv ==
  ASSUME NEW past, NEW c, ClientInv(c, past)
  PROVE  ClientInv(Heard(c), past) /\ Heard(c).sess.key = c.sess.key
  <1> DEFINE x == IF c.sess.state = "CLOSED" THEN c.sess ELSE SessionHeard(c.sess)
  <1>1. SameCore(c.sess, x)
    BY HeardSame DEF SameCore, ClientInv, ClientType
  <1>2. Heard(c) = [c EXCEPT !.sess = x]
    BY DEF Heard, ClientInv, ClientType
  <1> HIDE DEF x
  <1>3. [c EXCEPT !.sess = x].sess.key = c.sess.key
    BY <1>1 DEF SameCore, ClientInv, ClientType
  <1> QED BY <1>1, <1>2, <1>3, WithSess

\* The key that a tag was made with is the key of the client's own session:
\* both have the nonce of the WELCOME the client accepted.
LEMMA TagIsProof ==
  ASSUME NEW past, NEW drawn, Ledger(past, drawn),
         NEW c, ClientInv(c, past), c.sess.state = "ACTIVE", c.sess.key # NoKey,
         NEW i \in 1 .. NSlots, <<i, c.sess.key>> \in past
  PROVE  <<c.sess.session_id, c.sess.key>> \in past
  <1> DEFINE n == c.welcome.nonce
             k == c.sess.key
             id == c.sess.session_id
  <1>1. KeyFollows(c, past) /\ \E secret \in Secrets : k = Derived(secret, n)
    BY DEF ClientInv, InOffered
  <1>2. PICK secret \in Secrets : k = Derived(secret, n)
    BY <1>1
  <1>3. n \in Nonces
    BY <1>1 DEF KeyFollows, Offered
  <1>4. PICK g \in 0 .. MaxGeneration : <<id, Key(g, n)>> \in past
    BY <1>1 DEF KeyFollows, Offered
  <1>5. PICK h \in 0 .. MaxGeneration, m \in drawn : k = Key(h, m)
    <2>1. <<i, k>>[2] = k
      OBVIOUS
    <2> QED BY <2>1 DEF Ledger, Salted
  <1>6. m = n
    BY <1>2, <1>3, <1>5, LinkAssumption DEF Ledger
  <1> HIDE DEF n, k, id
  <1>7. <<id, Key(g, n)>> = <<i, k>>
    <2>1. <<id, Key(g, n)>>[2] = Key(g, n) /\ <<i, k>>[2] = Key(h, n)
      BY <1>5, <1>6
    <2>2. <<i, k>> \in past
      BY DEF k
    <2> QED BY <1>3, <1>4, <2>1, <2>2 DEF Ledger, OnePerNonce
  <1> QED BY <1>4, <1>7 DEF id, k

LEMMA VerifyKeepsInv ==
  ASSUME NEW past, NEW drawn, Ledger(past, drawn),
         NEW c, ClientInv(c, past), NEW m, Genuine(m, past),
         m.type \in Untagged \/ m.tag = c.sess.key
  PROVE  ClientInv(Verify(c, m), past)
  <1> DEFINE e == [c EXCEPT !.auth_state = "VERIFIED"]
  <1>1. CASE m.type \notin Untagged /\ m.tag # NoKey /\ c.auth_state = "KEYED"
    <2>1. PICK i \in 1 .. NSlots : <<i, c.sess.key>> \in past
      BY <1>1 DEF Genuine
    <2>2. c.sess.state = "ACTIVE" => <<c.sess.session_id, c.sess.key>> \in past
      BY <1>1, <2>1, TagIsProof
    <2>3. /\ e \in ClientType /\ e.sess = c.sess /\ e.welcome = c.welcome
          /\ e.deriving = c.deriving /\ e.auth_required = c.auth_required
          /\ e.secret = c.secret
      BY DEF ClientInv, ClientType, AuthStates
    <2> HIDE DEF e
    <2>4. ASSUME c.sess.state = "ACTIVE"
          PROVE  InOffered(e, past)
      BY <2>2, <2>3, <2>4 DEF ClientInv, InOffered, KeyFollows
    <2>5. ClientInv(e, past)
      BY <2>3, <2>4 DEF ClientInv
    <2>6. Verify(c, m) = e
      BY <1>1 DEF Verify, e, Untagged
    <2> QED BY <2>5, <2>6
  <1>2. CASE ~(m.type \notin Untagged /\ m.tag # NoKey /\ c.auth_state = "KEYED")
    <2>1. Verify(c, m) = c
      BY <1>2 DEF Verify, Untagged
    <2> QED BY <2>1
  <1> QED BY <1>1, <1>2

\* The record once a WELCOME is adopted and acknowledged, before anything is
\* made of its nonce.
Acknowledged(c, m) ==
  LET adopted == [c EXCEPT !.welcome = m,
                    !.sess = IF @.state = "CLOSED" THEN @ ELSE OnRecvWelcome(@, m.sid)]
  IN  IF CanSend(adopted.sess) THEN Sent(adopted, "ACK") ELSE adopted

LEMMA WelcomeAdopted ==
  ASSUME NEW past, NEW c, ClientInv(c, past), NEW m, Offered(m, past)
  PROVE  LET a == Acknowledged(c, m)
         IN  /\ a \in ClientType /\ ~a.sess.is_server
             /\ a.welcome = m /\ a.deriving = c.deriving /\ a.secret = c.secret
             /\ a.auth_required = c.auth_required /\ a.auth_state = c.auth_state
             /\ IF c.sess.state = "CLOSED" THEN a.sess = c.sess
                ELSE /\ a.sess.state = "ACTIVE" /\ a.sess.session_id = m.sid
                     /\ a.sess.key = c.sess.key
  <1> DEFINE x == IF c.sess.state = "CLOSED" THEN c.sess ELSE OnRecvWelcome(c.sess, m.sid)
             b == [c EXCEPT !.welcome = m, !.sess = x]
             a == IF CanSend(b.sess) THEN Sent(b, "ACK") ELSE b
  <1>1. m \in WelcomeType /\ m.sid \in Nat
    BY DEF Offered, WelcomeType
  <1>2. /\ x \in SessionType /\ ~x.is_server
        /\ IF c.sess.state = "CLOSED" THEN x = c.sess
           ELSE x.state = "ACTIVE" /\ x.session_id = m.sid /\ x.key = c.sess.key
    BY <1>1, WelcomeReceived DEF ClientInv, ClientType
  <1>6. Acknowledged(c, m) = a
    BY DEF Acknowledged, ClientInv, ClientType
  <1> HIDE DEF x
  <1>3. /\ b \in ClientType /\ b.sess = x /\ b.welcome = m
        /\ b.deriving = c.deriving /\ b.secret = c.secret
        /\ b.auth_required = c.auth_required /\ b.auth_state = c.auth_state
    BY <1>1, <1>2 DEF ClientInv, ClientType
  <1> HIDE DEF b
  <1>4. CASE c.sess.state = "CLOSED"
    <2>1. a = b
      BY <1>2, <1>3, <1>4 DEF CanSend
    <2> QED BY <1>2, <1>3, <1>4, <1>6, <2>1
  <1>5. CASE c.sess.state # "CLOSED"
    <2> DEFINE e == Sent(b, "ACK")
    <2>1. a = e
      BY <1>2, <1>3, <1>5 DEF CanSend
    <2>2. /\ e \in ClientType /\ e = [b EXCEPT !.sess = e.sess, !.tx_seq = e.tx_seq]
          /\ SameCore(b.sess, e.sess)
      BY <1>2, <1>3, SentByClient
    <2> HIDE DEF e
    <2>3. /\ e.welcome = b.welcome /\ e.deriving = b.deriving /\ e.secret = b.secret
          /\ e.auth_required = b.auth_required /\ e.auth_state = b.auth_state
      BY <1>3, <2>2 DEF ClientType
    <2> HIDE DEF a
    <2>4. /\ a \in ClientType /\ ~a.sess.is_server
          /\ a.welcome = m /\ a.deriving = c.deriving /\ a.secret = c.secret
          /\ a.auth_required = c.auth_required /\ a.auth_state = c.auth_state
          /\ a.sess.state = "ACTIVE" /\ a.sess.session_id = m.sid
          /\ a.sess.key = c.sess.key
      BY <1>2, <1>3, <1>5, <2>1, <2>2, <2>3 DEF SameCore
    <2> QED BY <1>5, <1>6, <2>4
  <1> QED BY <1>4, <1>5

\* A key is held only where the guard of ReceiveWelcome lets none through, or in
\* a closed record: the nonce of the WELCOME at hand is that of the key to come.
LEMMA WelcomeKeepsInv ==
  ASSUME NEW past, NEW m, Offered(m, past), ClientInv(client, past),
         ~client.deriving, ~OldWelcome(m)
  PROVE  ClientInv(AfterWelcome(client, m), past)
  <1> DEFINE a == Acknowledged(client, m)
             keyless == a.sess.key = NoKey
             barred == [a EXCEPT !.auth_required = TRUE, !.auth_state = "NEED_SECRET"]
             busy == [a EXCEPT !.auth_required = TRUE, !.deriving = TRUE]
             tagged == [a EXCEPT !.auth_required = TRUE]
  <1>1. /\ a \in ClientType /\ ~a.sess.is_server
        /\ a.welcome = m /\ a.deriving = FALSE /\ a.secret = client.secret
        /\ a.auth_required = client.auth_required /\ a.auth_state = client.auth_state
        /\ IF client.sess.state = "CLOSED" THEN a.sess = client.sess
           ELSE /\ a.sess.state = "ACTIVE" /\ a.sess.session_id = m.sid
                /\ a.sess.key = client.sess.key
    BY WelcomeAdopted DEF ClientInv, ClientType
  <1>2. m.auth \in BOOLEAN /\ m.sid \in 1 .. NSlots /\ m.type = "WELCOME"
    BY DEF Offered, WelcomeType
  <1>3. AfterWelcome(client, m) =
          CASE ~m.auth -> a
            [] m.auth /\ keyless /\ a.secret = NoSecret -> barred
            [] m.auth /\ keyless /\ a.secret # NoSecret -> busy
            [] OTHER -> tagged
    BY DEF AfterWelcome, Acknowledged
  <1> HIDE DEF a
  <1>4. a.sess.state \in {"ACTIVE", "CLOSED"}
    BY <1>1
  <1>5. a.sess.state = "ACTIVE" => /\ a.sess.key = NoKey /\ a.sess.session_id = m.sid
                                   /\ client.sess.state # "CLOSED"
    BY <1>1, <1>2 DEF ClientInv, OldWelcome
  <1>6. a.sess.key # NoKey => a.auth_required
    BY <1>1 DEF ClientInv
  <1>7. CASE ~m.auth
    <2>1. a.sess.state = "ACTIVE" => InOffered(a, past)
      BY <1>1, <1>2, <1>5, <1>7 DEF InOffered, Offered
    <2>2. ClientInv(a, past)
      BY <1>1, <1>4, <1>6, <2>1 DEF ClientInv
    <2> QED BY <1>3, <1>7, <2>2
  <1>8. CASE m.auth /\ keyless /\ a.secret = NoSecret
    <2>1. /\ barred \in ClientType /\ barred.sess = a.sess /\ barred.deriving = FALSE
          /\ barred.auth_required = TRUE /\ barred.auth_state = "NEED_SECRET"
      BY <1>1 DEF ClientType, AuthStates
    <2>2. AfterWelcome(client, m) = barred
      BY <1>3, <1>8
    <2> HIDE DEF barred
    <2>3. ClientInv(barred, past)
      BY <1>1, <1>2, <1>4, <1>5, <2>1 DEF ClientInv, InOffered
    <2> QED BY <2>2, <2>3
  <1>9. CASE m.auth /\ keyless /\ a.secret # NoSecret
    <2>1. /\ busy \in ClientType /\ busy.sess = a.sess /\ busy.deriving = TRUE
          /\ busy.auth_required = TRUE /\ busy.welcome = m /\ busy.secret = a.secret
      BY <1>1 DEF ClientType
    <2>2. busy.secret \in Secrets
      BY <1>9, <2>1 DEF ClientType
    <2>3. AfterWelcome(client, m) = busy
      BY <1>3, <1>9
    <2> HIDE DEF busy
    <2>4. a.sess.state = "ACTIVE" => InOffered(busy, past)
      BY <1>2, <1>5, <1>9, <2>1 DEF InOffered, KeyFollows
    <2>5. ClientInv(busy, past)
      BY <1>1, <1>4, <1>9, <2>1, <2>2, <2>4 DEF ClientInv
    <2> QED BY <2>3, <2>5
  <1>10. CASE m.auth /\ ~keyless
    <2>1. /\ tagged \in ClientType /\ tagged.sess = a.sess /\ tagged.deriving = FALSE
          /\ tagged.auth_required = TRUE
      BY <1>1 DEF ClientType
    <2>2. AfterWelcome(client, m) = tagged
      BY <1>3, <1>10
    <2> HIDE DEF tagged
    <2>3. ClientInv(tagged, past)
      BY <1>1, <1>4, <1>5, <1>10, <2>1 DEF ClientInv
    <2> QED BY <2>2, <2>3
  <1> QED BY <1>2, <1>7, <1>8, <1>9, <1>10

LEMMA FailedKeepsInv ==
  ASSUME NEW past, NEW c, ClientInv(c, past)
  PROVE  ClientInv([c EXCEPT !.auth_state = "FAILED"], past)
  <1> DEFINE e == [c EXCEPT !.auth_state = "FAILED"]
  <1>1. /\ e \in ClientType /\ e.sess = c.sess /\ e.welcome = c.welcome
        /\ e.deriving = c.deriving /\ e.auth_required = c.auth_required
        /\ e.auth_state = "FAILED" /\ e.secret = c.secret
    BY DEF ClientInv, ClientType, AuthStates
  <1> HIDE DEF e
  <1>2. SameCore(c.sess, e.sess)
    BY <1>1 DEF SameCore, ClientInv, ClientType
  <1>3. ClientInv(e, past)
    BY <1>1, <1>2, KeptByClient
  <1> QED BY <1>3 DEF e

\* One iteration of drain_rx, whatever the server has sent.
LEMMA ReceivesMoves ==
  ASSUME NEW past, NEW drawn, Ledger(past, drawn), ClientInv(client, past),
         NEW m, Genuine(m, past), ClientReceives(m)
  PROVE  Moves(past)
  <1> DEFINE heard == Heard(client)
             verified == Verify(heard, m)
  <1>1. Parsed(AckDatagram(client, m.sid, 0)) /\ Parsed(PongDatagram(verified))
    BY DatagramParsed DEF AckDatagram, PongDatagram, Facilities
  <1>2. ClientInv(heard, past) /\ heard.sess.key = client.sess.key
    BY HeardKeepsInv
  <1>3. ASSUME m.type \notin Untagged, Admits(m)
        PROVE  ClientInv(verified, past) /\ ClientInv(Verify(client, m), past)
    <2>1. m.tag = client.sess.key
      BY <1>3 DEF Admits, Untagged
    <2> QED BY <1>2, <2>1, VerifyKeepsInv
  <1> HIDE DEF verified, heard
  <1>4. CASE ReceiveOldWelcome(m)
    BY <1>1, <1>4, SentKeepsInv DEF ReceiveOldWelcome, Moves
  <1>5. CASE ReceiveRefused(m)
    BY <1>5, FailedKeepsInv DEF ReceiveRefused, Moves
  <1>6. CASE ReceiveWelcome(m)
    <2>1. /\ client' = AfterWelcome(client, m) /\ ~client.deriving /\ ~OldWelcome(m)
          /\ emitted' \subseteq {AckDatagram(client, m.sid, 0)} /\ m.type = "WELCOME"
      BY <1>6 DEF ReceiveWelcome, Draining, Busy
    <2>2. Offered(m, past)
      BY <2>1 DEF Genuine
    <2> QED BY <1>1, <2>1, <2>2, WelcomeKeepsInv DEF Moves
  <1>7. CASE ReceiveAnnounce(m)
    <2> DEFINE e == [heard EXCEPT !.pairing_required = IF m.pairing_required THEN "YES" ELSE "NO"]
    <2>1. client' = e /\ emitted' = {}
      BY <1>7 DEF ReceiveAnnounce, heard
    <2>2. /\ e \in ClientType /\ e.sess = heard.sess /\ e.welcome = heard.welcome
          /\ e.deriving = heard.deriving /\ e.auth_required = heard.auth_required
          /\ e.auth_state = heard.auth_state /\ e.secret = heard.secret
      BY <1>2 DEF ClientInv, ClientType
    <2> HIDE DEF e
    <2>3. SameCore(heard.sess, e.sess)
      BY <1>2, <2>2 DEF SameCore, ClientInv, ClientType
    <2> QED BY <1>2, <2>1, <2>2, <2>3, KeptByClient DEF Moves
  <1>8. CASE ReceivePong(m)
    <2>1. PICK answers \in BOOLEAN :
            client' = [verified EXCEPT !.awaiting_pong = @ /\ ~answers]
      BY <1>8 DEF ReceivePong, verified, heard
    <2>2. ClientInv(verified, past)
      BY <1>3, <1>8 DEF ReceivePong, Untagged
    <2> DEFINE b == verified.awaiting_pong /\ ~answers
               e == [verified EXCEPT !.awaiting_pong = b]
    <2>3. client' = e /\ b \in BOOLEAN
      BY <2>1, <2>2 DEF ClientInv, ClientType
    <2> HIDE DEF b
    <2>4. /\ e \in ClientType /\ e.sess = verified.sess /\ e.welcome = verified.welcome
          /\ e.deriving = verified.deriving /\ e.auth_required = verified.auth_required
          /\ e.auth_state = verified.auth_state /\ e.secret = verified.secret
      BY <2>2, <2>3 DEF ClientInv, ClientType
    <2> HIDE DEF e
    <2>5. SameCore(verified.sess, e.sess)
      BY <2>2, <2>4 DEF SameCore, ClientInv, ClientType
    <2>6. emitted' = {}
      BY <1>8 DEF ReceivePong
    <2> QED BY <2>2, <2>3, <2>4, <2>5, <2>6, KeptByClient DEF Moves
  <1>9. CASE ReceivePing(m)
    <2>1. ClientInv(verified, past)
      BY <1>3, <1>9 DEF ReceivePing, Untagged
    <2>2. \/ client' = Sent(verified, "PONG") /\ emitted' = {PongDatagram(verified)}
          \/ client' = verified /\ emitted' = {}
      BY <1>9 DEF ReceivePing, verified, heard
    <2> QED BY <1>1, <2>1, <2>2, SentKeepsInv DEF Moves
  <1>10. CASE ReceiveError(m)
    <2> DEFINE closed == [heard EXCEPT !.sess = SessionClose(heard.sess, "PEER_ERROR")]
    <2>1. ClientInv(closed, past)
      BY <1>2, CloseKeepsInv DEF CloseReasons
    <2>2. client' \in {[heard EXCEPT !.auth_state = "FAILED"], closed, heard} /\ emitted' = {}
      BY <1>10 DEF ReceiveError, AfterError, heard
    <2> HIDE DEF closed
    <2> QED BY <1>2, <2>1, <2>2, FailedKeepsInv DEF Moves
  <1>11. CASE ReceiveOther(m)
    <2>1. ClientInv(verified, past)
      BY <1>3, <1>11 DEF ReceiveOther, Untagged
    <2>2. client' = verified /\ emitted' = {}
      BY <1>11 DEF ReceiveOther, verified, heard
    <2> QED BY <2>1, <2>2 DEF Moves
  <1> QED BY <1>4, <1>5, <1>6, <1>7, <1>8, <1>9, <1>10, <1>11 DEF ClientReceives

-----------------------------------------------------------------------------
(* What the server sends.                                                    *)

\* Made with the key of a session that lived when the call began.
Signed(msgs) ==
  \A m \in msgs : m.type \notin Untagged =>
    \E i \in Slots : sessions[i].in_use /\ m.tag = sessions[i].core.key

LEMMA RefusalSigned ==
  ASSUME NEW to, NEW code, Refuse(to, code)
  PROVE  Signed(sent')
  BY DEF Refuse, ErrorMsg, Signed, Untagged

LEMMA SilenceSigned ==
  Signed({})
  BY DEF Signed

LEMMA WelcomeSigned ==
  ASSUME NEW w \in WelcomeType
  PROVE  Signed({w})
  BY DEF Signed, Untagged, WelcomeType

LEMMA HandlerSigned ==
  ASSUME IInv, NEW from \in Peers, NEW d, CheckAuth(from, d),
         HandlePing(from, d) \/ HandleBye(from, d)
  PROVE  Signed(sent')
  <1>1. PICK i \in Slots :
          /\ Reaches(i, from, d)
          /\ sent' \in {{PlainMsg(Checked(from, d)[i], "PONG")},
                        {AckMsg(Checked(from, d)[i], "BYE")}}
    BY DEF HandlePing, HandleBye
  <1>2. Checked(from, d)[i].core = sessions[i].core /\ sessions[i].in_use
    BY <1>1, UsedSlot DEF IInv, Checked, Verified, Reaches, Known, SlotType
  <1>3. \A m \in sent' : m.tag = sessions[i].core.key
    BY <1>1, <1>2 DEF PlainMsg, AckMsg, HeaderTag
  <1> QED BY <1>2, <1>3 DEF Signed

LEMMA DatagramSigned ==
  ASSUME IInv, Vacated, NEW from \in Peers, NEW d, Parsed(d), OnDatagram(from, d)
  PROVE  Signed(sent')
  <1>1. CASE AuthFailed(from, d) \/ AuthDropped(from, d)
    BY <1>1, RefusalSigned, SilenceSigned DEF AuthFailed, AuthDropped
  <1>2. CASE HandleDiscover(from, d)
    BY <1>2 DEF HandleDiscover, AnnounceMsg, Signed, Untagged
  <1>3. CASE \/ HelloRejected(from, d) \/ HandshakeWithSid(from, d) \/ HelloNoSlot(from, d)
             \/ HelloPadFails(from, d) \/ HelloRateRefused(from, d) \/ HelloNoEntropy(from, d)
             \/ UnknownSession(from, d) \/ NotFromPeer(from, d)
    BY <1>3, RefusalSigned, SilenceSigned
    DEF HelloRejected, HandshakeWithSid, HelloNoSlot, HelloPadFails, HelloRateRefused,
        HelloNoEntropy, UnknownSession, NotFromPeer
  <1>4. CASE HelloDuplicate(from, d)
    <2>1. PICK i \in Slots : sessions[i].in_use /\ sent' = {sessions[i].welcome}
      BY <1>4 DEF HelloDuplicate
    <2>2. sessions[i].welcome \in WelcomeType
      BY <2>1, UsedSlot DEF IInv, SlotInv
    <2> QED BY <2>1, <2>2, WelcomeSigned
  <1>5. CASE HelloPlain(from, d) \/ HelloPairing(from, d)
    <2>1. OpensStep(from)
      BY <1>5, HelloPlainStep, HelloPairingStep
    <2>2. PICK i \in Slots : sessions'[i].in_use /\ sent' = {sessions'[i].welcome}
      BY <2>1 DEF OpensStep, OpensFor, Opens
    <2>3. SlotInv(i, sessions'[i])
      BY DatagramInv DEF IInv, Table
    <2>4. sessions'[i].welcome \in WelcomeType
      BY <2>2, <2>3 DEF SlotInv
    <2> QED BY <2>2, <2>4, WelcomeSigned
  <1>6. CASE \/ HandleInputState(from, d) \/ HandleKbm(from, d) \/ HandlePong(from, d)
             \/ HandleAck(from, d) \/ HandleOther(from, d)
    BY <1>6, SilenceSigned
    DEF HandleInputState, HandleKbm, HandlePong, HandleAck, HandleOther
  <1>7. CASE CheckAuth(from, d) /\ (HandlePing(from, d) \/ HandleBye(from, d))
    BY <1>7, HandlerSigned
  <1> QED BY <1>1, <1>2, <1>3, <1>4, <1>5, <1>6, <1>7 DEF OnDatagram, Dispatch

LEMMA TickSigned ==
  ASSUME IInv, Tick
  PROVE  Signed(sent')
  <1>1. ASSUME NEW i \in Slots, NEW m \in TickSends(sessions[i]), m.type \notin Untagged
        PROVE  sessions[i].in_use /\ m.tag = sessions[i].core.key
    <2> DEFINE s == sessions[i]
    <2>1. s.in_use
      BY DEF TickSends
    <2>2. s.welcome \in WelcomeType
      BY <2>1, UsedSlot DEF IInv, SlotInv
    <2>3. m \in {PlainMsg(s, "TOUCHMAP"), CapsMsg(s), PlainMsg(s, "PING")}
      BY <1>1, <2>2 DEF TickSends, Untagged, WelcomeType
    <2> QED BY <2>1, <2>3 DEF PlainMsg, CapsMsg, HeaderTag
  <1> QED BY <1>1 DEF Tick, Signed

\* A slot in use, with the key its WELCOME salts.
LEMMA SlotKeys ==
  ASSUME NEW i \in Slots, NEW s, SlotInv(i, s), Housed(i, s), s.in_use,
         s.auth_required => s.pair_generation \in 0 .. MaxGeneration
  PROVE  /\ s.core.session_id = i + 1 /\ i + 1 \in 1 .. NSlots
         /\ s.welcome \in WelcomeType /\ s.welcome.sid = i + 1
         /\ s.welcome.auth = s.auth_required
         /\ s.auth_required => /\ s.welcome.nonce \in Nonces
                               /\ s.core.key = Key(s.pair_generation, s.welcome.nonce)
         /\ ~s.auth_required => s.core.key = NoKey
         /\ s.core.key \in SessionKeys
  BY ServerAssumption DEF SlotInv, Housed, Slots, SessionKeys

LEMMA WelcomeOffered ==
  ASSUME NEW i \in Slots, NEW s, SlotInv(i, s), Housed(i, s), s.in_use,
         s.auth_required => s.pair_generation \in 0 .. MaxGeneration,
         NEW past, <<s.core.session_id, s.core.key>> \in past
  PROVE  Offered(s.welcome, past)
  BY SlotKeys DEF Offered

LEMMA GenuineStays ==
  ASSUME NEW past, NEW more, past \subseteq more, NEW m, Genuine(m, past)
  PROVE  Genuine(m, more)
  BY DEF Genuine, Offered

LEMMA ClientStays ==
  ASSUME NEW past, NEW more, past \subseteq more, NEW c, ClientInv(c, past)
  PROVE  ClientInv(c, more)
  BY DEF ClientInv, InOffered, KeyFollows, Offered

\* Everything a call sends is genuine, and every nonce in it one of Nonces.
LEMMA SentGenuine ==
  ASSUME TableInv, TableInv', IInv, IInv', Registry', granted \subseteq granted',
         Ledger(granted, spent), Signed(sent'), Cached(sent', sessions')
  PROVE  /\ \A m \in sent' : Genuine(m, granted')
         /\ NoncesOf(sent') \subseteq Nonces
  <1>1. ASSUME NEW m \in sent', m.type = "WELCOME"
        PROVE  Offered(m, granted')
    <2>1. PICK i \in Slots : sessions'[i].in_use /\ sessions'[i].welcome = m
      BY <1>1 DEF Cached
    <2>2. SlotInv(i, sessions'[i]) /\ Housed(i, sessions'[i])
      BY <2>1 DEF IInv, Table, Registry
    <2>3. /\ sessions'[i].auth_required => sessions'[i].pair_generation \in 0 .. MaxGeneration
          /\ <<sessions'[i].core.session_id, sessions'[i].core.key>> \in granted'
      BY <2>1 DEF TableInv
    <2> QED BY <2>1, <2>2, <2>3, WelcomeOffered
  <1>2. ASSUME NEW m \in sent', m.type \notin Untagged
        PROVE  \E i \in 1 .. NSlots : <<i, m.tag>> \in granted'
    <2>1. PICK i \in Slots : sessions[i].in_use /\ m.tag = sessions[i].core.key
      BY <1>2 DEF Signed
    <2>2. <<sessions[i].core.session_id, m.tag>> \in granted'
      BY <2>1 DEF TableInv
    <2>3. sessions[i].core.session_id \in 1 .. NSlots
      BY <2>1, UsedSlot, ServerAssumption DEF IInv, SlotInv, Slots
    <2> QED BY <2>2, <2>3
  <1>3. NoncesOf(sent') \subseteq Nonces
    BY <1>1 DEF NoncesOf, Offered
  <1> QED BY <1>1, <1>2, <1>3 DEF Genuine

\* At most one slot is in use: the client's.
Sole(t) ==
  \A i \in Slots : t[i].in_use =>
    t[i].peer = ThePeer /\ \A j \in Slots : t[j].in_use => j = i

LEMMA SoleHeld ==
  ASSUME NEW t, Sole(t)
  PROVE  /\ (\A i \in Slots : ~t[i].in_use) => TheSession(t) = {}
         /\ \A i \in Slots : t[i].in_use =>
              TheSession(t) = {<<t[i].core.session_id, t[i].core.key>>}
  BY DEF Sole, TheSession

LEMMA OneOf ==
  ASSUME NEW x, NEW none
  PROVE  AnyOf({}, none) = none /\ AnyOf({x}, none) = x
  BY DEF AnyOf

LEMMA TableIsSole ==
  TableInv /\ Registry => Sole(sessions)
  BY DEF TableInv, Registry, Distinct, Sole

-----------------------------------------------------------------------------
(* The server's steps.                                                       *)

\* No session begins: the one there was lives on, or there is none.
LEMMA SettledServer ==
  ASSUME LInv, IInv', SettlesStep, Signed(sent'),
         spent' = spent \/ spent' = spent \cup NoncesOf(sent'),
         granted' = granted \/ granted' = granted \cup TheSession(sessions')
  PROVE  /\ SInv' /\ TableInv' /\ Ledger(granted', spent') /\ granted' = granted
         /\ \A m \in sent' : Genuine(m, granted')
         /\ HeldSession' = HeldSession \/ HeldSession' = NoSession
  <1>1. SettlesAll /\ Cached(sent', sessions')
    BY DEF SettlesStep
  <1>2. SInv'
    BY <1>1, SettlesRegistry DEF LInv, SInv
  <1>3. ASSUME NEW i \in Slots, sessions'[i].in_use
        PROVE  /\ sessions[i].in_use /\ sessions'[i].peer = sessions[i].peer
               /\ sessions'[i].pair_generation = sessions[i].pair_generation
               /\ sessions'[i].auth_required = sessions[i].auth_required
               /\ sessions'[i].core.session_id = sessions[i].core.session_id
               /\ sessions'[i].core.key = sessions[i].core.key
    <2>1. Settles(sessions[i], sessions'[i])
      BY <1>1 DEF SettlesAll
    <2> QED BY <1>3, <2>1 DEF Settles, Lives, Vacant, CoreLives
  <1>4. TheSession(sessions') \subseteq granted
    BY <1>3 DEF TheSession, LInv, TableInv
  <1>5. granted' = granted
    BY <1>4
  <1>6. TableInv'
    BY <1>3, <1>5 DEF LInv, TableInv
  <1>7. (\A m \in sent' : Genuine(m, granted')) /\ NoncesOf(sent') \subseteq Nonces
    BY <1>1, <1>2, <1>5, <1>6, SentGenuine DEF LInv, SInv
  <1>8. Ledger(granted', spent')
    BY <1>5, <1>7 DEF LInv, Ledger, Salted
  <1>9. HeldSession' = HeldSession \/ HeldSession' = NoSession
    <2>1. Sole(sessions) /\ Sole(sessions')
      <3>1. Sole(sessions)
        BY TableIsSole DEF LInv, SInv
      <3>2. Sole(sessions')
        BY <1>3, <3>1 DEF Sole
      <3> QED BY <3>1, <3>2
    <2>2. CASE \A i \in Slots : ~sessions'[i].in_use
      BY <2>1, <2>2, SoleHeld, OneOf DEF HeldSession, NoSession
    <2>3. CASE \E i \in Slots : sessions'[i].in_use
      <3>1. PICK i \in Slots : sessions'[i].in_use
        BY <2>3
      <3>2. TheSession(sessions') = {<<sessions'[i].core.session_id, sessions'[i].core.key>>}
        BY <2>1, <3>1, SoleHeld
      <3>3. TheSession(sessions) = {<<sessions[i].core.session_id, sessions[i].core.key>>}
        BY <1>3, <2>1, <3>1, SoleHeld
      <3>4. TheSession(sessions') = TheSession(sessions)
        BY <1>3, <3>1, <3>2, <3>3
      <3> QED BY <3>4 DEF HeldSession, NoSession
    <2> QED BY <2>2, <2>3
  <1> QED BY <1>2, <1>5, <1>6, <1>7, <1>8, <1>9

\* A session begins: there was none, and its nonce was never drawn before.
LEMMA OpenedServer ==
  ASSUME LInv, IInv', OpensStep(ThePeer), Signed(sent'), NoncesAreNew,
         spent' = spent \cup NoncesOf(sent'),
         granted' = granted \cup TheSession(sessions')
  PROVE  /\ SInv' /\ TableInv' /\ Ledger(granted', spent')
         /\ granted' = granted \cup {HeldSession'}
         /\ \A m \in sent' : Genuine(m, granted')
         /\ HeldSession = NoSession
         /\ HeldSession' \in (1 .. NSlots) \X SessionKeys
  <1>1. PICK i \in Slots :
          /\ ~sessions[i].in_use /\ Opens(i, sessions'[i]) /\ sessions'[i].peer = ThePeer
          /\ sent' = {sessions'[i].welcome}
          /\ \A j \in Slots \ {i} : sessions'[j] = sessions[j]
    BY DEF OpensStep, OpensFor
  <1>2. Cached(sent', sessions')
    BY DEF OpensStep
  <1>3. SInv'
    <2>1. Registry'
      BY LinkAssumption, OpensRegistry DEF LInv, SInv, OpensStep, OpensOne
    <2> QED BY <1>2, <2>1 DEF SInv
  <1> DEFINE t == sessions'[i]
             x == <<t.core.session_id, t.core.key>>
  <1>4. /\ t.in_use /\ Housed(i, t) /\ SlotInv(i, t) /\ ~HasSession(ThePeer)
        /\ t.auth_required => t.pair_generation = pairing.generation
    BY <1>1 DEF Opens, IInv, Table
  <1>5. t.auth_required => t.pair_generation \in 0 .. MaxGeneration
    BY <1>4, ServerAssumption DEF LInv, SInv, IInv, Window, PairingType
  <1>6. /\ t.core.session_id \in 1 .. NSlots /\ t.welcome \in WelcomeType
        /\ t.welcome.auth = t.auth_required /\ t.core.key \in SessionKeys
        /\ t.auth_required => /\ t.welcome.nonce \in Nonces
                              /\ t.core.key = Key(t.pair_generation, t.welcome.nonce)
        /\ ~t.auth_required => t.core.key = NoKey
    BY <1>4, <1>5, SlotKeys
  <1>7. Sole(sessions) /\ Sole(sessions')
    <2>1. \A j \in Slots : ~sessions[j].in_use
      BY <1>4 DEF LInv, TableInv, HasSession
    <2> QED BY <1>1, <2>1 DEF Sole
  <1>8. HeldSession = NoSession
    <2>1. TheSession(sessions) = {}
      BY <1>4, <1>7, SoleHeld DEF LInv, TableInv, HasSession
    <2> QED BY <2>1, OneOf DEF HeldSession
  <1>9. TheSession(sessions') = {x} /\ HeldSession' = x
    <2>1. TheSession(sessions') = {x}
      BY <1>4, <1>7, SoleHeld
    <2> QED BY <2>1, OneOf DEF HeldSession
  <1>10. granted' = granted \cup {x} /\ x \in (1 .. NSlots) \X SessionKeys
    BY <1>6, <1>9
  <1>11. TableInv'
    <2>1. ASSUME NEW j \in Slots, sessions'[j].in_use
          PROVE  j = i
      BY <1>1, <1>4, <2>1 DEF LInv, TableInv, HasSession
    <2> QED BY <1>1, <1>5, <1>10, <2>1 DEF TableInv
  <1>12. (\A m \in sent' : Genuine(m, granted')) /\ NoncesOf(sent') \subseteq Nonces
    BY <1>2, <1>3, <1>10, <1>11, SentGenuine DEF LInv, SInv
  <1>13. ASSUME t.auth_required
         PROVE  t.welcome.nonce \in spent' /\ t.welcome.nonce \notin spent
    BY <1>1, <1>4, <1>6, <1>13 DEF NoncesOf, NoncesAreNew, WelcomeType
  <1>14. x[2] = t.core.key
    OBVIOUS
  <1> HIDE DEF x, t
  <1>15. Salted(granted', spent')
    <2>1. ASSUME x[2] # NoKey
          PROVE  \E g \in 0 .. MaxGeneration, n \in spent' : x[2] = Key(g, n)
      BY <1>5, <1>6, <1>13, <1>14, <2>1
    <2> QED BY <1>10, <2>1 DEF LInv, Ledger, Salted
  <1>16. OnePerNonce(granted')
    <2>1. ASSUME NEW y \in granted, NEW g \in 0 .. MaxGeneration, NEW h \in 0 .. MaxGeneration,
                 NEW n \in Nonces, x[2] = Key(g, n)
          PROVE  y[2] # Key(h, n)
      <3>1. Key(g, n) # NoKey /\ Key(h, n) # NoKey
        BY ServerAssumption, SessionAssumption
      <3>2. t.auth_required /\ n = t.welcome.nonce
        BY <1>6, <1>14, <2>1, <3>1 DEF Key
      <3>3. n \notin spent
        BY <1>13, <3>2
      <3>4. ASSUME y[2] = Key(h, n)
            PROVE  FALSE
        <4>1. PICK k \in 0 .. MaxGeneration, m \in spent : y[2] = Key(k, m)
          BY <3>1, <3>4 DEF LInv, Ledger, Salted
        <4> QED BY <3>3, <3>4, <4>1 DEF Key
      <3> QED BY <3>4
    <2>2. OnePerNonce(granted)
      BY DEF LInv, Ledger
    <2> QED BY <1>10, <2>1, <2>2 DEF OnePerNonce
  <1>17. Ledger(granted', spent')
    BY <1>10, <1>12, <1>15, <1>16 DEF LInv, Ledger
  <1> QED BY <1>3, <1>8, <1>9, <1>10, <1>11, <1>12, <1>17

\* The server's process comes back and remembers nothing; the network and the
\* client still do.
LEMMA RestartedServer ==
  ASSUME LInv, Restart
  PROVE  SInv' /\ TableInv' /\ HeldSession' = NoSession
  <1>1. /\ sessions' = [i \in Slots |-> NeverUsedSlot]
        /\ backend' = [i \in Slots |-> NoDevices]
        /\ pairing' = PairingClose(pairing) /\ sent' = {}
    BY DEF Restart
  <1>2. IInv'
    BY <1>1, FreshTable, CloseWindowInv DEF LInv, SInv, IInv, Addressed
  <1>3. \A i \in Slots : Vacant(sessions'[i])
    BY <1>1, NeverUsedType
  <1>4. SInv'
    BY <1>1, <1>2, <1>3, SilenceCached DEF SInv, Registry, Distinct, Vacant
  <1>5. Sole(sessions')
    BY <1>3 DEF Sole, Vacant
  <1>6. TheSession(sessions') = {}
    BY <1>3, <1>5, SoleHeld DEF Vacant
  <1> QED BY <1>3, <1>4, <1>6, OneOf DEF TableInv, Vacant, HeldSession, NoSession

-----------------------------------------------------------------------------
(* Connection, seen through the two.                                         *)

View == <<HeldSession, granted, Joined, Proven>>
ViewStep == Conn!Next \/ View' = View

\* What a client takes for proven was granted.
LEMMA ClientView ==
  ASSUME NEW past, NEW c, ClientInv(c, past),
         NEW j, j = IF c.sess.state = "ACTIVE" /\ ~c.deriving
                      THEN <<c.sess.session_id, c.sess.key>> ELSE NoSession
  PROVE  /\ j # NoSession => j \in (1 .. NSlots) \X SessionKeys
         /\ j # NoSession /\ (c.auth_required => c.auth_state = "VERIFIED") => j \in past
  <1>1. CASE c.sess.state = "ACTIVE" /\ ~c.deriving
    <2>1. InOffered(c, past) /\ c.sess.key \in SessionKeys
      BY <1>1 DEF ClientInv, ClientType, SessionType
    <2>2. c.sess.key # NoKey => c.auth_required
      BY DEF ClientInv
    <2> QED BY <1>1, <2>1, <2>2 DEF InOffered
  <1>2. CASE ~(c.sess.state = "ACTIVE" /\ ~c.deriving)
    BY <1>2
  <1> QED BY <1>1, <1>2

\* Whatever the client does, it joins or leaves: the server does not move.
LEMMA ClientMovesView ==
  ASSUME ClientInv(client', granted), UNCHANGED <<serverSide, granted>>
  PROVE  ViewStep
  <1>1. HeldSession' = HeldSession
    BY DEF HeldSession, TheSession, AnyOf, serverSide, NoSession
  <1>2. /\ Joined' # NoSession => Joined' \in (1 .. NSlots) \X SessionKeys
        /\ Joined' # NoSession /\ (client'.auth_required => client'.auth_state = "VERIFIED")
             => Joined' \in granted
    BY ClientView DEF Joined, NoSession
  <1>3. Proven' = (Joined' # NoSession
                     /\ (client'.auth_required => client'.auth_state = "VERIFIED"))
    BY DEF Proven, NoSession
  <1>4. Proven' \in BOOLEAN
    BY <1>3
  <1>5. CASE Joined' = NoSession
    <2>1. Proven' = FALSE
      BY <1>3, <1>5
    <2> QED BY <1>1, <1>5, <2>1 DEF ViewStep, Conn!Next, Conn!Leave
  <1>6. CASE Joined' # NoSession
    <2>1. Proven' => Joined' \in granted
      BY <1>2, <1>3
    <2>2. Conn!Join(Joined')
      BY <1>1, <1>4, <2>1 DEF Conn!Join
    <2> QED BY <1>2, <1>6, <2>2 DEF ViewStep, Conn!Next
  <1> QED BY <1>5, <1>6

\* The server revokes what it no longer holds.
LEMMA SettledView ==
  ASSUME HeldSession' = HeldSession \/ HeldSession' = NoSession, granted' = granted,
         Joined' = Joined, Proven' = Proven
  PROVE  ViewStep
  <1>1. CASE HeldSession' = HeldSession
    BY <1>1 DEF ViewStep, View
  <1>2. CASE HeldSession # NoSession /\ HeldSession' = NoSession
    BY <1>2 DEF ViewStep, Conn!Next, Conn!Revoke
  <1> QED BY <1>1, <1>2

LEMMA OpenedView ==
  ASSUME HeldSession = NoSession, HeldSession' \in (1 .. NSlots) \X SessionKeys,
         granted' = granted \cup {HeldSession'}, Joined' = Joined, Proven' = Proven
  PROVE  ViewStep
  <1>1. Conn!Grant(HeldSession')
    BY DEF Conn!Grant
  <1> QED BY <1>1 DEF ViewStep, Conn!Next

LEMMA SameClientView ==
  ASSUME client' = client
  PROVE  Joined' = Joined /\ Proven' = Proven
  BY DEF Joined, Proven, NoSession

\* Time does not move a client into or out of a session.
LEMMA AgedView ==
  ASSUME ClientInv(client, granted), client' = ClientAged
  PROVE  Joined' = Joined /\ Proven' = Proven
  <1> DEFINE x == SessionAge(client.sess)
  <1>1. SameCore(client.sess, x)
    BY AgeSame DEF ClientInv, ClientType
  <1>2. /\ client'.sess = x /\ client'.deriving = client.deriving
        /\ client'.auth_required = client.auth_required
        /\ client'.auth_state = client.auth_state
    BY DEF ClientAged, ClientInv, ClientType
  <1>3. Joined' = Joined
    BY <1>1, <1>2 DEF Joined, NoSession, SameCore
  <1> QED BY <1>2, <1>3 DEF Proven, NoSession

-----------------------------------------------------------------------------
(* The invariant.                                                            *)

LEMMA ServerRests ==
  ASSUME LInv, UNCHANGED <<serverSide, granted>>, sent' = {}
  PROVE  SInv' /\ TableInv'
  BY SilenceCached DEF LInv, SInv, IInv, Addressed, Registry, Distinct, TableInv, serverSide

LEMMA LinkInitInv ==
  LinkInit => LInv
  <1> SUFFICES ASSUME LinkInit
               PROVE  LInv
    OBVIOUS
  <1>1. SInv /\ TableInv
    <2>1. SInv
      BY InitSafe DEF LinkInit
    <2>2. \A i \in Slots : ~sessions[i].in_use
      BY NeverUsedType DEF LinkInit, Init, Vacant
    <2> QED BY <2>1, <2>2 DEF TableInv
  <1>2. Ledger(granted, spent)
    BY DEF LinkInit, Ledger, Salted, OnePerNonce
  <1>3. NetworkInv
    BY DEF LinkInit, NetworkInv, Contents
  <1>4. ClientInv(client, granted)
    <2> DEFINE x == SessionInit(FALSE)
    <2>1. x \in SessionType /\ ~x.is_server /\ x.state = "IDLE" /\ x.key = NoKey
      BY InitType DEF SessionInit
    <2>2. client = [sess |-> x, tx_seq |-> 0, call |-> "NONE", waited |-> 0,
                    secret |-> NoSecret, welcome |-> NoneAccepted, deriving |-> FALSE,
                    pairing_required |-> "UNKNOWN", auth_required |-> FALSE,
                    auth_state |-> "NONE", input_age |-> 0, ping_age |-> 0,
                    awaiting_pong |-> FALSE]
      BY DEF LinkInit, ClientInit, ClientCreated
    <2> HIDE DEF x
    <2>3. client \in ClientType /\ client.sess = x /\ ~client.deriving
      BY <2>1, <2>2, Ranges DEF ClientType, Calls, AuthStates
    <2> QED BY <2>1, <2>3 DEF ClientInv
  <1> QED BY <1>1, <1>2, <1>3, <1>4 DEF LInv

\* What the client sends joins the queue of what the server will read.
LEMMA UpGrows ==
  ASSUME NetworkInv, \A d \in emitted' : Parsed(d), NEW after \in Carried(up, emitted')
  PROVE  after \in Seq(Contents(after)) /\ \A d \in Contents(after) : Parsed(d)
  BY CarriedContents DEF NetworkInv

LEMMA DownGrows ==
  ASSUME NetworkInv, \A m \in sent' : Genuine(m, granted'), granted \subseteq granted',
         NEW after \in Carried(down, sent')
  PROVE  after \in Seq(Contents(after)) /\ \A m \in Contents(after) : Genuine(m, granted')
  BY CarriedContents, GenuineStays DEF NetworkInv

LEMMA ClientStepInv ==
  ASSUME LInv, ClientStep
  PROVE  LInv' /\ ViewStep
  <1>1. Moves(granted)
    BY CallsBegin, SecretTyped, ConnectingMoves, DerivationMoves, PumpMoves
    DEF LInv, ClientStep, ClientRuns
  <1>2. SInv' /\ TableInv'
    BY ServerRests DEF ClientStep, serverSide
  <1>3. NetworkInv'
    BY <1>1, UpGrows DEF LInv, ClientStep, Moves, NetworkInv
  <1>4. ViewStep
    BY <1>1, ClientMovesView DEF Moves, ClientStep
  <1> QED BY <1>1, <1>2, <1>3, <1>4 DEF LInv, ClientStep, Moves

LEMMA ClientHearsInv ==
  ASSUME LInv, ClientHears
  PROVE  LInv' /\ ViewStep
  <1>1. PICK k \in DOMAIN down :
          /\ ClientReceives(down[k])
          /\ down' \in Remaining(down, k) /\ up' \in Carried(up, emitted')
    BY DEF ClientHears
  <1>2. Genuine(down[k], granted)
    BY <1>1 DEF LInv, NetworkInv, Contents
  <1>3. Moves(granted)
    BY <1>1, <1>2, ReceivesMoves DEF LInv
  <1>4. SInv' /\ TableInv'
    BY ServerRests DEF ClientHears, serverSide, history
  <1>5. NetworkInv'
    BY <1>1, <1>3, UpGrows, RemainingContents
    DEF LInv, ClientHears, history, Moves, NetworkInv
  <1>6. ViewStep
    BY <1>3, ClientMovesView DEF Moves, ClientHears, history
  <1> QED BY <1>3, <1>4, <1>5, <1>6 DEF LInv, ClientHears, history, Moves

LEMMA ServerHearsInv ==
  ASSUME LInv, ServerHears
  PROVE  LInv' /\ ViewStep
  <1>1. PICK k \in DOMAIN up :
          /\ OnDatagram(ThePeer, up[k])
          /\ up' \in Remaining(up, k) /\ down' \in Carried(down, sent')
    BY DEF ServerHears
  <1>2. /\ NoncesAreNew /\ spent' = spent \cup NoncesOf(sent')
        /\ granted' = granted \cup TheSession(sessions') /\ client' = client
    BY DEF ServerHears
  <1>3. Parsed(up[k]) /\ IInv /\ Vacated /\ ThePeer \in Peers
    BY <1>1, RegistryVacates, LinkAssumption DEF LInv, SInv, NetworkInv, Contents
  <1>4. IInv' /\ Signed(sent') /\ (SettlesStep \/ OpensStep(ThePeer))
    BY <1>1, <1>3, DatagramInv, DatagramSigned, DatagramStep
  <1>5. /\ SInv' /\ TableInv' /\ Ledger(granted', spent') /\ granted \subseteq granted'
        /\ \A m \in sent' : Genuine(m, granted')
        /\ ViewStep
    BY <1>2, <1>4, SettledServer, OpenedServer, SameClientView, SettledView, OpenedView
  <1>6. NetworkInv'
    BY <1>1, <1>5, DownGrows, RemainingContents DEF LInv, NetworkInv
  <1>7. ClientInv(client', granted')
    BY <1>2, <1>5, ClientStays DEF LInv
  <1> QED BY <1>5, <1>6, <1>7 DEF LInv

LEMMA HostStepsInv ==
  ASSUME LInv, ServerTicks \/ HostCalls \/ LinkElapse
  PROVE  LInv' /\ ViewStep
  <1>1. /\ Tick \/ BeginPairing \/ CancelPairing \/ Elapse
        /\ UNCHANGED <<spent, granted, up>>
        /\ client' = client \/ client' = ClientAged
        /\ \/ down' \in Carried(down, sent')
           \/ down' = down /\ sent' = {}
    BY DEF ServerTicks, HostCalls, LinkElapse, network, history, clientVars, BeginPairing,
           CancelPairing, Elapse
  <1>2. IInv' /\ SettlesStep
    BY <1>1, TickInv, BeginPairingInv, CancelPairingInv, ElapseInv, HostStep DEF LInv, SInv
  <1>3. Signed(sent')
    BY <1>1, TickSigned, SilenceSigned DEF LInv, SInv, BeginPairing, CancelPairing, Elapse
  <1>4. /\ SInv' /\ TableInv' /\ Ledger(granted', spent')
        /\ \A m \in sent' : Genuine(m, granted')
        /\ HeldSession' = HeldSession \/ HeldSession' = NoSession
    BY <1>1, <1>2, <1>3, SettledServer
  <1>5. ClientInv(client', granted') /\ Joined' = Joined /\ Proven' = Proven
    BY <1>1, AgedMoves, AgedView, SameClientView DEF LInv
  <1>6. NetworkInv'
    BY <1>1, <1>4, DownGrows DEF LInv, NetworkInv
  <1> QED BY <1>1, <1>4, <1>5, <1>6, SettledView DEF LInv

LEMMA RestartInv ==
  ASSUME LInv, Restart
  PROVE  LInv' /\ ViewStep
  <1>1. SInv' /\ TableInv' /\ HeldSession' = NoSession
    BY RestartedServer
  <1>2. UNCHANGED <<client, up, down, spent, granted>>
    BY DEF Restart, history
  <1>3. ViewStep
    BY <1>1, <1>2, SameClientView, SettledView
  <1> QED BY <1>1, <1>2, <1>3 DEF LInv, NetworkInv

LEMMA LinkStepInv ==
  LInv /\ [LinkNext]_linkVars => LInv' /\ ViewStep
  <1> SUFFICES ASSUME LInv, [LinkNext]_linkVars
               PROVE  LInv' /\ ViewStep
    OBVIOUS
  <1>1. CASE LinkNext
    BY <1>1, ClientStepInv, ClientHearsInv, ServerHearsInv, HostStepsInv, RestartInv DEF LinkNext
  <1>2. CASE UNCHANGED linkVars
    <2>1. UNCHANGED <<sessions, pairing, backend, sent, client, up, down, spent, granted>>
      BY <1>2 DEF linkVars, vars, clientVars, network, history
    <2>2. LInv'
      BY <2>1 DEF LInv, SInv, IInv, Registry, Distinct, TableInv, NetworkInv
    <2>3. View' = View
      BY <2>1, SameClientView DEF View, HeldSession, TheSession, AnyOf, NoSession
    <2> QED BY <2>2, <2>3 DEF ViewStep
  <1> QED BY <1>1, <1>2

\* Everything the client could take for proof was said by a server that held
\* the session, throughout every behaviour of the two and of their network.
THEOREM LinkSafe ==
  LinkSpec => []LInv
  <1>1. LInv /\ [LinkNext]_linkVars => LInv'
    BY LinkStepInv
  <1> QED BY <1>1, LinkInitInv, PTL DEF LinkSpec

\* The client and the server implement Connection: sessions are granted one at
\* a time, and a client that holds its session for proven holds one the server
\* granted, with the very key, whatever is typed, lost, repeated, reordered,
\* delayed or restarted.
THEOREM LinkImplementsConnection ==
  LinkSpec => ImplementsConnection
  <1>1. LinkInit => Conn!Init
    <2> SUFFICES ASSUME LinkInit
                 PROVE  Conn!Init
      OBVIOUS
    <2>1. TheSession(sessions) = {}
      BY NeverUsedType DEF LinkInit, Init, Vacant, TheSession
    <2>2. HeldSession = NoSession
      BY <2>1, OneOf DEF HeldSession
    <2>3. Joined = NoSession
      BY DEF LinkInit, ClientInit, ClientCreated, SessionInit, Joined
    <2> QED BY <2>2, <2>3 DEF LinkInit, Conn!Init, Proven
  <1>2. LInv /\ [LinkNext]_linkVars => [Conn!Next]_(Conn!vars)
    <2> SUFFICES ASSUME LInv, [LinkNext]_linkVars
                 PROVE  Conn!Next \/ (Conn!vars)' = Conn!vars
      OBVIOUS
    <2>1. View = Conn!vars /\ View' = (Conn!vars)'
      BY DEF View, Conn!vars
    <2> QED BY <2>1, LinkStepInv DEF ViewStep
  <1> QED BY <1>1, <1>2, LinkSafe, PTL DEF LinkSpec, ImplementsConnection, Conn!Spec

-----------------------------------------------------------------------------
(* How long a call lasts, and what it leaves the user with.                  *)

\* As far as its call and its verdict go, the client is where it was, or has one.
Alike(c, e) ==
  /\ e.call = c.call /\ e.waited = c.waited
  /\ e.auth_required = c.auth_required /\ e.deriving = c.deriving
  /\ e.sess.state = c.sess.state /\ e.sess.key = c.sess.key
  /\ e.sess.close_reason = c.sess.close_reason
  /\ e.auth_state = c.auth_state \/ e.auth_state \in {"VERIFIED", "FAILED"}

\* The same call goes on: what may have been derived stays derived, a handshake
\* goes on or is over, and nobody is left without a verdict.
Ended == {"ACTIVE", "CLOSED"}
GoesOn(c, e) ==
  /\ e.call = c.call /\ e.waited = c.waited
  /\ c.auth_required => e.auth_required
  /\ c.sess.state \in Ended => e.sess.state \in Ended
  /\ c.sess.state = "HANDSHAKING" => e.sess.state \in {"HANDSHAKING"} \cup Ended
  /\ Unjudged(e) => Unjudged(c)

\* A call ends with a verdict, or begins.
Over(e)   == e.call = "PUMP" \/ (e.call = "NONE" /\ ~Unjudged(e))
Begins(e) ==
  /\ e.waited = 0 /\ ~Unjudged(e)
  /\ e.call = "PROBE" \/ (e.call = "CONNECT" /\ e.sess.state = "HANDSHAKING")

Proceeding(c, e) == GoesOn(c, e) \/ Over(e) \/ Begins(e)

LEMMA AlikeGoesOn ==
  ASSUME NEW c, NEW e, Alike(c, e)
  PROVE  GoesOn(c, e)
  BY DEF Alike, GoesOn, Unjudged, Ended

LEMMA SentAlike ==
  ASSUME NEW c \in ClientType, ~c.sess.is_server, NEW t, t \notin {"DISCOVER", "HELLO"}
  PROVE  Alike(c, Sent(c, t))
  <1> DEFINE e == Sent(c, t)
  <1>1. /\ e = [c EXCEPT !.sess = e.sess, !.tx_seq = e.tx_seq] /\ e \in ClientType
        /\ e.sess = SessionOnSent(c.sess, t, c.tx_seq) /\ SameCore(c.sess, e.sess)
    BY SentByClient
  <1>2. SessionOnSent(c.sess, t, c.tx_seq).close_reason = c.sess.close_reason
    BY DEF SessionOnSent, ClientType, SessionType
  <1> HIDE DEF e
  <1>3. Alike(c, e)
    BY <1>1, <1>2 DEF Alike, SameCore, ClientType
  <1> QED BY <1>3 DEF e

LEMMA HeardAlike ==
  ASSUME NEW c \in ClientType
  PROVE  Alike(c, Heard(c)) /\ Heard(c) \in ClientType /\ Heard(c).sess.is_server = c.sess.is_server
  <1>1. SessionHeard(c.sess) \in SessionType
    BY HeardType DEF ClientType
  <1>2. Heard(c) = c \/ Heard(c) = [c EXCEPT !.sess = SessionHeard(c.sess)]
    BY DEF Heard, ClientType
  <1> QED BY <1>1, <1>2 DEF Alike, SessionHeard, ClientType, SessionType

LEMMA VerifyAlike ==
  ASSUME NEW c \in ClientType, NEW m
  PROVE  Alike(c, Verify(c, m)) /\ Verify(c, m) \in ClientType /\ Verify(c, m).sess = c.sess
  BY DEF Alike, Verify, ClientType, AuthStates

LEMMA AlikeTwice ==
  ASSUME NEW c, NEW d, NEW e, Alike(c, d), Alike(d, e)
  PROVE  Alike(c, e)
  BY DEF Alike

LEMMA AgedAlike ==
  ASSUME NEW s \in SessionType
  PROVE  SessionAge(s).close_reason = s.close_reason
  BY DEF SessionAge, SessionType

\* A session that ends leaves a verdict where a tag was required.
LEMMA SettledIsJudged ==
  ASSUME NEW c \in ClientType
  PROVE  Over(Return(SettleAuth(c)))
  <1>1. ~Unjudged(SettleAuth(c)) /\ SettleAuth(c) \in ClientType
    BY DEF SettleAuth, Unjudged, ClientType, AuthStates
  <1> HIDE DEF SettleAuth
  <1> QED BY <1>1 DEF Over, Return, Unjudged, ClientType

LEMMA LocalIsJudged ==
  ASSUME NEW c \in ClientType
  PROVE  Over(Return([c EXCEPT !.sess = SessionClose(@, "LOCAL")]))
  BY DEF Over, Return, SessionClose, Unjudged, ClientType, SessionType

\* Each thing a program does inside its call keeps the call going, ends it with
\* a verdict or begins another.
LEMMA OwnStepsProceed ==
  ASSUME NEW past, ClientInv(client, past), client.call \in {"NONE", "PROBE"} => ~Unjudged(client),
         ClientRuns \/ Disconnect \/ Probe \/ Connect
           \/ \E secret \in Secrets : ClientSetSecret(secret)
  PROVE  Proceeding(client, client')
  <1> USE DEF ClientInv
  <1>1. CASE ProbeReturns
    <2>1. client.call = "PROBE" /\ client' = [client EXCEPT !.call = "NONE", !.waited = 0]
      BY <1>1 DEF ProbeReturns, ProbeOver, Inside, Return
    <2> QED BY <2>1 DEF Proceeding, Over, Unjudged, ClientType
  <1>2. CASE ConnectTick
    <2> DEFINE x == SessionTick(client.sess)
    <2>1. [client EXCEPT !.sess = SessionTick(@)] = [client EXCEPT !.sess = x]
      BY DEF ClientType
    <2>2. x \in SessionType /\ (TickAct(client.sess) = "RETRANSMIT" => x.state = client.sess.state)
      <3>1. x \in SessionType
        BY TickSame DEF ClientType, SameCore, ClosedCore
      <3>2. TickAct(client.sess) = "RETRANSMIT" => x.state = client.sess.state
        BY DEF SessionTick, ClientType, SessionType
      <3> QED BY <3>1, <3>2
    <2>3. CASE TickAct(client.sess) = "RETRANSMIT"
      <3>1. /\ client' = [client EXCEPT !.sess = x] /\ client.call = "CONNECT"
            /\ client.sess.state = "HANDSHAKING"
        BY <1>2, <2>1, <2>3 DEF ConnectTick, Inside
      <3>2. x.close_reason = client.sess.close_reason /\ x.key = client.sess.key
        BY <2>3 DEF SessionTick, ClientType, SessionType
      <3> HIDE DEF x
      <3> QED BY <2>2, <2>3, <3>1, <3>2 DEF Proceeding, GoesOn, Ended, Unjudged, ClientType
    <2>4. CASE TickAct(client.sess) # "RETRANSMIT"
      <3>1. client' = Return(SettleAuth([client EXCEPT !.sess = x]))
        BY <1>2, <2>1, <2>4 DEF ConnectTick
      <3>2. [client EXCEPT !.sess = x] \in ClientType
        BY <2>2 DEF ClientType
      <3> HIDE DEF x
      <3> QED BY <3>1, <3>2, SettledIsJudged DEF Proceeding
    <2> QED BY <2>3, <2>4
  <1>3. CASE Connected
    <2>1. CASE NeedsSecret
      <3>1. client' = Return([client EXCEPT !.sess = SessionClose(@, "LOCAL")])
        BY <1>3, <2>1 DEF Connected
      <3> QED BY <3>1, LocalIsJudged DEF Proceeding
    <2>2. CASE ~NeedsSecret
      <3>1. client'.call = "PUMP"
        BY <1>3, <2>2 DEF Connected, ClientType
      <3> QED BY <3>1 DEF Proceeding, Over
    <2> QED BY <2>1, <2>2
  <1>4. CASE ConnectFails
    BY <1>4, SettledIsJudged DEF ConnectFails, Proceeding
  <1>5. CASE DerivationEnds
    <2> DEFINE k == Derived(client.secret, client.welcome.nonce)
    <2>1. k \in Keys /\ client.deriving
      BY <1>5, LinkAssumption DEF DerivationEnds, Busy, Offered
    <2>2. client' = [client EXCEPT !.deriving = FALSE, !.auth_state = "KEYED",
                       !.sess = [client.sess EXCEPT !.key = k]]
      BY <1>5 DEF DerivationEnds, SessionSetKey, ClientType
    <2>3. k # NoKey
      BY <2>1, SessionAssumption
    <2> HIDE DEF k
    <2>4. GoesOn(client, client')
      BY <2>1, <2>2, <2>3 DEF GoesOn, Ended, Unjudged, ClientType, SessionType
    <2> QED BY <2>4 DEF Proceeding
  <1>6. CASE PumpEnds
    <2> DEFINE x == IF client.sess.state = "CLOSED" THEN client.sess
                    ELSE SessionClose(client.sess, "IDLE_TIMEOUT")
    <2>1. x \in SessionType
      BY CloseType DEF ClientType, CloseReasons
    <2>2. client' = Return(SettleAuth([client EXCEPT !.sess = x]))
      BY <1>6 DEF PumpEnds, ClientType
    <2> HIDE DEF x
    <2>3. [client EXCEPT !.sess = x] \in ClientType
      BY <2>1 DEF ClientType
    <2> QED BY <2>2, <2>3, SettledIsJudged DEF Proceeding
  <1>7. CASE PumpSends
    <2>1. ASSUME NEW c \in ClientType, NEW t PROVE Sent(c, t).call = c.call
      BY <2>1 DEF Sent, ClientType
    <2> DEFINE pings == PingDueFrom(client) /\ ~client.awaiting_pong
               input == IF InputDue THEN [Sent(client, "INPUT_STATE") EXCEPT !.input_age = 0]
                        ELSE client
               pinged == IF pings THEN Sent(input, "PING") ELSE input
    <2>2. client.call = "PUMP"
      BY <1>7 DEF PumpSends, Inside
    <2>3. Sent(client, "INPUT_STATE") \in ClientType
      BY SentByClient
    <2>4. input \in ClientType /\ input.call = "PUMP"
      BY <2>1, <2>2, <2>3 DEF ClientType
    <2> HIDE DEF input
    <2>5. pinged.call = "PUMP" /\ DOMAIN pinged = DOMAIN client
      <3>1. DOMAIN Sent(input, "PING") = DOMAIN input /\ DOMAIN input = DOMAIN client
        BY <2>4 DEF Sent, ClientType
      <3> QED BY <2>1, <2>4, <3>1
    <2>6. \/ client' = pinged
          \/ client' = [pinged EXCEPT !.ping_age = 0, !.awaiting_pong = pings]
      BY <1>7 DEF PumpSends, input
    <2> HIDE DEF pinged, pings
    <2>7. client'.call = "PUMP"
      <3>1. [pinged EXCEPT !.ping_age = 0, !.awaiting_pong = pings].call = pinged.call
        BY <2>5 DEF ClientType
      <3> QED BY <2>5, <2>6, <3>1
    <2> QED BY <2>7 DEF Proceeding, Over
  <1>8. CASE Disconnect
    <2>1. client' = Return([client EXCEPT !.sess = SessionClose(@, "LOCAL")])
      BY <1>8 DEF Disconnect
    <2> QED BY <2>1, LocalIsJudged DEF Proceeding
  <1>9. CASE Probe \/ Connect
    <2> DEFINE i == SessionInit(FALSE)
    <2>1. i \in SessionType /\ ~i.is_server /\ i.state = "IDLE" /\ i.close_reason = "NONE"
      BY InitType DEF SessionInit
    <2> HIDE DEF i
    <2>2. CASE Probe
      <3> DEFINE c == [client EXCEPT !.sess = i, !.tx_seq = 0, !.pairing_required = "UNKNOWN",
                                     !.call = "PROBE", !.waited = 0]
      <3>1. client' = Sent(c, "DISCOVER")
        BY <2>2 DEF Probe, i
      <3>2. c.sess = i /\ c.call = "PROBE" /\ c.waited = 0 /\ DOMAIN c = DOMAIN client
        BY DEF ClientType
      <3>3. Sent(c, "DISCOVER") = [c EXCEPT !.sess = SessionOnSent(i, "DISCOVER", c.tx_seq), !.tx_seq = SeqNext(c.tx_seq)]
        BY <3>2 DEF Sent, ClientType
      <3>4. SessionOnSent(i, "DISCOVER", c.tx_seq).close_reason = "NONE"
        BY <2>1 DEF SessionOnSent, SessionType
      <3> HIDE DEF c
      <3>5. /\ client'.waited = 0 /\ client'.call = "PROBE"
            /\ client'.sess.close_reason = "NONE"
        BY <3>1, <3>2, <3>3, <3>4 DEF ClientType
      <3> QED BY <3>5 DEF Proceeding, Begins, Unjudged
    <2>3. CASE Connect
      <3> DEFINE c == [client EXCEPT !.sess = i, !.tx_seq = 0, !.auth_required = FALSE,
                                     !.auth_state = "NONE", !.awaiting_pong = FALSE,
                                     !.call = "CONNECT", !.waited = 0]
      <3>1. client' = Sent(c, "HELLO")
        BY <2>3 DEF Connect, i
      <3>2. c.sess = i /\ c.call = "CONNECT" /\ c.waited = 0 /\ DOMAIN c = DOMAIN client
        BY DEF ClientType
      <3>3. Sent(c, "HELLO") = [c EXCEPT !.sess = SessionOnSent(i, "HELLO", c.tx_seq), !.tx_seq = SeqNext(c.tx_seq)]
        BY <3>2 DEF Sent, ClientType
      <3>4. /\ SessionOnSent(i, "HELLO", c.tx_seq).close_reason = "NONE"
            /\ SessionOnSent(i, "HELLO", c.tx_seq).state = "HANDSHAKING"
        BY <2>1 DEF SessionOnSent, SessionType
      <3> HIDE DEF c
      <3>5. /\ client'.waited = 0 /\ client'.call = "CONNECT"
            /\ client'.sess.close_reason = "NONE" /\ client'.sess.state = "HANDSHAKING"
        BY <3>1, <3>2, <3>3, <3>4 DEF ClientType
      <3> QED BY <3>5 DEF Proceeding, Begins, Unjudged
    <2> QED BY <1>9, <2>2, <2>3
  <1>10. CASE \E secret \in Secrets : ClientSetSecret(secret)
    <2>1. PICK secret \in Secrets : client' = [client EXCEPT !.secret = secret]
      BY <1>10 DEF ClientSetSecret
    <2>2. Alike(client, client')
      BY <2>1 DEF Alike, ClientType
    <2> QED BY <2>2, AlikeGoesOn DEF Proceeding
  <1> QED
    BY <1>1, <1>2, <1>3, <1>4, <1>5, <1>6, <1>7, <1>8, <1>9, <1>10 DEF ClientRuns

\* A WELCOME leaves the call, and the reason a session ended for, as they were.
LEMMA WelcomeAlike ==
  ASSUME NEW c \in ClientType, ~c.sess.is_server, NEW m \in WelcomeType
  PROVE  LET a == Acknowledged(c, m)
         IN  /\ a.call = c.call /\ a.waited = c.waited
             /\ a.sess.close_reason = c.sess.close_reason
  <1> DEFINE x == IF c.sess.state = "CLOSED" THEN c.sess ELSE OnRecvWelcome(c.sess, m.sid)
             b == [c EXCEPT !.welcome = m, !.sess = x]
             a == IF CanSend(b.sess) THEN Sent(b, "ACK") ELSE b
  <1>1. /\ x \in SessionType /\ ~x.is_server
        /\ x.close_reason = c.sess.close_reason
    <2>1. m.sid \in Nat
      BY DEF WelcomeType
    <2>2. OnRecvWelcome(c.sess, m.sid).close_reason = c.sess.close_reason
      BY DEF OnRecvWelcome, ClientType, SessionType
    <2> QED BY <2>1, <2>2, WelcomeReceived DEF ClientType
  <1>2. Acknowledged(c, m) = a
    BY DEF Acknowledged, ClientType
  <1> HIDE DEF x
  <1>3. b \in ClientType /\ b.sess = x /\ b.call = c.call /\ b.waited = c.waited
    BY <1>1 DEF ClientType
  <1> HIDE DEF b
  <1>4. Alike(b, Sent(b, "ACK"))
    BY <1>1, <1>3, SentAlike
  <1> QED BY <1>1, <1>2, <1>3, <1>4 DEF Alike

LEMMA WelcomeGoesOn ==
  ASSUME NEW past, ClientInv(client, past), NEW m, Offered(m, past),
         ~client.deriving, ~OldWelcome(m)
  PROVE  GoesOn(client, AfterWelcome(client, m))
  <1> DEFINE a == Acknowledged(client, m)
             keyless == a.sess.key = NoKey
             barred == [a EXCEPT !.auth_required = TRUE, !.auth_state = "NEED_SECRET"]
             busy == [a EXCEPT !.auth_required = TRUE, !.deriving = TRUE]
             tagged == [a EXCEPT !.auth_required = TRUE]
  <1>1. /\ a \in ClientType /\ a.deriving = FALSE
        /\ a.auth_required = client.auth_required /\ a.auth_state = client.auth_state
        /\ a.sess.state \in Ended /\ a.sess.key = client.sess.key
    BY WelcomeAdopted DEF ClientInv, ClientType, Ended
  <1>2. /\ a.call = client.call /\ a.waited = client.waited
        /\ a.sess.close_reason = client.sess.close_reason
    BY WelcomeAlike DEF ClientInv, Offered
  <1>3. m.auth \in BOOLEAN
    BY DEF Offered, WelcomeType
  <1>4. AfterWelcome(client, m) =
          CASE ~m.auth -> a
            [] m.auth /\ keyless /\ a.secret = NoSecret -> barred
            [] m.auth /\ keyless /\ a.secret # NoSecret -> busy
            [] OTHER -> tagged
    BY DEF AfterWelcome, Acknowledged
  <1> HIDE DEF a
  <1>5. GoesOn(client, a)
    BY <1>1, <1>2 DEF GoesOn, Unjudged, Ended
  <1>6. GoesOn(client, barred) /\ GoesOn(client, busy)
    BY <1>1, <1>2 DEF GoesOn, Unjudged, Ended, ClientType
  <1>7. ~keyless => GoesOn(client, tagged)
    BY <1>1, <1>2 DEF GoesOn, Unjudged, Ended, ClientType
  <1>8. AfterWelcome(client, m) \in {a, barred, busy} \/ (~keyless /\ AfterWelcome(client, m) = tagged)
    BY <1>3, <1>4
  <1> HIDE DEF barred, busy, tagged, keyless
  <1> QED BY <1>5, <1>6, <1>7, <1>8

\* Whatever is heard, the call goes on.
LEMMA ReceivesProceed ==
  ASSUME NEW past, ClientInv(client, past), NEW m, Genuine(m, past), ClientReceives(m)
  PROVE  GoesOn(client, client')
  <1> DEFINE heard == Heard(client)
             verified == Verify(heard, m)
  <1>1. client \in ClientType /\ ~client.sess.is_server
    BY DEF ClientInv
  <1>2. /\ Alike(client, heard) /\ heard \in ClientType
        /\ heard.sess.is_server = client.sess.is_server
    BY <1>1, HeardAlike
  <1>3. Alike(client, verified) /\ verified \in ClientType /\ ~verified.sess.is_server
    BY <1>1, <1>2, VerifyAlike, AlikeTwice
  <1> HIDE DEF verified, heard
  <1>4. CASE ReceiveOldWelcome(m)
    <2>1. client' = client \/ client' = Sent(client, "ACK")
      BY <1>4 DEF ReceiveOldWelcome
    <2>2. Alike(client, client)
      BY DEF Alike
    <2> QED BY <1>1, <2>1, <2>2, SentAlike, AlikeGoesOn
  <1>5. CASE ReceiveRefused(m)
    <2>1. client' = client \/ client' = [client EXCEPT !.auth_state = "FAILED"]
      BY <1>5 DEF ReceiveRefused
    <2>2. Alike(client, client')
      BY <1>1, <2>1 DEF Alike, ClientType
    <2> QED BY <2>2, AlikeGoesOn
  <1>6. CASE ReceiveWelcome(m)
    BY <1>6, WelcomeGoesOn DEF ReceiveWelcome, Draining, Busy, Genuine
  <1>7. CASE ReceiveAnnounce(m)
    <2>1. client' = [heard EXCEPT !.pairing_required = IF m.pairing_required THEN "YES" ELSE "NO"]
      BY <1>7 DEF ReceiveAnnounce, heard
    <2>2. Alike(heard, client')
      BY <1>2, <2>1 DEF Alike, ClientType
    <2> QED BY <1>2, <2>2, AlikeTwice, AlikeGoesOn
  <1>8. CASE ReceivePong(m)
    <2>1. PICK answers \in BOOLEAN :
            client' = [verified EXCEPT !.awaiting_pong = @ /\ ~answers]
      BY <1>8 DEF ReceivePong, verified, heard
    <2>2. Alike(verified, client')
      BY <1>3, <2>1 DEF Alike, ClientType
    <2> QED BY <1>3, <2>2, AlikeTwice, AlikeGoesOn
  <1>9. CASE ReceivePing(m)
    <2>1. client' = verified \/ client' = Sent(verified, "PONG")
      BY <1>9 DEF ReceivePing, verified, heard
    <2>2. Alike(verified, Sent(verified, "PONG"))
      BY <1>3, SentAlike
    <2> QED BY <1>3, <2>1, <2>2, AlikeTwice, AlikeGoesOn
  <1>10. CASE ReceiveError(m)
    <2> DEFINE closed == [heard EXCEPT !.sess = SessionClose(heard.sess, "PEER_ERROR")]
               failed == [heard EXCEPT !.auth_state = "FAILED"]
    <2>1. /\ client' = failed \/ client' = heard
             \/ (client' = closed /\ heard.sess.state = "ACTIVE")
      BY <1>10 DEF ReceiveError, AfterError, heard
    <2>2. ~client.auth_required
      BY <1>10 DEF ReceiveError, Admits
    <2>3. Alike(heard, failed)
      BY <1>2 DEF Alike, ClientType
    <2>4. /\ closed.call = heard.call /\ closed.waited = heard.waited
          /\ closed.auth_required = heard.auth_required /\ closed.sess.state = "CLOSED"
      BY <1>2 DEF ClientType, SessionType, SessionClose
    <2> HIDE DEF closed, failed
    <2>5. heard.sess.state = "ACTIVE" => GoesOn(client, closed)
      BY <1>2, <2>2, <2>4 DEF GoesOn, Unjudged, Ended, Alike
    <2> QED BY <1>2, <2>1, <2>3, <2>5, AlikeTwice, AlikeGoesOn
  <1>11. CASE ReceiveOther(m)
    <2>1. client' = verified
      BY <1>11 DEF ReceiveOther, verified, heard
    <2> QED BY <1>3, <2>1, AlikeGoesOn
  <1> QED BY <1>4, <1>5, <1>6, <1>7, <1>8, <1>9, <1>10, <1>11 DEF ClientReceives

-----------------------------------------------------------------------------
(* Faults are counted up.                                                    *)

\* What a call sends is a finite set.
LEMMA FewOf ==
  ASSUME NEW S, NEW x, S \subseteq {x}
  PROVE  IsFiniteSet(S)
  BY FS_Singleton, FS_Subset

LEMMA ClientSendsFew ==
  ASSUME \/ ClientRuns \/ Disconnect \/ Probe \/ Connect
         \/ \E secret \in Secrets : ClientSetSecret(secret)
         \/ \E m : ClientReceives(m)
  PROVE  IsFiniteSet(emitted')
  <1>1. CASE PumpSends
    <2>1. PICK x, y : emitted' \subseteq {x} \cup {y}
      BY <1>1 DEF PumpSends
    <2>2. IsFiniteSet({x} \cup {y})
      BY FewOf, FS_Union
    <2> QED BY <2>1, <2>2, FS_Subset
  <1>2. CASE ~PumpSends
    <2>1. \E x : emitted' \subseteq {x}
      BY <1>2
      DEF ClientRuns, ProbeReturns, ConnectTick, Connected, ConnectFails, DerivationEnds,
          PumpEnds, Disconnect, Probe, Connect, ClientSetSecret, ClientReceives,
          ReceiveOldWelcome, ReceiveRefused, ReceiveWelcome, ReceiveAnnounce, ReceivePong,
          ReceivePing, ReceiveError, ReceiveOther
    <2> QED BY <2>1, FewOf
  <1> QED BY <1>1, <1>2

LEMMA RefusalIsOne ==
  ASSUME NEW to, NEW code, Refuse(to, code)
  PROVE  \E x : sent' \subseteq {x}
  BY DEF Refuse

LEMMA ServerAnswersFew ==
  ASSUME NEW from, NEW d, OnDatagram(from, d)
  PROVE  IsFiniteSet(sent')
  <1>1. CASE \/ AuthFailed(from, d) \/ AuthDropped(from, d) \/ HelloRejected(from, d)
             \/ HandshakeWithSid(from, d) \/ HelloNoSlot(from, d) \/ HelloPadFails(from, d)
             \/ HelloRateRefused(from, d) \/ HelloNoEntropy(from, d) \/ UnknownSession(from, d)
             \/ NotFromPeer(from, d)
    <2>1. sent' = {} \/ \E to, code : Refuse(to, code)
      BY <1>1
      DEF AuthFailed, AuthDropped, HelloRejected, HandshakeWithSid, HelloNoSlot, HelloPadFails,
          HelloRateRefused, HelloNoEntropy, UnknownSession, NotFromPeer
    <2> QED BY <2>1, RefusalIsOne, FewOf, FS_EmptySet
  <1>2. CASE \/ HandleDiscover(from, d) \/ HelloDuplicate(from, d) \/ HelloPlain(from, d)
             \/ HelloPairing(from, d) \/ HandlePing(from, d) \/ HandleBye(from, d)
    <2>1. \E x : sent' \subseteq {x}
      BY <1>2 DEF HandleDiscover, HelloDuplicate, HelloPlain, HelloPairing, HandlePing, HandleBye
    <2> QED BY <2>1, FewOf
  <1>3. CASE \/ HandleInputState(from, d) \/ HandleKbm(from, d) \/ HandlePong(from, d)
             \/ HandleAck(from, d) \/ HandleOther(from, d)
    BY <1>3, FS_EmptySet DEF HandleInputState, HandleKbm, HandlePong, HandleAck, HandleOther
  <1> QED BY <1>1, <1>2, <1>3 DEF OnDatagram, Dispatch

LEMMA TickSendsFew ==
  ASSUME Tick
  PROVE  IsFiniteSet(sent')
  <1> DEFINE f == [i \in Slots |-> TickSends(sessions[i])]
             T == {TickSends(sessions[i]) : i \in Slots}
  <1>1. IsFiniteSet(Slots)
    <2>1. 0 \in Int /\ NSlots - 1 \in Int
      BY ServerAssumption
    <2> QED BY <2>1, FS_Interval DEF Slots
  <1>2. f \in Surjection(Slots, T)
    BY DEF Surjection
  <1>3. IsFiniteSet(T)
    BY <1>1, <1>2, FS_Surjection
  <1>4. ASSUME NEW s PROVE IsFiniteSet(TickSends(s))
    <2> DEFINE A == {m \in {PlainMsg(s, "TOUCHMAP")} : s.in_use /\ TouchSends(s.touchmap) /\ TouchProfile}
               B == {m \in {CapsMsg(s)} : s.in_use /\ CapsSends(s.inputcaps)}
               C == {m \in {s.welcome} : s.in_use /\ ~ExpiresWith(s) /\ TickAct(s.core) = "RETRANSMIT"}
               D == {m \in {PlainMsg(s, "PING")} : s.in_use /\ ~ExpiresWith(s) /\ ~TimesOut(s)
                                                     /\ PingDue(Delivered(s))}
    <2>1. IsFiniteSet(A) /\ IsFiniteSet(B) /\ IsFiniteSet(C) /\ IsFiniteSet(D)
      BY FewOf
    <2>2. TickSends(s) = A \cup B \cup C \cup D
      BY DEF TickSends
    <2> HIDE DEF A, B, C, D
    <2>3. IsFiniteSet(A \cup B) /\ IsFiniteSet(A \cup B \cup C)
      BY <2>1, FS_Union
    <2> QED BY <2>1, <2>2, <2>3, FS_Union
  <1>5. sent' = UNION T
    BY DEF Tick
  <1>6. \A S \in T : IsFiniteSet(S)
    BY <1>4
  <1> HIDE DEF T
  <1> QED BY <1>3, <1>5, <1>6, FS_UNION

\* No more is lost than was sent.
LEMMA LostIsNatural ==
  ASSUME NEW q, q \in Seq(Contents(q)), NEW new, IsFiniteSet(new), NEW after \in Carried(q, new)
  PROVE  Lost(q, new, after) \in Nat
  <1>1. PICK order \in Orders(new) : after = q \o order
    BY DEF Carried
  <1>2. Cardinality(new) \in Nat
    BY FS_CardinalityType
  <1>3. PICK n \in 0 .. Cardinality(new) : order \in [1 .. n -> new]
    BY <1>1 DEF Orders, Injection
  <1>4. n \in Nat /\ order \in Seq(new) /\ Len(order) = n
    BY <1>2, <1>3
  <1>5. Len(after) = Len(q) + n /\ Len(q) \in Nat
    <2> DEFINE S == Contents(q) \cup new
    <2>1. q \in Seq(S) /\ order \in Seq(S)
      BY <1>4
    <2> HIDE DEF S
    <2>2. Len(q \o order) = Len(q) + Len(order) /\ Len(q) \in Nat
      BY <2>1, ConcatProperties, LenProperties
    <2> QED BY <1>1, <1>4, <2>2
  <1> QED BY <1>2, <1>4, <1>5, <1>3 DEF Lost

LEMMA TransmitCounts ==
  ASSUME faults \in Nat, NEW q, q \in Seq(Contents(q)), NEW new, IsFiniteSet(new), NEW after,
         Transmit(q, new, after)
  PROVE  faults' \in Nat /\ faults' >= faults
  BY LostIsNatural DEF Transmit

LEMMA ExchangeCounts ==
  ASSUME faults \in Nat, NEW q, q \in Seq(Contents(q)), NEW new, IsFiniteSet(new),
         NEW k, NEW queue, NEW kept, NEW after, Exchange(k, queue, kept, q, new, after)
  PROVE  faults' \in Nat /\ faults' >= faults
  BY LostIsNatural DEF Exchange

LEMMA FaultsGrow ==
  ASSUME LInv, faults \in Nat, [LinkNext]_linkVars
  PROVE  faults' \in Nat /\ faults' >= faults
  <1> USE DEF LInv, NetworkInv
  <1>1. CASE ClientStep
    <2>1. IsFiniteSet(emitted')
      BY <1>1, ClientSendsFew DEF ClientStep
    <2> QED BY <1>1, <2>1, TransmitCounts DEF ClientStep
  <1>2. CASE ClientHears
    <2>1. IsFiniteSet(emitted')
      BY <1>2, ClientSendsFew DEF ClientHears
    <2> QED BY <1>2, <2>1, ExchangeCounts DEF ClientHears
  <1>3. CASE ServerHears
    <2>1. IsFiniteSet(sent')
      BY <1>3, ServerAnswersFew DEF ServerHears
    <2> QED BY <1>3, <2>1, ExchangeCounts DEF ServerHears
  <1>4. CASE ServerTicks
    <2>1. IsFiniteSet(sent')
      BY <1>4, TickSendsFew DEF ServerTicks
    <2> QED BY <1>4, <2>1, TransmitCounts DEF ServerTicks
  <1>5. CASE HostCalls \/ UNCHANGED linkVars
    BY <1>5 DEF HostCalls, network, linkVars
  <1>6. CASE Restart \/ LinkElapse
    BY <1>6 DEF Restart, LinkElapse
  <1> QED BY <1>1, <1>2, <1>3, <1>4, <1>5, <1>6 DEF LinkNext

-----------------------------------------------------------------------------
(* How long a call has lasted.                                               *)

CallInv ==
  /\ faults \in Nat
  /\ CallsReturn
  /\ client.call = "CONNECT" => client.sess.state \in {"HANDSHAKING"} \cup Ended
  /\ client.call \in {"NONE", "PROBE"} => ~Unjudged(client)

\* A step that takes no time keeps what the call has come to.
LEMMA CallProceeds ==
  ASSUME CallInv, client \in ClientType, faults' \in Nat, faults' >= faults,
         Proceeding(client, client')
  PROVE  CallInv'
  <1>1. CASE GoesOn(client, client')
    <2>1. MayHaveDerived => MayHaveDerived'
      BY <1>1 DEF GoesOn, MayHaveDerived, Ended
    <2>2. CallsReturn'
      BY <1>1, <2>1, ClientAssumption DEF GoesOn, CallInv, CallsReturn, ClientType
    <2>3. CASE client.call = "CONNECT"
      BY <1>1, <2>2, <2>3 DEF GoesOn, CallInv, Ended
    <2>4. CASE client.call # "CONNECT"
      BY <1>1, <2>2, <2>4 DEF GoesOn, CallInv
    <2> QED BY <2>3, <2>4
  <1>2. CASE Over(client')
    BY <1>2 DEF Over, CallInv, CallsReturn
  <1>3. CASE Begins(client')
    <2>1. client'.waited <= CallTimeout + 1 + faults'
      BY <1>3, ClientAssumption DEF Begins
    <2>2. CallsReturn'
      BY <2>1 DEF CallsReturn
    <2> QED BY <1>3, <2>2 DEF Begins, CallInv
  <1> QED BY <1>1, <1>2, <1>3 DEF Proceeding

\* Nor does the passage of time, as long as what is due is done in time: a call
\* past its deadline is due, unless a key is being derived in it.
LEMMA PastDeadlineIsLate ==
  ASSUME NEW past, ClientInv(client, past), CallInv, client.call \in {"PROBE", "CONNECT"},
         ~MayHaveDerived, client.waited > CallTimeout
  PROVE  Late
  <1>1. ~client.deriving
    BY DEF ClientInv, MayHaveDerived
  <1>2. ProbeOver \/ (Inside("CONNECT") /\ (ConnectOver \/ client.sess.state = "ACTIVE"))
    BY <1>1 DEF CallInv, ProbeOver, ConnectOver, Inside, Busy, Ended
  <1> QED BY <1>2 DEF Late, ClientDue

LEMMA CallAges ==
  ASSUME LInv, CallInv, LinkElapse
  PROVE  CallInv'
  <1> DEFINE x == SessionAge(client.sess)
             w == IF client.call \in {"PROBE", "CONNECT"}
                    THEN Saturate(client.waited + 1, 2 * CallTimeout + 1) ELSE client.waited
  <1>1. client \in ClientType /\ ClientInv(client, granted)
    BY DEF LInv, ClientInv
  <1>2. SameCore(client.sess, x) /\ x.close_reason = client.sess.close_reason
    BY <1>1, AgeSame, AgedAlike DEF ClientType
  <1>3. /\ client'.sess = x /\ client'.waited = w /\ client'.call = client.call
        /\ client'.deriving = client.deriving /\ client'.auth_required = client.auth_required
        /\ client'.auth_state = client.auth_state
    BY <1>1 DEF LinkElapse, ClientAged, ClientType
  <1> HIDE DEF x
  <1>4. MayHaveDerived' = MayHaveDerived /\ Unjudged(client') = Unjudged(client)
    BY <1>2, <1>3 DEF SameCore, MayHaveDerived, Unjudged
  <1>5. faults' \in Nat /\ faults' = (IF Late THEN faults + 1 ELSE faults)
    BY DEF LinkElapse, CallInv
  <1>6. CallsReturn'
    <2> SUFFICES ASSUME client.call \in {"PROBE", "CONNECT"}, ~MayHaveDerived
                 PROVE  w <= CallTimeout + 1 + faults'
      BY <1>3, <1>4 DEF CallsReturn
    <2>1. client.waited \in Nat /\ w \in Nat /\ w <= client.waited + 1
      BY <1>1, ClientAssumption DEF ClientType, Saturate
    <2> HIDE DEF w
    <2>2. CASE client.waited > CallTimeout
      <3>1. Late
        BY <1>1, <2>2, PastDeadlineIsLate
      <3>2. client.waited <= CallTimeout + 1 + faults
        BY DEF CallInv, CallsReturn
      <3> QED BY <1>5, <2>1, <3>1, <3>2, ClientAssumption DEF CallInv
    <2>3. CASE ~(client.waited > CallTimeout)
      BY <1>5, <2>1, <2>3, ClientAssumption
    <2> QED BY <2>2, <2>3
  <1>7. client'.call = "CONNECT" => client'.sess.state \in {"HANDSHAKING"} \cup Ended
    BY <1>2, <1>3 DEF SameCore, CallInv
  <1> QED BY <1>3, <1>4, <1>5, <1>6, <1>7 DEF CallInv

LEMMA CallBegins ==
  LinkInit => CallInv
  BY ClientAssumption
  DEF LinkInit, ClientInit, ClientCreated, CallInv, CallsReturn, Unjudged, SessionInit

LEMMA CallStep ==
  LInv /\ CallInv /\ [LinkNext]_linkVars => CallInv'
  <1> SUFFICES ASSUME LInv, CallInv, [LinkNext]_linkVars
               PROVE  CallInv'
    OBVIOUS
  <1>1. faults' \in Nat /\ faults' >= faults
    BY FaultsGrow DEF CallInv
  <1>2. client \in ClientType /\ ClientInv(client, granted)
    BY DEF LInv, ClientInv
  <1>3. CASE ClientStep
    <2>1. client.call \in {"NONE", "PROBE"} => ~Unjudged(client)
      BY DEF CallInv
    <2>2. Proceeding(client, client')
      BY <1>2, <1>3, <2>1, OwnStepsProceed DEF ClientStep
    <2> QED BY <1>1, <1>2, <2>2, CallProceeds
  <1>4. CASE ClientHears
    <2>1. PICK k \in DOMAIN down : ClientReceives(down[k])
      BY <1>4 DEF ClientHears
    <2>2. Genuine(down[k], granted)
      BY <2>1 DEF LInv, NetworkInv, Contents
    <2> QED BY <1>1, <1>2, <2>1, <2>2, ReceivesProceed, CallProceeds DEF Proceeding
  <1>5. CASE LinkElapse
    BY <1>5, CallAges
  <1>6. CASE UNCHANGED client
    <2>1. GoesOn(client, client')
      BY <1>6 DEF GoesOn
    <2> QED BY <1>1, <1>2, <2>1, CallProceeds DEF Proceeding
  <1>7. CASE ServerHears \/ ServerTicks \/ HostCalls \/ Restart \/ UNCHANGED linkVars
    <2>1. UNCHANGED client
      BY <1>7 DEF ServerHears, ServerTicks, HostCalls, Restart, clientVars, linkVars
    <2> QED BY <1>6, <2>1
  <1> QED BY <1>3, <1>4, <1>5, <1>7 DEF LinkNext

\* A blocking call of the client comes back within its timeout, one unit of
\* time for its loop and the faults there were, whatever is answered, lost,
\* repeated or answered too late, unless a key had to be derived meanwhile.
THEOREM CallsComeBack ==
  LinkSpec => []CallsReturn
  <1>1. CallInv => CallsReturn
    BY DEF CallInv
  <1> QED BY <1>1, CallBegins, CallStep, LinkSafe, PTL DEF LinkSpec

\* A session that required a tag and ended, but by the user's own hand, left a
\* verdict: whether a secret is missing, was right or was wrong.
THEOREM EveryCallHasVerdict ==
  LinkSpec => []VerdictGiven
  <1>1. CallInv => VerdictGiven
    BY DEF CallInv, VerdictGiven
  <1> QED BY <1>1, CallBegins, CallStep, LinkSafe, PTL DEF LinkSpec

-----------------------------------------------------------------------------
(* Whose tag proves a session, and what an ACK discharges.                   *)

\* A session that has a WELCOME out.
Awaits(i) == sessions[i].in_use /\ sessions[i].core.retx.armed

\* A session proves itself by a tag of its own and by nothing else.
ProvedByTag(from, d) ==
  \A i \in Slots : sessions'[i].in_use /\ sessions'[i].auth_verified
    => sessions[i].auth_verified \/ GoodTag(i, from, d)

LEMMA CheckedByTag ==
  ASSUME IInv, NEW from, NEW d, NEW i \in Slots, Checked(from, d)[i].auth_verified
  PROVE  sessions[i].auth_verified \/ GoodTag(i, from, d)
  BY DEF Checked

LEMMA PutProves ==
  ASSUME IInv, NEW from, NEW d, NEW j \in Slots, NEW c,
         sessions' = [Checked(from, d) EXCEPT ![j] = c],
         c.in_use /\ c.auth_verified => Checked(from, d)[j].auth_verified
  PROVE  ProvedByTag(from, d)
  <1> DEFINE t == Checked(from, d)
  <1>1. t = [i \in Slots |-> t[i]]
    BY DEF Checked
  <1>2. sessions' = [t EXCEPT ![j] = c]
    OBVIOUS
  <1>3. c.in_use /\ c.auth_verified => t[j].auth_verified
    OBVIOUS
  <1>4. \A i \in Slots : t[i].auth_verified => sessions[i].auth_verified \/ GoodTag(i, from, d)
    BY CheckedByTag
  <1> HIDE DEF t
  <1>5. \A i \in Slots : sessions'[i].in_use /\ sessions'[i].auth_verified => t[i].auth_verified
    BY <1>1, <1>2, <1>3
  <1> QED BY <1>4, <1>5 DEF ProvedByTag

LEMMA ClaimProves ==
  ASSUME IInv, NEW from, NEW d, NEW j \in Slots, NEW c,
         sessions' = [sessions EXCEPT ![j] = c], c.in_use => ~c.auth_verified
  PROVE  ProvedByTag(from, d)
  BY DEF IInv, Table, ProvedByTag

LEMMA FreedIsFree ==
  ASSUME NEW s \in SlotType
  PROVE  FreeSlot(s).in_use = FALSE
  BY DEF FreeSlot, SlotType

LEMMA HelloProves ==
  ASSUME IInv, Vacated, NEW from \in Peers, NEW d,
         \/ HelloDuplicate(from, d) \/ HelloPadFails(from, d) \/ HelloRateRefused(from, d)
         \/ HelloPlain(from, d) \/ HelloPairing(from, d) \/ HelloNoEntropy(from, d)
  PROVE  ProvedByTag(from, d)
  <1>1. CASE HelloDuplicate(from, d)
    <2>1. PICK j \in Slots :
            sessions' = [sessions EXCEPT ![j] =
                           [sessions[j] EXCEPT !.core = SessionHeard(sessions[j].core)]]
      BY <1>1 DEF HelloDuplicate
    <2> DEFINE c == [sessions[j] EXCEPT !.core = SessionHeard(sessions[j].core)]
    <2>2. c.auth_verified = sessions[j].auth_verified
      BY UsedSlot DEF IInv, SlotType
    <2>3. sessions' = [sessions EXCEPT ![j] = c]
      BY <2>1
    <2> HIDE DEF c
    <2> QED BY <2>2, <2>3 DEF IInv, Table, ProvedByTag
  <1>2. ASSUME NEW j \in Slots, Allots(j, from, d)
        PROVE  /\ ClaimSlot(sessions[j], from) \in SlotType
               /\ ClaimSlot(sessions[j], from).auth_verified = FALSE
    BY <1>2, ClaimedFields, UsedSlot DEF IInv, Vacated, Allots, FreeSlots
  <1>3. ASSUME NEW j \in Slots, Allots(j, from, d)
        PROVE  /\ WithPad(sessions[j], from) \in SlotType
               /\ WithPad(sessions[j], from).auth_verified = FALSE
    <2> DEFINE c == ClaimSlot(sessions[j], from)
    <2>1. c \in SlotType /\ c.auth_verified = FALSE
      BY <1>2, <1>3
    <2>2. WithPad(sessions[j], from) = [c EXCEPT !.pad_created = TRUE]
      BY DEF WithPad
    <2> HIDE DEF c
    <2> QED BY <2>1, <2>2 DEF SlotType
  <1>4. ASSUME NEW j \in Slots, Allots(j, from, d)
        PROVE  /\ Accepted(sessions[j], j, from).auth_verified = FALSE
               /\ DOMAIN Accepted(sessions[j], j, from) = DOMAIN WithPad(sessions[j], from)
    <2> DEFINE w == WithPad(sessions[j], from)
    <2>1. w \in SlotType /\ w.auth_verified = FALSE
      BY <1>3, <1>4
    <2>2. Accepted(sessions[j], j, from) = [w EXCEPT !.core = SessionServerAccept(w.core, j + 1)]
      BY DEF Accepted
    <2> HIDE DEF w
    <2>3. [w EXCEPT !.core = SessionServerAccept(w.core, j + 1)].auth_verified = FALSE
      BY <2>1 DEF SlotType
    <2> QED BY <2>2, <2>3 DEF w
  <1>5. CASE HelloPadFails(from, d)
    <2>1. PICK j \in Slots : /\ Allots(j, from, d)
                             /\ sessions' = [sessions EXCEPT ![j] = FreeSlot(ClaimSlot(sessions[j], from))]
      BY <1>5 DEF HelloPadFails
    <2> QED BY <1>2, <2>1, FreedIsFree, ClaimProves
  <1>6. CASE HelloRateRefused(from, d)
    <2>1. PICK j \in Slots : /\ Allots(j, from, d)
                             /\ sessions' = [sessions EXCEPT ![j] = FreeSlot(WithPad(sessions[j], from))]
      BY <1>6 DEF HelloRateRefused
    <2> QED BY <1>3, <2>1, FreedIsFree, ClaimProves
  <1>7. CASE HelloNoEntropy(from, d)
    <2>1. PICK j \in Slots : /\ Allots(j, from, d)
                             /\ sessions' = [sessions EXCEPT ![j] = FreeSlot(Accepted(sessions[j], j, from))]
      BY <1>7 DEF HelloNoEntropy
    <2> DEFINE a == Accepted(sessions[j], j, from)
    <2>2. a.auth_verified = FALSE /\ DOMAIN a = DOMAIN WithPad(sessions[j], from)
          /\ WithPad(sessions[j], from) \in SlotType
      BY <1>3, <1>4, <2>1
    <2> HIDE DEF a
    <2>3. FreeSlot(a).in_use = FALSE
      BY <2>2 DEF FreeSlot, SlotType
    <2> QED BY <2>1, <2>3, ClaimProves DEF a
  <1>8. ASSUME NEW j \in Slots, Allots(j, from, d), NEW auth, NEW nonce
        PROVE  Welcomed(Accepted(sessions[j], j, from), auth, nonce).auth_verified = FALSE
    <2> DEFINE a == Accepted(sessions[j], j, from)
    <2>1. a.auth_verified = FALSE /\ DOMAIN a = DOMAIN WithPad(sessions[j], from)
          /\ WithPad(sessions[j], from) \in SlotType
      BY <1>3, <1>4, <1>8
    <2> HIDE DEF a
    <2>2. Welcomed(a, auth, nonce).auth_verified = FALSE
      BY <2>1 DEF Welcomed, SlotType
    <2> QED BY <2>2 DEF a
  <1>9. CASE HelloPlain(from, d)
    <2>1. PICK j \in Slots :
            /\ Allots(j, from, d)
            /\ sessions' = [sessions EXCEPT ![j] =
                              Welcomed(Accepted(sessions[j], j, from), FALSE, NoNonce)]
      BY <1>9 DEF HelloPlain
    <2> QED BY <1>8, <2>1, ClaimProves
  <1>10. CASE HelloPairing(from, d)
    <2>1. PICK j \in Slots, nonce \in Nonces :
            /\ Allots(j, from, d)
            /\ sessions' = [sessions EXCEPT ![j] =
                              Keyed(Welcomed(Accepted(sessions[j], j, from), TRUE, nonce),
                                    pairing.generation, nonce)]
      BY <1>10 DEF HelloPairing
    <2> DEFINE w == Welcomed(Accepted(sessions[j], j, from), TRUE, nonce)
    <2>2. w.auth_verified = FALSE
      BY <1>8, <2>1
    <2>3. Keyed(w, pairing.generation, nonce).auth_verified = FALSE
      <3>1. DOMAIN w = DOMAIN WithPad(sessions[j], from) /\ WithPad(sessions[j], from) \in SlotType
        BY <1>3, <1>4, <2>1 DEF Welcomed
      <3> HIDE DEF w
      <3> QED BY <3>1 DEF Keyed, SlotType
    <2> QED BY <2>1, <2>3, ClaimProves
  <1> QED BY <1>1, <1>5, <1>6, <1>7, <1>9, <1>10

LEMMA HandlerProves ==
  ASSUME IInv, NEW from \in Peers, NEW d, CheckAuth(from, d),
         \/ HandleInputState(from, d) \/ HandleKbm(from, d) \/ HandlePing(from, d)
         \/ HandlePong(from, d) \/ HandleBye(from, d) \/ HandleAck(from, d)
         \/ HandleOther(from, d)
  PROVE  ProvedByTag(from, d)
  <1> DEFINE t == Checked(from, d)
  <1>1. ASSUME NEW j \in Slots, Reaches(j, from, d)
        PROVE  t[j] \in SlotType /\ t[j].core \in SessionType
    BY <1>1, ReachedSlot
  <1>2. CASE HandleBye(from, d)
    <2>1. PICK j \in Slots :
            /\ Reaches(j, from, d)
            /\ sessions' = [t EXCEPT ![j] = FreeSlot([t[j] EXCEPT !.core = OnRecvBye(t[j].core)])]
      BY <1>2 DEF HandleBye
    <2> DEFINE x == OnRecvBye(t[j].core)
               c == [t[j] EXCEPT !.core = x]
    <2>2. c \in SlotType
      <3>1. x \in SessionType
        BY <1>1, <2>1, CloseType DEF OnRecvBye, CloseReasons
      <3> HIDE DEF x
      <3> QED BY <1>1, <2>1, <3>1 DEF SlotType
    <2> HIDE DEF c
    <2>3. FreeSlot(c).in_use = FALSE
      BY <2>2, FreedIsFree
    <2> QED BY <2>1, <2>3, PutProves DEF c
  <1>3. CASE HandleInputState(from, d)
    <2>1. PICK j \in Slots :
            /\ Reaches(j, from, d)
            /\ sessions' = [t EXCEPT ![j] =
                 [t[j] EXCEPT !.core = OnRecvInput(t[j].core, d.seq),
                              !.have_last_input = t[j].have_last_input
                                                    \/ AcceptsInput(t[j].core, d.seq)]]
      BY <1>3 DEF HandleInputState
    <2> DEFINE c == [t[j] EXCEPT !.core = OnRecvInput(t[j].core, d.seq),
                              !.have_last_input = t[j].have_last_input
                                                    \/ AcceptsInput(t[j].core, d.seq)]
    <2>2. c.auth_verified = t[j].auth_verified
      BY <1>1, <2>1 DEF SlotType
    <2> HIDE DEF t
    <2> QED BY <2>1, <2>2, PutProves DEF t
  <1>4. CASE HandlePing(from, d) \/ HandleOther(from, d)
    <2>1. PICK j \in Slots :
            /\ Reaches(j, from, d)
            /\ sessions' = [t EXCEPT ![j] = [t[j] EXCEPT !.core = SessionHeard(t[j].core)]]
      BY <1>4 DEF HandlePing, HandleOther, Checked
    <2>2. [t[j] EXCEPT !.core = SessionHeard(t[j].core)].auth_verified = t[j].auth_verified
      BY <1>1, <2>1 DEF SlotType
    <2> HIDE DEF t
    <2> QED BY <2>1, <2>2, PutProves DEF t
  <1>5. CASE HandlePong(from, d)
    <2>1. PICK j \in Slots :
            /\ Reaches(j, from, d)
            /\ sessions' = [t EXCEPT ![j] =
                 [t[j] EXCEPT !.core = SessionHeard(t[j].core),
                              !.ping_pending = t[j].ping_pending /\ ~d.answers]]
      BY <1>5 DEF HandlePong
    <2>2. [t[j] EXCEPT !.core = SessionHeard(t[j].core),
                       !.ping_pending = t[j].ping_pending /\ ~d.answers].auth_verified
            = t[j].auth_verified
      BY <1>1, <2>1 DEF SlotType
    <2> HIDE DEF t
    <2> QED BY <2>1, <2>2, PutProves DEF t
  <1>6. CASE HandleAck(from, d)
    <2>1. PICK j \in Slots :
            /\ Reaches(j, from, d)
            /\ sessions' = [t EXCEPT ![j] =
                 [t[j] EXCEPT !.core = OnRecvAck(@, d.acks),
                              !.touchmap.dirty = TRUE,
                              !.inputcaps = IF ~t[j].auth_required /\ KbmFeatures # {}
                                              THEN CapsArm(@) ELSE @]]
      BY <1>6 DEF HandleAck
    <2> DEFINE x == OnRecvAck(t[j].core, d.acks)
               touch == [t[j].touchmap EXCEPT !.dirty = TRUE]
               caps == IF ~t[j].auth_required /\ KbmFeatures # {}
                         THEN CapsArm(t[j].inputcaps) ELSE t[j].inputcaps
               c == [t[j] EXCEPT !.core = x, !.touchmap = touch, !.inputcaps = caps]
    <2>2. sessions' = [t EXCEPT ![j] = c]
      BY <1>1, <2>1 DEF SlotType
    <2> HIDE DEF x, touch, caps
    <2>3. c.auth_verified = t[j].auth_verified
      BY <1>1, <2>1 DEF SlotType
    <2> HIDE DEF t, c
    <2> QED BY <2>2, <2>3, PutProves DEF t
  <1>7. CASE HandleKbm(from, d)
    <2> DEFINE f == d.type
    <2>1. PICK j \in Slots :
            LET s == t[j]
                heard == [s EXCEPT !.core = OnRecvKbm(@, f, d.seq)]
                had == s.kbm[f].created
                st == KbmNoteCreated(s.kbm[f])
            IN  /\ Reaches(j, from, d)
                /\ sessions' \in {[t EXCEPT ![j] = heard],
                                  [t EXCEPT ![j] =
                                     [heard EXCEPT !.kbm[f] = Apply(f, st, d.msg),
                                                   !.inputcaps = IF had THEN @ ELSE CapsRearm(@)]]}
      BY <1>7 DEF HandleKbm
    <2> DEFINE s == t[j]
               x == OnRecvKbm(s.core, f, d.seq)
               k == [s.kbm EXCEPT ![f] = Apply(f, KbmNoteCreated(s.kbm[f]), d.msg)]
               caps == IF s.kbm[f].created THEN s.inputcaps ELSE CapsRearm(s.inputcaps)
               heard == [s EXCEPT !.core = x]
               c == [s EXCEPT !.core = x, !.kbm = k, !.inputcaps = caps]
    <2>2. s \in SlotType
      BY <1>1, <2>1
    <2>3. sessions' \in {[t EXCEPT ![j] = heard], [t EXCEPT ![j] = c]}
      BY <2>1, <2>2 DEF SlotType
    <2> HIDE DEF x, k, caps
    <2>4. heard.auth_verified = s.auth_verified /\ c.auth_verified = s.auth_verified
      BY <2>2 DEF SlotType
    <2> HIDE DEF heard, c, t
    <2>5. PICK e \in {heard, c} : sessions' = [t EXCEPT ![j] = e]
      BY <2>3
    <2>6. e.auth_verified = t[j].auth_verified
      BY <2>4, <2>5
    <2> HIDE DEF s
    <2> QED BY <2>5, <2>6, PutProves DEF t
  <1> QED BY <1>2, <1>3, <1>4, <1>5, <1>6, <1>7

LEMMA DatagramProves ==
  ASSUME IInv, Vacated, NEW from \in Peers, NEW d, OnDatagram(from, d)
  PROVE  ProvedByTag(from, d)
  <1>1. CASE AuthFailed(from, d)
    <2>1. PICK j \in Slots : sessions' = [sessions EXCEPT ![j] = FreeSlot(sessions[j])]
      BY <1>1 DEF AuthFailed
    <2>2. FreeSlot(sessions[j]).in_use = FALSE
      BY FreedIsFree, UsedSlot DEF IInv
    <2> QED BY <2>1, <2>2, ClaimProves
  <1>2. CASE \/ AuthDropped(from, d) \/ HandleDiscover(from, d) \/ HelloRejected(from, d)
             \/ HandshakeWithSid(from, d) \/ HelloNoSlot(from, d)
             \/ UnknownSession(from, d) \/ NotFromPeer(from, d)
    <2>1. sessions' \in {sessions, Checked(from, d)}
      BY <1>2 DEF AuthDropped, HandleDiscover, HelloRejected, HandshakeWithSid, HelloNoSlot,
         UnknownSession, NotFromPeer
    <2> QED BY <2>1, CheckedByTag DEF ProvedByTag
  <1>3. CASE \/ HelloDuplicate(from, d) \/ HelloPadFails(from, d) \/ HelloRateRefused(from, d)
             \/ HelloPlain(from, d) \/ HelloPairing(from, d) \/ HelloNoEntropy(from, d)
    BY <1>3, HelloProves
  <1>4. CASE CheckAuth(from, d) /\
             (\/ HandleInputState(from, d) \/ HandleKbm(from, d) \/ HandlePing(from, d)
              \/ HandlePong(from, d) \/ HandleBye(from, d) \/ HandleAck(from, d)
              \/ HandleOther(from, d))
    BY <1>4, HandlerProves
  <1> QED BY <1>1, <1>2, <1>3, <1>4 DEF OnDatagram, Dispatch

\* The host's calls and the passage of time prove nothing.
LEMMA HostProvesNothing ==
  ASSUME IInv, Tick \/ Elapse \/ BeginPairing \/ CancelPairing,
         NEW i \in Slots, sessions'[i].in_use
  PROVE  sessions'[i].auth_verified = sessions[i].auth_verified
  <1> DEFINE s == sessions[i]
  <1>1. s \in SlotType
    BY UsedSlot DEF IInv
  <1>2. CASE Tick
    <2> DEFINE d == Delivered(s)
               x == SessionTick(d.core)
               c == [d EXCEPT !.core = x]
               p == [c EXCEPT !.ping_age = 0, !.ping_pending = TRUE]
    <2>1. sessions'[i] = Ticked(s)
      BY <1>2 DEF Tick
    <2>2. DOMAIN d = DOMAIN s /\ d.auth_verified = s.auth_verified
      BY <1>1 DEF Delivered, SlotType
    <2> HIDE DEF d, x
    <2>3. c.auth_verified = s.auth_verified /\ p.auth_verified = s.auth_verified
          /\ FreeSlot(c).in_use = FALSE /\ FreeSlot(d).in_use = FALSE
      BY <1>1, <2>2 DEF SlotType, FreeSlot
    <2>4. Ticked(s) \in {FreeSlot(d), d, FreeSlot(c), c, p}
      <3>1. Serviced(d) \in {d, FreeSlot(c), c, p}
        BY DEF Serviced, x
      <3> QED BY <3>1 DEF Ticked, d
    <2> HIDE DEF c, p
    <2> QED BY <2>1, <2>2, <2>3, <2>4
  <1>3. CASE Elapse
    <2>1. sessions'[i] = Aged(s)
      BY <1>3 DEF Elapse
    <2> QED BY <1>1, <2>1 DEF Aged, SlotType
  <1>4. CASE BeginPairing \/ CancelPairing
    <2>1. sessions' \in {sessions, DropUnproven(sessions)}
      BY <1>4 DEF BeginPairing, CancelPairing
    <2>2. sessions'[i] = s \/ sessions'[i] = FreeSlot(s)
      BY <2>1 DEF DropUnproven
    <2> QED BY <1>1, <2>2, FreedIsFree
  <1> QED BY <1>2, <1>3, <1>4

\* Only a HELLO begins a session.
LEMMA OthersSettle ==
  ASSUME IInv, Vacated, NEW from \in Peers, NEW d, Parsed(d), OnDatagram(from, d),
         d.type # "HELLO"
  PROVE  SettlesStep
  BY AuthFailedStep, RefusalStep, HelloDuplicateStep, HelloGivenUpStep, HandleInputStateStep,
     HandleKbmStep, HandlePingStep, HandlePongStep, HandleByeStep, HandleAckStep
  DEF OnDatagram, Dispatch, HelloPlain, HelloPairing

\* The ACK a client sends for a WELCOME, before it has a key to tag it with.
PlainAck(id) == [type |-> "ACK", sid |-> id, tag |-> NoKey, acks |-> WelcomeSeq]

\* It discharges the WELCOME of the session it names, unless that has been proved.
LEMMA AckDischarges ==
  ASSUME SInv, NEW from \in Peers, NEW i \in Slots,
         sessions[i].in_use, sessions[i].peer = from, ~sessions[i].auth_verified,
         OnDatagram(from, PlainAck(i + 1))
  PROVE  ~sessions'[i].core.retx.armed
  <1> DEFINE d == PlainAck(i + 1)
  <1>1. d.type = "ACK" /\ d.sid = i + 1 /\ ~Tagged(d) /\ d.acks = WelcomeSeq
    BY DEF PlainAck, Tagged
  <1> HIDE DEF d
  <1>2. \A j \in Slots : sessions[j].in_use => sessions[j].core.session_id = j + 1
    BY UsedSlot DEF SInv, IInv, SlotInv
  <1>3. \A j \in Slots : Known(j, d) => j = i
    BY <1>1, <1>2, SlotsAreNat DEF Known, Slots
  <1>4. Known(i, d)
    BY <1>1, <1>2, SlotsAreNat DEF Known, Slots
  <1>5. \A j \in Slots : NoTagNeeded(j, from, d) /\ ~BadTag(j, from, d) /\ ~GoodTag(j, from, d)
    BY <1>1, <1>3 DEF NoTagNeeded, BadTag, GoodTag
  <1>6. CheckAuth(from, d) /\ ~AuthFailed(from, d) /\ ~AuthDropped(from, d)
    BY <1>5 DEF CheckAuth, AuthFailed, AuthDropped
  <1>7. HandleAck(from, d)
    <2>1. ~Unknown(d) /\ ~NotFromPeer(from, d)
      BY <1>3, <1>4 DEF Unknown, NotFromPeer
    <2>2. d.type \notin Facilities
      BY <1>1 DEF Facilities
    <2>3. Dispatch(from, d)
      BY <1>6 DEF OnDatagram, d
    <2> QED BY <1>1, <2>1, <2>2, <2>3
      DEF Dispatch, HandleDiscover, HelloRejected, HandshakeWithSid, ReadableHello, HelloDuplicate,
          HelloNoSlot, HelloPadFails, Allots, HelloRateRefused, HelloPlain, HelloPairing,
          HelloNoEntropy, UnknownSession, HandleInputState, HandleKbm, HandlePing, HandlePong,
          HandleBye, HandleOther
  <1>8. Checked(from, d) = [j \in Slots |-> sessions[j]]
    BY <1>5 DEF Checked
  <1>9. PICK touch, caps :
          sessions' = [sessions EXCEPT ![i] =
            [sessions[i] EXCEPT !.core = OnRecvAck(sessions[i].core, d.acks),
                                !.touchmap = touch, !.inputcaps = caps]]
    <2>1. sessions = [j \in Slots |-> sessions[j]]
      BY DEF SInv, IInv, Table
    <2>2. PICK j \in Slots :
            /\ Reaches(j, from, d)
            /\ sessions' = [sessions EXCEPT ![j] =
                 [sessions[j] EXCEPT !.core = OnRecvAck(@, d.acks),
                              !.touchmap.dirty = TRUE,
                              !.inputcaps = IF ~sessions[j].auth_required /\ KbmFeatures # {}
                                              THEN CapsArm(@) ELSE @]]
      BY <1>7, <1>8, <2>1 DEF HandleAck
    <2>3. j = i
      BY <1>3, <2>2 DEF Reaches
    <2>4. sessions[i] \in SlotType
      BY UsedSlot DEF SInv, IInv
    <2>5. sessions' = [sessions EXCEPT ![i] =
            [sessions[i] EXCEPT !.core = OnRecvAck(sessions[i].core, d.acks),
                                !.touchmap = [sessions[i].touchmap EXCEPT !.dirty = TRUE],
                                !.inputcaps = IF ~sessions[i].auth_required /\ KbmFeatures # {}
                                                THEN CapsArm(sessions[i].inputcaps)
                                                ELSE sessions[i].inputcaps]]
      BY <2>2, <2>3, <2>4 DEF SlotType
    <2> QED BY <2>5
  <1> DEFINE x == OnRecvAck(sessions[i].core, d.acks)
  <1>10. sessions[i].core \in SessionType /\ Housed(i, sessions[i]) /\ sessions[i] \in SlotType
    BY UsedSlot DEF SInv, IInv, Registry
  <1>11. ~x.retx.armed
    BY <1>1, <1>10 DEF OnRecvAck, Housed, SessionType, RetxType, NoRetx
  <1> HIDE DEF x
  <1>12. sessions'[i].core = x
    <2>1. sessions' = [sessions EXCEPT ![i] =
            [sessions[i] EXCEPT !.core = x, !.touchmap = touch, !.inputcaps = caps]]
      BY <1>9 DEF x
    <2> QED BY <1>10, <2>1 DEF SInv, IInv, Table, SlotType
  <1> QED BY <1>11, <1>12

-----------------------------------------------------------------------------
(* What the client puts on the network.                                      *)

\* What a datagram shows of the client, and a client that is ACTIVE has shown
\* for it: the ACK of the WELCOME it is in a session by.
Speaks ==
  /\ \A d \in emitted' :
       d.tag = NoKey \/ (client.sess.state = "ACTIVE" /\ d.tag = client.sess.key)
  /\ client'.sess.state = "ACTIVE" =>
       /\ \A d \in emitted' : d.type # "HELLO"
       /\ \/ client.sess.state = "ACTIVE" /\ client'.welcome = client.welcome
          \/ emitted' = {PlainAck(client'.welcome.sid)}

\* The session and the WELCOME it came with are left as they are.
Stays(c, e) ==
  e.sess.state = c.sess.state /\ e.sess.key = c.sess.key /\ e.welcome = c.welcome

LEMMA SilentSpeaks ==
  ASSUME emitted' = {}, Stays(client, client') \/ client'.sess.state # "ACTIVE"
  PROVE  Speaks
  BY DEF Speaks, Stays

LEMMA SentStays ==
  ASSUME NEW c \in ClientType, ~c.sess.is_server, NEW t, t \notin {"DISCOVER", "HELLO"}
  PROVE  Stays(c, Sent(c, t)) /\ Sent(c, t) \in ClientType /\ ~Sent(c, t).sess.is_server
  <1> DEFINE e == Sent(c, t)
  <1>1. /\ e \in ClientType /\ e = [c EXCEPT !.sess = e.sess, !.tx_seq = e.tx_seq]
        /\ SameCore(c.sess, e.sess)
    BY SentByClient
  <1> HIDE DEF e
  <1>2. Stays(c, e) /\ e \in ClientType /\ ~e.sess.is_server
    BY <1>1 DEF Stays, SameCore, ClientType
  <1> QED BY <1>2 DEF e

LEMMA HeardStays ==
  ASSUME NEW c \in ClientType
  PROVE  Stays(c, Heard(c)) /\ Heard(c) \in ClientType /\ Heard(c).sess.is_server = c.sess.is_server
  <1>1. SessionHeard(c.sess) \in SessionType
    BY HeardType DEF ClientType
  <1>2. Heard(c) = c \/ Heard(c) = [c EXCEPT !.sess = SessionHeard(c.sess)]
    BY DEF Heard, ClientType
  <1> QED BY <1>1, <1>2 DEF Stays, SessionHeard, ClientType, SessionType

LEMMA VerifyStays ==
  ASSUME NEW c \in ClientType, NEW m
  PROVE  Stays(c, Verify(c, m)) /\ Verify(c, m) \in ClientType /\ Verify(c, m).sess = c.sess
  BY DEF Stays, Verify, ClientType, AuthStates

LEMMA StaysTwice ==
  ASSUME NEW c, NEW d, NEW e, Stays(c, d), Stays(d, e)
  PROVE  Stays(c, e)
  BY DEF Stays

LEMMA ReturnedSame ==
  ASSUME NEW c \in ClientType
  PROVE  Return(c).sess = c.sess /\ Return(c).welcome = c.welcome
         /\ Return(SettleAuth(c)).sess = c.sess /\ Return(SettleAuth(c)).welcome = c.welcome
  <1>1. \A e \in ClientType : Return(e).sess = e.sess /\ Return(e).welcome = e.welcome
    BY DEF Return, ClientType
  <1>2. SettleAuth(c) \in ClientType /\ SettleAuth(c).sess = c.sess /\ SettleAuth(c).welcome = c.welcome
    BY DEF SettleAuth, ClientType, AuthStates
  <1> HIDE DEF SettleAuth, Return
  <1> QED BY <1>1, <1>2

LEMMA ClosesClosed ==
  ASSUME NEW s \in SessionType, NEW r
  PROVE  SessionClose(s, r).state = "CLOSED"
  BY DEF SessionClose, SessionType

LEMMA OwnStepsSpeak ==
  ASSUME NEW past, ClientInv(client, past),
         ClientRuns \/ Disconnect \/ Probe \/ Connect
           \/ \E secret \in Secrets : ClientSetSecret(secret)
  PROVE  Speaks
  <1>0. client \in ClientType /\ ~client.sess.is_server /\ client.sess \in SessionType
    BY DEF ClientInv, ClientType
  <1>1. CASE ProbeReturns
    BY <1>0, <1>1, ReturnedSame, SilentSpeaks DEF ProbeReturns, Stays
  <1>2. CASE ConnectTick
    <2> DEFINE x == SessionTick(client.sess)
    <2>1. [client EXCEPT !.sess = SessionTick(@)] = [client EXCEPT !.sess = x]
      BY <1>0 DEF ClientType
    <2>2. x \in SessionType /\ x.state # "ACTIVE"
      <3>1. x \in SessionType /\ (x.state = client.sess.state \/ x.state = "CLOSED")
        BY <1>0, TickSame DEF SameCore, ClosedCore
      <3> QED BY <1>2, <3>1 DEF ConnectTick
    <2> HIDE DEF x
    <2>3. [client EXCEPT !.sess = x] \in ClientType /\ [client EXCEPT !.sess = x].sess = x
      BY <1>0, <2>2 DEF ClientType
    <2>4. client'.sess = x
      BY <1>2, <2>1, <2>3, ReturnedSame DEF ConnectTick
    <2>5. \A d \in emitted' : d.tag = NoKey
      BY <1>2 DEF ConnectTick, HelloDatagram
    <2> QED BY <2>2, <2>4, <2>5 DEF Speaks
  <1>3. CASE Connected
    <2> DEFINE x == SessionClose(client.sess, "LOCAL")
    <2>1. x \in SessionType /\ x.state = "CLOSED"
      BY <1>0, ClosesClosed, CloseType DEF CloseReasons
    <2>2. [client EXCEPT !.sess = SessionClose(@, "LOCAL")] = [client EXCEPT !.sess = x]
      BY <1>0 DEF ClientType
    <2> HIDE DEF x
    <2>3. [client EXCEPT !.sess = x] \in ClientType /\ [client EXCEPT !.sess = x].sess = x
      BY <1>0, <2>1 DEF ClientType
    <2>4. CASE NeedsSecret
      <3>1. client'.sess = x /\ emitted' = {}
        BY <1>3, <2>2, <2>3, <2>4, ReturnedSame DEF Connected
      <3> QED BY <2>1, <3>1, SilentSpeaks
    <2>5. CASE ~NeedsSecret
      <3>1. Stays(client, client') /\ emitted' = {}
        BY <1>0, <1>3, <2>5 DEF Connected, Stays, ClientType
      <3> QED BY <3>1, SilentSpeaks
    <2> QED BY <2>4, <2>5
  <1>4. CASE ConnectFails
    BY <1>0, <1>4, ReturnedSame, SilentSpeaks DEF ConnectFails, Stays
  <1>5. CASE DerivationEnds
    <2> DEFINE k == Derived(client.secret, client.welcome.nonce)
    <2>1. client' = [client EXCEPT !.deriving = FALSE, !.auth_state = "KEYED",
                       !.sess = [client.sess EXCEPT !.key = k]]
          /\ emitted' = {}
      BY <1>0, <1>5 DEF DerivationEnds, SessionSetKey, ClientType
    <2> HIDE DEF k
    <2>2. client'.welcome = client.welcome /\ client'.sess.state = client.sess.state
      BY <1>0, <2>1 DEF ClientType, SessionType
    <2> QED BY <2>1, <2>2 DEF Speaks
  <1>6. CASE PumpEnds
    <2> DEFINE x == IF client.sess.state = "CLOSED" THEN client.sess
                    ELSE SessionClose(client.sess, "IDLE_TIMEOUT")
    <2>1. x \in SessionType /\ x.state = "CLOSED"
      BY <1>0, ClosesClosed, CloseType DEF CloseReasons
    <2>2. client' = Return(SettleAuth([client EXCEPT !.sess = x])) /\ emitted' = {}
      BY <1>0, <1>6 DEF PumpEnds, ClientType
    <2> HIDE DEF x
    <2>3. [client EXCEPT !.sess = x] \in ClientType /\ [client EXCEPT !.sess = x].sess = x
      BY <1>0, <2>1 DEF ClientType
    <2> QED BY <2>1, <2>2, <2>3, ReturnedSame, SilentSpeaks
  <1>7. CASE PumpSends
    <2> DEFINE pings == PingDueFrom(client) /\ ~client.awaiting_pong
               fed == [Sent(client, "INPUT_STATE") EXCEPT !.input_age = 0]
               input == IF InputDue THEN fed ELSE client
               pinged == IF pings THEN Sent(input, "PING") ELSE input
               timed == [pinged EXCEPT !.ping_age = 0, !.awaiting_pong = pings]
    <2>1. /\ client' = (IF PingDueFrom(client) THEN timed ELSE pinged)
          /\ emitted' \subseteq {InputDatagram(client), Datagram(client, "PING")}
          /\ client.sess.state = "ACTIVE"
      BY <1>7 DEF PumpSends
    <2>2. \A d \in emitted' : d.tag = client.sess.key /\ d.type # "HELLO"
      BY <2>1 DEF InputDatagram, Datagram, HeaderTag
    <2>3. ASSUME NEW c \in ClientType, NEW e,
                 \/ e = [c EXCEPT !.input_age = 0]
                 \/ \E b \in BOOLEAN : e = [c EXCEPT !.ping_age = 0, !.awaiting_pong = b]
          PROVE  Stays(c, e) /\ e \in ClientType /\ e.sess = c.sess
      <3>1. CASE e = [c EXCEPT !.input_age = 0]
        BY <3>1 DEF Stays, ClientType
      <3>2. CASE \E b \in BOOLEAN : e = [c EXCEPT !.ping_age = 0, !.awaiting_pong = b]
        <4>1. PICK b \in BOOLEAN : e = [c EXCEPT !.ping_age = 0, !.awaiting_pong = b]
          BY <3>2
        <4> QED BY <4>1 DEF Stays, ClientType
      <3> QED BY <2>3, <3>1, <3>2
    <2>4. Stays(client, Sent(client, "INPUT_STATE")) /\ Sent(client, "INPUT_STATE") \in ClientType
          /\ ~Sent(client, "INPUT_STATE").sess.is_server
      BY <1>0, SentStays
    <2>5. Stays(Sent(client, "INPUT_STATE"), fed) /\ fed \in ClientType /\ ~fed.sess.is_server
      BY <2>3, <2>4
    <2> HIDE DEF fed
    <2>6. Stays(client, input) /\ input \in ClientType /\ ~input.sess.is_server
      BY <1>0, <2>4, <2>5, StaysTwice DEF Stays
    <2> HIDE DEF input
    <2>7. Stays(client, pinged) /\ pinged \in ClientType
      BY <2>6, SentStays, StaysTwice
    <2> HIDE DEF pinged
    <2>8. pings \in BOOLEAN
      BY DEF PingDueFrom
    <2> HIDE DEF pings
    <2>9. Stays(pinged, timed)
      BY <2>3, <2>7, <2>8
    <2>10. Stays(client, client')
      BY <2>1, <2>7, <2>9, StaysTwice
    <2> QED BY <2>1, <2>2, <2>10 DEF Speaks, Stays
  <1>8. CASE Disconnect
    <2> DEFINE x == SessionClose(client.sess, "LOCAL")
    <2>1. x \in SessionType /\ x.state = "CLOSED"
      BY <1>0, ClosesClosed, CloseType DEF CloseReasons
    <2>2. [client EXCEPT !.sess = SessionClose(@, "LOCAL")] = [client EXCEPT !.sess = x]
      BY <1>0 DEF ClientType
    <2> HIDE DEF x
    <2>3. [client EXCEPT !.sess = x] \in ClientType /\ [client EXCEPT !.sess = x].sess = x
      BY <1>0, <2>1 DEF ClientType
    <2>4. client'.sess = x
      BY <1>8, <2>2, <2>3, ReturnedSame DEF Disconnect
    <2>5. \A d \in emitted' : client.sess.state = "ACTIVE" /\ d.tag = client.sess.key
      BY <1>8 DEF Disconnect, Datagram, HeaderTag
    <2> QED BY <2>1, <2>4, <2>5 DEF Speaks
  <1>9. CASE Probe \/ Connect
    <2> DEFINE i == SessionInit(FALSE)
    <2>1. i \in SessionType /\ ~i.is_server /\ i.state = "IDLE" /\ i.key = NoKey
      BY InitType DEF SessionInit
    <2> HIDE DEF i
    <2>2. CASE Probe
      <3> DEFINE c == [client EXCEPT !.sess = i, !.tx_seq = 0, !.pairing_required = "UNKNOWN",
                                     !.call = "PROBE", !.waited = 0]
      <3>1. client' = Sent(c, "DISCOVER") /\ emitted' = {Datagram(c, "DISCOVER")}
        BY <2>2 DEF Probe, i
      <3>2. c.sess = i /\ DOMAIN c = DOMAIN client
        BY <1>0 DEF ClientType
      <3>3. Sent(c, "DISCOVER") = [c EXCEPT !.sess = SessionOnSent(i, "DISCOVER", c.tx_seq), !.tx_seq = SeqNext(c.tx_seq)]
        BY <1>0, <3>2 DEF Sent, ClientType
      <3>4. SessionOnSent(i, "DISCOVER", c.tx_seq).state = "DISCOVERING"
        BY <2>1 DEF SessionOnSent, SessionType
      <3>5. Datagram(c, "DISCOVER").tag = NoKey
        BY <2>1, <3>2 DEF Datagram, HeaderTag
      <3> HIDE DEF c
      <3>6. client'.sess.state = "DISCOVERING"
        BY <1>0, <3>1, <3>2, <3>3, <3>4 DEF ClientType
      <3> QED BY <3>1, <3>5, <3>6 DEF Speaks
    <2>3. CASE Connect
      <3> DEFINE c == [client EXCEPT !.sess = i, !.tx_seq = 0, !.auth_required = FALSE,
                                     !.auth_state = "NONE", !.awaiting_pong = FALSE,
                                     !.call = "CONNECT", !.waited = 0]
      <3>1. client' = Sent(c, "HELLO") /\ emitted' = {HelloDatagram}
        BY <2>3 DEF Connect, i
      <3>2. c.sess = i /\ DOMAIN c = DOMAIN client
        BY <1>0 DEF ClientType
      <3>3. Sent(c, "HELLO") = [c EXCEPT !.sess = SessionOnSent(i, "HELLO", c.tx_seq), !.tx_seq = SeqNext(c.tx_seq)]
        BY <1>0, <3>2 DEF Sent, ClientType
      <3>4. SessionOnSent(i, "HELLO", c.tx_seq).state = "HANDSHAKING"
        BY <2>1 DEF SessionOnSent, SessionType
      <3> HIDE DEF c
      <3>5. client'.sess.state = "HANDSHAKING"
        BY <1>0, <3>1, <3>2, <3>3, <3>4 DEF ClientType
      <3> QED BY <3>1, <3>5 DEF Speaks, HelloDatagram
    <2> QED BY <1>9, <2>2, <2>3
  <1>10. CASE \E secret \in Secrets : ClientSetSecret(secret)
    <2>1. Stays(client, client') /\ emitted' = {}
      BY <1>0, <1>10 DEF ClientSetSecret, Stays, ClientType
    <2> QED BY <2>1, SilentSpeaks
  <1> QED
    BY <1>1, <1>2, <1>3, <1>4, <1>5, <1>6, <1>7, <1>8, <1>9, <1>10 DEF ClientRuns

LEMMA ReceivesSpeak ==
  ASSUME NEW past, ClientInv(client, past), NEW m, Genuine(m, past), ClientReceives(m)
  PROVE  Speaks
  <1> DEFINE heard == Heard(client)
             verified == Verify(heard, m)
  <1>1. client \in ClientType /\ ~client.sess.is_server /\ client.sess \in SessionType
    BY DEF ClientInv, ClientType
  <1>2. /\ Stays(client, heard) /\ heard \in ClientType
        /\ heard.sess.is_server = client.sess.is_server
    BY <1>1, HeardStays
  <1>3. Stays(client, verified) /\ verified \in ClientType /\ ~verified.sess.is_server
    BY <1>1, <1>2, VerifyStays, StaysTwice
  <1> HIDE DEF verified, heard
  <1>4. CASE ReceiveOldWelcome(m)
    <2>1. /\ client' = client \/ client' = Sent(client, "ACK")
          /\ emitted' \subseteq {AckDatagram(client, m.sid, 0)}
          /\ client.sess.state = "ACTIVE"
      BY <1>4 DEF ReceiveOldWelcome, OldWelcome
    <2>2. Stays(client, client')
      BY <1>1, <2>1, SentStays DEF Stays
    <2> QED BY <2>1, <2>2 DEF Speaks, Stays, AckDatagram, HeaderTag
  <1>5. CASE ReceiveRefused(m)
    <2>1. Stays(client, client') /\ emitted' = {}
      BY <1>1, <1>5 DEF ReceiveRefused, Stays, ClientType
    <2> QED BY <2>1, SilentSpeaks
  <1>6. CASE ReceiveWelcome(m)
    <2>1. /\ client' = AfterWelcome(client, m) /\ m.type = "WELCOME" /\ ~OldWelcome(m)
          /\ emitted' = {a \in {AckDatagram(client, m.sid, 0)} : CanSend(client.sess)}
      BY <1>6 DEF ReceiveWelcome
    <2> DEFINE a == Acknowledged(client, m)
               keyless == a.sess.key = NoKey
               barred == [a EXCEPT !.auth_required = TRUE, !.auth_state = "NEED_SECRET"]
               busy == [a EXCEPT !.auth_required = TRUE, !.deriving = TRUE]
               tagged == [a EXCEPT !.auth_required = TRUE]
    <2>2. /\ a \in ClientType /\ a.welcome = m
          /\ IF client.sess.state = "CLOSED" THEN a.sess = client.sess
             ELSE /\ a.sess.state = "ACTIVE" /\ a.sess.key = client.sess.key
      BY <2>1, WelcomeAdopted DEF Genuine
    <2>3. client' \in {a, barred, busy, tagged}
      BY <2>1 DEF AfterWelcome, Acknowledged
    <2> HIDE DEF a
    <2>4. client'.sess = a.sess /\ client'.welcome = m
      BY <2>2, <2>3 DEF ClientType
    <2>5. CASE client.sess.state = "CLOSED"
      BY <2>1, <2>2, <2>4, <2>5 DEF Speaks, CanSend
    <2>6. CASE client.sess.state # "CLOSED"
      <3>1. client.sess.key = NoKey
        BY <2>1, <2>6 DEF OldWelcome, ClientInv
      <3>2. emitted' = {AckDatagram(client, m.sid, 0)}
        BY <2>1, <2>6 DEF CanSend
      <3>3. AckDatagram(client, m.sid, 0) = PlainAck(m.sid)
        BY <3>1 DEF AckDatagram, PlainAck, HeaderTag, WelcomeSeq
      <3> QED BY <2>4, <3>2, <3>3 DEF Speaks, PlainAck
    <2> QED BY <2>5, <2>6
  <1>7. CASE ReceiveAnnounce(m)
    <2>1. client' = [heard EXCEPT !.pairing_required = IF m.pairing_required THEN "YES" ELSE "NO"]
          /\ emitted' = {}
      BY <1>7 DEF ReceiveAnnounce, heard
    <2>2. Stays(heard, client')
      BY <1>2, <2>1 DEF Stays, ClientType
    <2> QED BY <1>2, <2>1, <2>2, StaysTwice, SilentSpeaks
  <1>8. CASE ReceivePong(m)
    <2>1. PICK answers \in BOOLEAN :
            client' = [verified EXCEPT !.awaiting_pong = @ /\ ~answers]
      BY <1>8 DEF ReceivePong, verified, heard
    <2>2. Stays(verified, client') /\ emitted' = {}
      BY <1>3, <1>8, <2>1 DEF Stays, ClientType, ReceivePong
    <2> QED BY <1>3, <2>2, StaysTwice, SilentSpeaks
  <1>9. CASE ReceivePing(m)
    <2>1. \/ client' = verified /\ emitted' = {}
          \/ /\ client' = Sent(verified, "PONG") /\ emitted' = {PongDatagram(verified)}
             /\ CanSend(verified.sess)
      BY <1>9 DEF ReceivePing, verified, heard
    <2>2. Stays(client, client')
      BY <1>3, <2>1, SentStays, StaysTwice
    <2>3. CanSend(verified.sess) /\ client.sess.state # "ACTIVE" => client.sess.key = NoKey
      BY <1>3 DEF CanSend, Stays, ClientInv
    <2>4. PongDatagram(verified).tag = client.sess.key /\ PongDatagram(verified).type = "PONG"
      BY <1>3 DEF PongDatagram, HeaderTag, Stays
    <2> QED BY <2>1, <2>2, <2>3, <2>4 DEF Speaks, Stays
  <1>10. CASE ReceiveError(m)
    <2> DEFINE closed == [heard EXCEPT !.sess = SessionClose(heard.sess, "PEER_ERROR")]
               failed == [heard EXCEPT !.auth_state = "FAILED"]
    <2>1. /\ client' = failed \/ client' = heard \/ client' = closed
          /\ emitted' = {}
      BY <1>10 DEF ReceiveError, AfterError, heard
    <2>2. Stays(heard, failed) /\ Stays(heard, heard)
      BY <1>2 DEF Stays, ClientType
    <2>3. closed.sess.state = "CLOSED"
      BY <1>2, ClosesClosed DEF ClientType
    <2> HIDE DEF closed, failed
    <2> QED BY <1>2, <2>1, <2>2, <2>3, StaysTwice, SilentSpeaks
  <1>11. CASE ReceiveOther(m)
    <2>1. client' = verified /\ emitted' = {}
      BY <1>11 DEF ReceiveOther, verified, heard
    <2> QED BY <1>3, <2>1, SilentSpeaks
  <1> QED BY <1>4, <1>5, <1>6, <1>7, <1>8, <1>9, <1>10, <1>11 DEF ClientReceives

-----------------------------------------------------------------------------
(* The order of the queue.                                                   *)

\* What is sent goes behind what is under way; if none of it is lost, all of it.
LEMMA GoesBehind ==
  ASSUME NEW q, q \in Seq(Contents(q)), NEW new, NEW after \in Carried(q, new)
  PROVE  /\ Len(q) \in Nat /\ Len(after) \in Nat /\ Len(q) <= Len(after)
         /\ DOMAIN q = 1 .. Len(q) /\ DOMAIN after = 1 .. Len(after)
         /\ \A k \in DOMAIN q : after[k] = q[k]
         /\ \A k \in DOMAIN after : k \notin DOMAIN q => after[k] \in new
         /\ \A a : new = {a} /\ Lost(q, new, after) = 0 => after[Len(q) + 1] = a
                                                         /\ Len(q) + 1 \in DOMAIN after
  <1>1. PICK order \in Orders(new) : after = q \o order
    BY DEF Carried
  <1>2. PICK n \in 0 .. Cardinality(new) : order \in [1 .. n -> new]
    BY DEF Orders, Injection
  <1>3. n \in Nat /\ order \in Seq(new) /\ Len(order) = n /\ DOMAIN order = 1 .. n
    BY <1>2
  <1> DEFINE S == Contents(q) \cup new
  <1>4. q \in Seq(S) /\ order \in Seq(S)
    BY <1>3
  <1> HIDE DEF S
  <1>5. /\ Len(q \o order) = Len(q) + Len(order) /\ Len(q) \in Nat
        /\ DOMAIN q = 1 .. Len(q) /\ DOMAIN (q \o order) = 1 .. Len(q \o order)
        /\ \A i \in 1 .. Len(q) + Len(order) :
             (q \o order)[i] = IF i <= Len(q) THEN q[i] ELSE order[i - Len(q)]
    BY <1>4, ConcatProperties, LenProperties
  <1>6. /\ Len(after) = Len(q) + n /\ DOMAIN after = 1 .. Len(after)
        /\ \A i \in 1 .. Len(q) + n : after[i] = IF i <= Len(q) THEN q[i] ELSE order[i - Len(q)]
    BY <1>1, <1>3, <1>5
  <1>7. ASSUME NEW k \in DOMAIN after, k \notin DOMAIN q
        PROVE  after[k] \in new
    <2>1. k \in Nat /\ k > Len(q) /\ k - Len(q) \in 1 .. n
      BY <1>3, <1>5, <1>6, <1>7
    <2> QED BY <1>2, <1>3, <1>5, <1>6, <2>1
  <1>8. ASSUME NEW a, new = {a}, Lost(q, new, after) = 0
        PROVE  after[Len(q) + 1] = a /\ Len(q) + 1 \in DOMAIN after
    <2>1. Cardinality(new) = 1
      BY <1>8, FS_Singleton
    <2>2. n = 1
      BY <1>3, <1>5, <1>6, <1>8, <2>1 DEF Lost
    <2>3. order[1] = a
      BY <1>2, <1>8, <2>2
    <2> QED BY <1>5, <1>6, <2>2, <2>3
  <1>9. Len(after) \in Nat /\ Len(q) <= Len(after)
    BY <1>3, <1>5, <1>6
  <1>10. \A k \in DOMAIN q : after[k] = q[k]
    BY <1>3, <1>5, <1>6
  <1>11. /\ Len(q) \in Nat /\ DOMAIN q = 1 .. Len(q) /\ DOMAIN after = 1 .. Len(after)
    BY <1>5, <1>6
  <1> QED BY <1>7, <1>8, <1>9, <1>10, <1>11

\* With no fault the oldest datagram is the one that arrives, once.
LEMMA HeadGoes ==
  ASSUME NEW q, q \in Seq(Contents(q)), 1 \in DOMAIN q
  PROVE  /\ Len(q) \in Nat /\ Len(q) >= 1 /\ DOMAIN q = 1 .. Len(q)
         /\ DOMAIN RemoveAt(q, 1) = 1 .. (Len(q) - 1) /\ Len(RemoveAt(q, 1)) = Len(q) - 1
         /\ \A k \in 1 .. (Len(q) - 1) : RemoveAt(q, 1)[k] = q[k + 1]
  <1> DEFINE S == Contents(q)
             a == SubSeq(q, 1, 1 - 1)
             b == SubSeq(q, 1 + 1, Len(q))
  <1> HIDE DEF S
  <1>1. q \in Seq(S) /\ Len(q) \in Nat /\ DOMAIN q = 1 .. Len(q)
    BY DEF S
  <1>2. Len(q) >= 1
    BY <1>1
  <1>3. a \in Seq(S) /\ Len(a) = 0
    BY <1>1
  <1>4. b \in Seq(S) /\ Len(b) = Len(q) - 1 /\ \A k \in 1 .. (Len(q) - 1) : b[k] = q[k + 1]
    BY <1>1, <1>2
  <1>5. RemoveAt(q, 1) = a \o b
    BY DEF RemoveAt
  <1> HIDE DEF a, b
  <1>6. /\ Len(a \o b) = Len(a) + Len(b) /\ DOMAIN (a \o b) = 1 .. Len(a \o b)
        /\ \A i \in 1 .. Len(a) + Len(b) :
             (a \o b)[i] = IF i <= Len(a) THEN a[i] ELSE b[i - Len(a)]
    BY <1>3, <1>4, ConcatProperties, LenProperties
  <1>7. ASSUME NEW k \in 1 .. (Len(q) - 1)
        PROVE  RemoveAt(q, 1)[k] = q[k + 1]
    <2>1. k \in 1 .. Len(a) + Len(b) /\ ~(k <= Len(a)) /\ k - Len(a) = k
      BY <1>1, <1>2, <1>3, <1>4
    <2> QED BY <1>4, <1>5, <1>6, <2>1
  <1>8. Len(a \o b) = Len(q) - 1
    <2>1. Len(a) + Len(b) = Len(q) - 1
      BY <1>1, <1>3, <1>4
    <2>2. Len(a \o b) = Len(a) + Len(b)
      BY <1>6
    <2> QED BY <2>1, <2>2
  <1>9. DOMAIN RemoveAt(q, 1) = 1 .. (Len(q) - 1) /\ Len(RemoveAt(q, 1)) = Len(q) - 1
    BY <1>5, <1>6, <1>8
  <1> QED BY <1>1, <1>2, <1>7, <1>9

-----------------------------------------------------------------------------
(* No session waits in vain for its ACK.                                     *)

\* The ACK that is owed to session id is on its way, at one of the places K.
AckAmong(K, id) == \E k \in K : up[k] = PlainAck(id)

\* The client's ACK leaves before anything its key could be asked for: it is
\* there as long as the session waits for it, and in front of every tag.
Owed(i) ==
  /\ ~sessions[i].auth_verified
  /\ client.sess.state = "ACTIVE" /\ client.welcome.sid = i + 1 => AckAmong(DOMAIN up, i + 1)
  /\ \A k \in DOMAIN up :
       sessions[i].core.key # NoKey /\ up[k].tag = sessions[i].core.key
         => AckAmong(1 .. (k - 1), i + 1)

\* A tag was made with the key of a session there was: its nonce is spent.
TagsAreOld ==
  \A k \in DOMAIN up, g \in 0 .. MaxGeneration, n \in Nonces : up[k].tag = Key(g, n) => n \in spent

\* A HELLO still on its way will find the ACK of the session it led to behind it.
HellosAreOver ==
  client.sess.state = "ACTIVE" =>
    \A k \in DOMAIN up : up[k].type = "HELLO" => AckAmong((k + 1) .. Len(up), client.welcome.sid)

AllOwed == \A i \in Slots : Awaits(i) => Owed(i)

PromptInv ==
  /\ faults \in Nat /\ TagsAreOld
  /\ faults = 0 => HellosAreOver /\ AllOwed

\* The key of an ACTIVE client was made from a nonce that was drawn, and if the
\* server holds it, then for the session the client is in.
LEMMA KeyIsSpent ==
  ASSUME LInv, client.sess.state = "ACTIVE",
         NEW g \in 0 .. MaxGeneration, NEW n \in Nonces, client.sess.key = Key(g, n)
  PROVE  n \in spent
  <1> DEFINE m == client.welcome.nonce
             id == client.welcome.sid
             k == client.sess.key
  <1>1. k # NoKey
    BY ServerAssumption, SessionAssumption
  <1>2. /\ KeyFollows(client, granted)
        /\ \E secret \in Secrets : k = Derived(secret, m)
    BY <1>1 DEF LInv, ClientInv, InOffered
  <1>3. PICK secret \in Secrets : k = Derived(secret, m)
    BY <1>2
  <1>4. m \in Nonces
    BY <1>2 DEF KeyFollows, Offered
  <1>5. PICK h \in 0 .. MaxGeneration : <<id, Key(h, m)>> \in granted
    BY <1>2 DEF KeyFollows, Offered
  <1>6. n = m
    BY <1>3, <1>4, LinkAssumption
  <1>7. Key(h, m) # NoKey
    BY <1>4, ServerAssumption, SessionAssumption
  <1> HIDE DEF m, id, k
  <1>8. PICK f \in 0 .. MaxGeneration, j \in spent : Key(h, m) = Key(f, j)
    <2>1. <<id, Key(h, m)>>[2] = Key(h, m)
      OBVIOUS
    <2> QED BY <1>5, <1>7, <2>1 DEF LInv, Ledger, Salted
  <1>9. j = m
    BY <1>8 DEF Key
  <1> QED BY <1>6, <1>8, <1>9

LEMMA KeyIsItsOwn ==
  ASSUME LInv, client.sess.state = "ACTIVE",
         NEW i \in Slots, sessions[i].in_use, sessions[i].core.key # NoKey,
         client.sess.key = sessions[i].core.key
  PROVE  client.welcome.sid = i + 1
  <1> DEFINE m == client.welcome.nonce
             id == client.welcome.sid
             k == client.sess.key
  <1>1. /\ KeyFollows(client, granted)
        /\ \E secret \in Secrets : k = Derived(secret, m)
    BY DEF LInv, ClientInv, InOffered
  <1>2. PICK secret \in Secrets : k = Derived(secret, m)
    BY <1>1
  <1>3. m \in Nonces
    BY <1>1 DEF KeyFollows, Offered
  <1>4. PICK h \in 0 .. MaxGeneration : <<id, Key(h, m)>> \in granted
    BY <1>1 DEF KeyFollows, Offered
  <1>5. /\ sessions[i].core.session_id = i + 1
        /\ <<sessions[i].core.session_id, sessions[i].core.key>> \in granted
    <2>1. SlotInv(i, sessions[i])
      BY DEF LInv, SInv, IInv, Table
    <2> QED BY <2>1 DEF SlotInv, LInv, TableInv
  <1>6. <<i + 1, k>> \in granted
    BY <1>5
  <1>7. PICK f \in 0 .. MaxGeneration, j \in spent : k = Key(f, j)
    <2>1. <<i + 1, k>>[2] = k
      OBVIOUS
    <2> QED BY <1>6, <2>1 DEF LInv, Ledger, Salted
  <1>8. j = m
    BY <1>2, <1>3, <1>7, LinkAssumption DEF LInv, Ledger
  <1> HIDE DEF m, id, k
  <1>9. <<id, Key(h, m)>> = <<i + 1, k>>
    <2>1. <<id, Key(h, m)>>[2] = Key(h, m) /\ <<i + 1, k>>[2] = Key(f, m)
      BY <1>7, <1>8
    <2> QED BY <1>3, <1>4, <1>6, <2>1 DEF LInv, Ledger, OnePerNonce
  <1> QED BY <1>9 DEF id

\* What the client says keeps the order.
LEMMA SpeakingKeepsOrder ==
  ASSUME LInv, PromptInv, Speaks, up' \in Carried(up, emitted'), faults' \in Nat, faults' >= faults,
         faults' = 0 => Lost(up, emitted', up') = 0,
         UNCHANGED <<sessions, spent>>
  PROVE  PromptInv'
  <1>1. /\ Len(up) \in Nat /\ Len(up') \in Nat /\ Len(up) <= Len(up')
        /\ DOMAIN up = 1 .. Len(up) /\ DOMAIN up' = 1 .. Len(up')
        /\ \A k \in DOMAIN up : up'[k] = up[k]
        /\ \A k \in DOMAIN up' : k \notin DOMAIN up => up'[k] \in emitted'
        /\ \A a : emitted' = {a} /\ Lost(up, emitted', up') = 0 => up'[Len(up) + 1] = a
                                                           /\ Len(up) + 1 \in DOMAIN up'
    BY GoesBehind DEF LInv, NetworkInv
  <1>2. TagsAreOld'
    <2> SUFFICES ASSUME NEW k \in DOMAIN up', NEW g \in 0 .. MaxGeneration, NEW n \in Nonces,
                        up'[k].tag = Key(g, n)
                 PROVE  n \in spent
      BY DEF TagsAreOld
    <2>1. CASE k \in DOMAIN up
      BY <1>1, <2>1 DEF PromptInv, TagsAreOld
    <2>2. CASE k \notin DOMAIN up
      <3>1. Key(g, n) # NoKey
        BY ServerAssumption, SessionAssumption
      <3> QED BY <1>1, <2>2, <3>1, KeyIsSpent DEF Speaks
    <2> QED BY <2>1, <2>2
  <1> SUFFICES ASSUME faults' = 0
               PROVE  HellosAreOver' /\ AllOwed'
    BY <1>2 DEF PromptInv
  <1>3. HellosAreOver /\ AllOwed /\ Lost(up, emitted', up') = 0
    BY DEF PromptInv
  <1>4. HellosAreOver'
    <2> SUFFICES ASSUME client'.sess.state = "ACTIVE", NEW k \in DOMAIN up', up'[k].type = "HELLO"
                 PROVE  \E j \in (k + 1) .. Len(up') : up'[j] = PlainAck(client'.welcome.sid)
      BY DEF HellosAreOver, AckAmong
    <2>1. k \in DOMAIN up /\ up[k].type = "HELLO"
      BY <1>1 DEF Speaks
    <2>2. CASE client.sess.state = "ACTIVE" /\ client'.welcome = client.welcome
      <3>1. PICK j \in (k + 1) .. Len(up) : up[j] = PlainAck(client.welcome.sid)
        BY <1>3, <2>1, <2>2 DEF HellosAreOver, AckAmong
      <3>2. j \in DOMAIN up /\ j \in (k + 1) .. Len(up')
        BY <1>1, <2>1, <3>1
      <3> QED BY <1>1, <2>2, <3>1, <3>2
    <2>3. CASE emitted' = {PlainAck(client'.welcome.sid)}
      <3>1. up'[Len(up) + 1] = PlainAck(client'.welcome.sid) /\ Len(up) + 1 \in DOMAIN up'
        BY <1>1, <1>3, <2>3
      <3>2. Len(up) + 1 \in (k + 1) .. Len(up')
        BY <1>1, <2>1, <3>1
      <3> QED BY <3>1, <3>2
    <2> QED BY <2>2, <2>3 DEF Speaks
  <1>5. ASSUME NEW i \in Slots, Awaits(i)'
        PROVE  Owed(i)'
    <2>1. Awaits(i) /\ Owed(i)
      BY <1>3, <1>5 DEF Awaits, AllOwed
    <2>2. ~sessions'[i].auth_verified
      BY <2>1 DEF Owed
    <2>3. ASSUME client'.sess.state = "ACTIVE", client'.welcome.sid = i + 1
          PROVE  \E j \in DOMAIN up' : up'[j] = PlainAck(i + 1)
      <3>1. CASE client.sess.state = "ACTIVE" /\ client'.welcome = client.welcome
        <4>1. PICK j \in DOMAIN up : up[j] = PlainAck(i + 1)
          BY <2>1, <2>3, <3>1 DEF Owed, AckAmong
        <4>2. j \in DOMAIN up'
          BY <1>1
        <4> QED BY <1>1, <4>1, <4>2
      <3>2. CASE emitted' = {PlainAck(client'.welcome.sid)}
        BY <1>1, <1>3, <2>3, <3>2
      <3> QED BY <2>3, <3>1, <3>2 DEF Speaks
    <2>4. ASSUME NEW k \in DOMAIN up', sessions[i].core.key # NoKey, up'[k].tag = sessions[i].core.key
          PROVE  \E j \in 1 .. (k - 1) : up'[j] = PlainAck(i + 1)
      <3>1. CASE k \in DOMAIN up
        <4>1. PICK j \in 1 .. (k - 1) : up[j] = PlainAck(i + 1)
          BY <1>1, <2>1, <2>4, <3>1 DEF Owed, AckAmong
        <4>2. j \in DOMAIN up
          BY <1>1, <3>1
        <4> QED BY <1>1, <4>1, <4>2
      <3>2. CASE k \notin DOMAIN up
        <4>1. client.sess.state = "ACTIVE" /\ client.sess.key = sessions[i].core.key
          BY <1>1, <2>4, <3>2 DEF Speaks
        <4>2. client.welcome.sid = i + 1
          BY <2>1, <2>4, <4>1, KeyIsItsOwn DEF Awaits
        <4>3. PICK j \in DOMAIN up : up[j] = PlainAck(i + 1)
          BY <2>1, <4>1, <4>2 DEF Owed, AckAmong
        <4>4. j \in 1 .. (k - 1)
          BY <1>1, <3>2
        <4> QED BY <1>1, <4>3, <4>4
      <3> QED BY <3>1, <3>2
    <2> QED BY <2>2, <2>3, <2>4 DEF Owed, AckAmong
  <1> QED BY <1>4, <1>5 DEF AllOwed

\* A session that waits on went on waiting.
LEMMA WaitsOn ==
  ASSUME NEW i \in Slots, Settles(sessions[i], sessions'[i]), Awaits(i)'
  PROVE  Awaits(i) /\ sessions'[i].core.key = sessions[i].core.key
  BY DEF Settles, Lives, Vacant, CoreLives, Awaits

\* A session that has its ACK is not waiting any more.
LEMMA AckIsHeard ==
  ASSUME LInv, NEW i \in Slots, Settles(sessions[i], sessions'[i]), Awaits(i)', Owed(i),
         NEW k \in DOMAIN up, OnDatagram(ThePeer, up[k])
  PROVE  up[k] # PlainAck(i + 1)
  <1> SUFFICES ASSUME up[k] = PlainAck(i + 1)
               PROVE  FALSE
    OBVIOUS
  <1>1. Awaits(i)
    BY WaitsOn
  <1>2. sessions[i].in_use /\ sessions[i].peer = ThePeer /\ ~sessions[i].auth_verified
    BY <1>1 DEF Awaits, Owed, LInv, TableInv
  <1>3. SInv /\ ThePeer \in Peers /\ OnDatagram(ThePeer, PlainAck(i + 1))
    BY LinkAssumption DEF LInv
  <1>4. ~sessions'[i].core.retx.armed
    BY <1>2, <1>3, AckDischarges
  <1> QED BY <1>4 DEF Awaits

\* What the server hears is the oldest there is, and it takes it away.
LEMMA HearingKeepsOrder ==
  ASSUME LInv, PromptInv, ServerHears, faults' = 0
  PROVE  HellosAreOver' /\ AllOwed'
  <1>1. PICK k \in DOMAIN up :
          /\ OnDatagram(ThePeer, up[k]) /\ up' \in Remaining(up, k)
          /\ Exchange(k, up, up', down, sent', down')
    BY DEF ServerHears
  <1>2. faults' = 0 /\ faults = 0 /\ k = 1 /\ up' = RemoveAt(up, 1)
    <2>1. IsFiniteSet(sent')
      BY <1>1, ServerAnswersFew
    <2>2. Lost(down, sent', down') \in Nat
      BY <1>1, <2>1, LostIsNatural DEF Exchange, LInv, NetworkInv
    <2>3. up \in Seq(Contents(up))
      BY DEF LInv, NetworkInv
    <2>4. k \in Nat /\ k >= 1
      BY <2>3
    <2>5. ~(k > 1) /\ up' # up /\ faults = 0
      BY <1>1, <2>2 DEF Exchange, PromptInv
    <2> QED BY <1>1, <2>4, <2>5 DEF Remaining
  <1>3. up \in Seq(Contents(up)) /\ 1 \in DOMAIN up
    BY <1>1, <1>2 DEF LInv, NetworkInv
  <1>4. /\ Len(up) \in Nat /\ Len(up) >= 1 /\ DOMAIN up = 1 .. Len(up)
        /\ DOMAIN up' = 1 .. (Len(up) - 1)
        /\ \A j \in 1 .. (Len(up) - 1) : up'[j] = up[j + 1]
    BY <1>2, <1>3, HeadGoes
  <1>5. Len(up') = Len(up) - 1
    BY <1>2, <1>3, HeadGoes
  <1>6. HellosAreOver /\ AllOwed /\ client' = client
    BY <1>2 DEF PromptInv, ServerHears
  <1>7. HellosAreOver'
    <2> SUFFICES ASSUME client.sess.state = "ACTIVE", NEW j \in DOMAIN up', up'[j].type = "HELLO"
                 PROVE  \E l \in (j + 1) .. Len(up') : up'[l] = PlainAck(client.welcome.sid)
      BY <1>6 DEF HellosAreOver, AckAmong
    <2>1. j + 1 \in DOMAIN up /\ up[j + 1].type = "HELLO" /\ j \in Nat
      BY <1>4
    <2>2. PICK l \in (j + 1 + 1) .. Len(up) : up[l] = PlainAck(client.welcome.sid)
      BY <1>6, <2>1 DEF HellosAreOver, AckAmong
    <2>3. l - 1 \in (j + 1) .. Len(up') /\ l - 1 \in 1 .. (Len(up) - 1) /\ l - 1 + 1 = l
      BY <1>4, <1>5, <2>1
    <2> QED BY <1>4, <2>2, <2>3
  <1>8. Parsed(up[1]) /\ IInv /\ Vacated /\ ThePeer \in Peers
    BY <1>3, RegistryVacates, LinkAssumption DEF LInv, SInv, NetworkInv, Contents
  <1>9. SettlesStep \/ OpensStep(ThePeer)
    BY <1>1, <1>2, <1>8, DatagramStep
  <1>10. ProvedByTag(ThePeer, up[1])
    BY <1>1, <1>2, <1>8, DatagramProves
  <1>11. ASSUME NEW i \in Slots, Settles(sessions[i], sessions'[i]), Awaits(i)'
         PROVE  Owed(i)'
    <2>1. Awaits(i) /\ sessions'[i].core.key = sessions[i].core.key
      BY <1>11, WaitsOn
    <2>2. Owed(i)
      BY <1>6, <2>1 DEF AllOwed
    <2>3. up[1] # PlainAck(i + 1)
      BY <1>1, <1>2, <1>11, <2>2, AckIsHeard
    <2>4. ~sessions'[i].auth_verified
      <3> SUFFICES ASSUME GoodTag(i, ThePeer, up[1])
                   PROVE  FALSE
        BY <1>10, <1>11, <2>2 DEF ProvedByTag, Awaits, Owed
      <3>1. sessions[i].core.key # NoKey /\ up[1].tag = sessions[i].core.key
        BY DEF GoodTag, Tagged
      <3>2. PICK j \in 1 .. (1 - 1) : up[j] = PlainAck(i + 1)
        BY <1>3, <2>2, <3>1 DEF Owed, AckAmong
      <3> QED BY <3>2
    <2>5. ASSUME client.sess.state = "ACTIVE", client.welcome.sid = i + 1
          PROVE  \E j \in DOMAIN up' : up'[j] = PlainAck(i + 1)
      <3>1. PICK j \in DOMAIN up : up[j] = PlainAck(i + 1)
        BY <2>2, <2>5 DEF Owed, AckAmong
      <3>2. j # 1
        BY <2>3, <3>1
      <3>3. j - 1 \in 1 .. (Len(up) - 1) /\ j - 1 + 1 = j
        BY <1>4, <3>2
      <3> QED BY <1>4, <3>1, <3>3
    <2>6. ASSUME NEW k1 \in DOMAIN up', sessions'[i].core.key # NoKey,
                 up'[k1].tag = sessions'[i].core.key
          PROVE  \E j \in 1 .. (k1 - 1) : up'[j] = PlainAck(i + 1)
      <3>1. k1 + 1 \in DOMAIN up /\ up[k1 + 1].tag = sessions[i].core.key
            /\ sessions[i].core.key # NoKey
        BY <1>4, <2>1, <2>6
      <3> DEFINE l == k1 + 1
      <3>2. AckAmong(1 .. (l - 1), i + 1)
        <4> HIDE DEF l
        <4> QED BY <2>2, <3>1 DEF Owed, l
      <3>3. PICK j \in 1 .. (l - 1) : up[j] = PlainAck(i + 1)
        BY <3>2 DEF AckAmong
      <3>4. j # 1
        BY <2>3, <3>3
      <3>5. j - 1 \in 1 .. (k1 - 1) /\ j - 1 \in 1 .. (Len(up) - 1) /\ j - 1 + 1 = j
        BY <1>4, <3>1, <3>4
      <3> QED BY <1>4, <3>3, <3>5
    <2> QED BY <1>6, <2>4, <2>5, <2>6 DEF Owed, AckAmong
  <1>12. CASE SettlesStep
    BY <1>7, <1>11, <1>12 DEF SettlesStep, SettlesAll, AllOwed
  <1>13. CASE ~SettlesStep
    <2>1. up[1].type = "HELLO"
      BY <1>1, <1>2, <1>8, <1>13, OthersSettle
    <2>2. PICK n \in Slots :
            /\ ~sessions[n].in_use /\ Opens(n, sessions'[n])
            /\ \A j \in Slots \ {n} : sessions'[j] = sessions[j]
      BY <1>9, <1>13 DEF OpensStep, OpensFor
    <2>3. ~sessions'[n].auth_verified
      <3>1. sessions'[n].in_use /\ ~sessions[n].auth_verified /\ ~GoodTag(n, ThePeer, up[1])
        BY <1>8, <2>2 DEF Opens, Vacated, Vacant, GoodTag, Known
      <3> QED BY <1>10, <3>1 DEF ProvedByTag
    <2>4. ASSUME client.sess.state = "ACTIVE", client.welcome.sid = n + 1
          PROVE  \E j \in DOMAIN up' : up'[j] = PlainAck(n + 1)
      <3>1. PICK j \in (1 + 1) .. Len(up) : up[j] = PlainAck(n + 1)
        BY <1>3, <1>6, <2>1, <2>4 DEF HellosAreOver, AckAmong
      <3>2. j - 1 \in 1 .. (Len(up) - 1) /\ j - 1 + 1 = j
        BY <1>4
      <3> QED BY <1>4, <3>1, <3>2
    <2>5. ASSUME NEW k1 \in DOMAIN up', sessions'[n].core.key # NoKey,
                 up'[k1].tag = sessions'[n].core.key
          PROVE  FALSE
      <3>1. /\ sessions'[n].in_use /\ sessions'[n].auth_required
            /\ sessions'[n].welcome.nonce \in Nonces
            /\ sessions'[n].core.key = Key(sessions'[n].pair_generation, sessions'[n].welcome.nonce)
        BY <2>2, <2>5 DEF Opens, Housed
      <3>2. sessions'[n].pair_generation \in 0 .. MaxGeneration
        <4>1. LInv'
          BY ServerHearsInv
        <4> QED BY <3>1, <4>1 DEF LInv, TableInv
      <3>3. sessions'[n].welcome.nonce \notin spent
        BY <2>2, <3>1 DEF ServerHears, NoncesAreNew
      <3>4. k1 + 1 \in DOMAIN up /\ up[k1 + 1].tag = sessions'[n].core.key
        BY <1>4, <2>5
      <3> QED BY <3>1, <3>2, <3>3, <3>4 DEF PromptInv, TagsAreOld
    <2>6. Owed(n)'
      BY <1>6, <2>3, <2>4, <2>5 DEF Owed, AckAmong
    <2>7. \A i \in Slots \ {n} : Settles(sessions[i], sessions'[i])
      BY <2>2 DEF Settles
    <2> QED BY <1>7, <1>11, <2>6, <2>7 DEF AllOwed
  <1> QED BY <1>12, <1>13

LEMMA HearingPrompt ==
  ASSUME LInv, PromptInv, ServerHears, faults' \in Nat
  PROVE  PromptInv'
  <1>1. PICK k \in DOMAIN up : up' \in Remaining(up, k)
    BY DEF ServerHears
  <1>2. up' \in Seq(Contents(up')) /\ Contents(up') \subseteq Contents(up) /\ spent \subseteq spent'
    BY <1>1, RemainingContents DEF LInv, NetworkInv, ServerHears
  <1>3. \A k1 \in DOMAIN up' : \E j \in DOMAIN up : up'[k1] = up[j]
    BY <1>2 DEF Contents
  <1>4. TagsAreOld'
    BY <1>2, <1>3 DEF PromptInv, TagsAreOld
  <1> QED BY <1>4, HearingKeepsOrder DEF PromptInv

\* Whatever the host does, and while time passes, what is owed is under way.
LEMMA HostKeepsOrder ==
  ASSUME LInv, PromptInv, ServerTicks \/ HostCalls \/ LinkElapse, faults' \in Nat, faults' >= faults
  PROVE  PromptInv'
  <1>1. /\ Tick \/ BeginPairing \/ CancelPairing \/ Elapse
        /\ UNCHANGED <<spent, up>>
        /\ client' = client \/ client' = ClientAged
    BY DEF ServerTicks, HostCalls, LinkElapse, network, history, clientVars, BeginPairing,
           CancelPairing, Elapse
  <1>2. client'.sess.state = client.sess.state /\ client'.welcome = client.welcome
    <2> DEFINE x == SessionAge(client.sess)
    <2>1. client \in ClientType
      BY DEF LInv, ClientInv
    <2>2. SameCore(client.sess, x)
      BY <2>1, AgeSame DEF ClientType
    <2>3. ClientAged.sess = x /\ ClientAged.welcome = client.welcome
      BY <2>1 DEF ClientAged, ClientType
    <2> HIDE DEF x
    <2> QED BY <1>1, <2>2, <2>3 DEF SameCore
  <1>3. SettlesStep
    BY <1>1, HostStep DEF LInv, SInv
  <1>4. TagsAreOld'
    BY <1>1 DEF PromptInv, TagsAreOld
  <1>5. ASSUME faults' = 0
        PROVE  HellosAreOver' /\ AllOwed'
    <2>1. HellosAreOver /\ AllOwed
      BY <1>5 DEF PromptInv
    <2>2. HellosAreOver'
      BY <1>1, <1>2, <2>1 DEF HellosAreOver, AckAmong
    <2>3. ASSUME NEW i \in Slots, Awaits(i)'
          PROVE  Owed(i)'
      <3>1. Awaits(i) /\ sessions'[i].core.key = sessions[i].core.key
        BY <1>3, <2>3, WaitsOn DEF SettlesStep, SettlesAll
      <3>2. sessions'[i].auth_verified = sessions[i].auth_verified
        BY <1>1, <2>3, HostProvesNothing DEF LInv, SInv, Awaits
      <3>3. Owed(i)
        BY <2>1, <3>1 DEF AllOwed
      <3> QED BY <1>1, <1>2, <3>1, <3>2, <3>3 DEF Owed, AckAmong
    <2> QED BY <2>2, <2>3 DEF AllOwed
  <1> QED BY <1>4, <1>5 DEF PromptInv

LEMMA PromptStep ==
  LInv /\ PromptInv /\ [LinkNext]_linkVars => PromptInv'
  <1> SUFFICES ASSUME LInv, PromptInv, [LinkNext]_linkVars
               PROVE  PromptInv'
    OBVIOUS
  <1>1. faults' \in Nat /\ faults' >= faults /\ faults \in Nat
    BY FaultsGrow DEF PromptInv
  <1>2. up \in Seq(Contents(up)) /\ down \in Seq(Contents(down))
    BY DEF LInv, NetworkInv
  <1>3. CASE ClientStep
    <2>1. Speaks
      BY <1>3, OwnStepsSpeak DEF LInv, ClientStep
    <2>2. up' \in Carried(up, emitted') /\ Transmit(up, emitted', up')
          /\ UNCHANGED <<sessions, spent>>
      BY <1>3 DEF ClientStep, serverSide
    <2>3. Lost(up, emitted', up') \in Nat
      <3>1. IsFiniteSet(emitted')
        BY <1>3, ClientSendsFew DEF ClientStep
      <3> QED BY <1>2, <2>2, <3>1, LostIsNatural
    <2>4. faults' = 0 => Lost(up, emitted', up') = 0
      BY <1>1, <2>2, <2>3 DEF Transmit
    <2> QED BY <1>1, <2>1, <2>2, <2>4, SpeakingKeepsOrder
  <1>4. CASE ClientHears
    <2>1. PICK k \in DOMAIN down :
            /\ ClientReceives(down[k]) /\ up' \in Carried(up, emitted')
            /\ Exchange(k, down, down', up, emitted', up')
      BY <1>4 DEF ClientHears
    <2>2. Genuine(down[k], granted)
      BY <2>1 DEF LInv, NetworkInv, Contents
    <2>3. Speaks
      BY <2>1, <2>2, ReceivesSpeak DEF LInv
    <2>4. Lost(up, emitted', up') \in Nat
      <3>1. IsFiniteSet(emitted')
        BY <2>1, ClientSendsFew
      <3> QED BY <1>2, <2>1, <3>1, LostIsNatural
    <2>5. faults' = 0 => Lost(up, emitted', up') = 0
      BY <1>1, <2>1, <2>4 DEF Exchange
    <2>6. UNCHANGED <<sessions, spent>>
      BY <1>4 DEF ClientHears, serverSide, history
    <2> QED BY <1>1, <2>1, <2>3, <2>5, <2>6, SpeakingKeepsOrder
  <1>5. CASE ServerHears
    BY <1>1, <1>5, HearingPrompt
  <1>6. CASE ServerTicks \/ HostCalls \/ LinkElapse
    BY <1>1, <1>6, HostKeepsOrder
  <1>7. CASE Restart
    BY <1>1, <1>7 DEF Restart, history, PromptInv, TagsAreOld
  <1>8. CASE UNCHANGED linkVars
    <2>1. UNCHANGED <<sessions, client, up, spent, faults>>
      BY <1>8 DEF linkVars, vars, clientVars, network, history
    <2> QED BY <2>1
      DEF PromptInv, TagsAreOld, HellosAreOver, AllOwed, Awaits, Owed, AckAmong
  <1> QED BY <1>3, <1>4, <1>5, <1>6, <1>7, <1>8 DEF LinkNext

\* So the server gives up on nobody, unless something went wrong.
LEMMA NobodyStarves ==
  LInv /\ PromptInv /\ ~starved /\ [LinkNext]_linkVars => ~starved'
  <1> SUFFICES ASSUME LInv, PromptInv, ~starved, [LinkNext]_linkVars
               PROVE  ~starved'
    OBVIOUS
  <1>1. CASE ServerTicks
    <2> SUFFICES ASSUME GivesUp, faults = 0
                 PROVE  FALSE
      BY <1>1 DEF ServerTicks
    <2>1. PICK i \in Slots :
            /\ Awaits(i)
            /\ client.welcome = sessions[i].welcome /\ client.sess.state = "ACTIVE"
      BY DEF GivesUp, Awaits
    <2>2. client.welcome.sid = i + 1
      BY <2>1 DEF LInv, SInv, Registry, Housed, Awaits
    <2>3. Owed(i)
      BY <2>1 DEF PromptInv, AllOwed
    <2>4. PICK k \in DOMAIN up : up[k] = PlainAck(i + 1)
      BY <2>1, <2>2, <2>3 DEF Owed, AckAmong
    <2> QED BY <2>4 DEF GivesUp, PlainAck
  <1>2. CASE ~ServerTicks
    BY <1>2 DEF LinkNext, ClientStep, ClientHears, ServerHears, HostCalls, Restart, LinkElapse,
                history, linkVars
  <1> QED BY <1>1, <1>2

\* With nothing lost or late no session fails for want of the ACK its client
\* sent, however long the key derivation took, and every call that is over has
\* a verdict.
THEOREM HandshakesAreJudged ==
  LinkSpec => []HandshakeJudged
  <1>1. LinkInit => PromptInv /\ ~starved
    <2> SUFFICES ASSUME LinkInit
                 PROVE  PromptInv /\ ~starved
      OBVIOUS
    <2>1. DOMAIN up = {}
      BY DEF LinkInit
    <2>2. \A i \in Slots : ~Awaits(i)
      BY DEF LinkInit, Init, Awaits, NeverUsedSlot
    <2> QED BY <2>1, <2>2 DEF LinkInit, PromptInv, TagsAreOld, HellosAreOver, AllOwed
  <1>2. LinkSpec => []VerdictGiven
    BY EveryCallHasVerdict
  <1>3. VerdictGiven /\ ~starved => HandshakeJudged
    BY DEF HandshakeJudged, AckBeforeDerivation
  <1> QED BY <1>1, <1>2, <1>3, PromptStep, NobodyStarves, LinkSafe, PTL DEF LinkSpec
=============================================================================
