-------------------------------- MODULE Link ---------------------------------
(***************************************************************************)
(* A client and a server on a network that loses, repeats, reorders and     *)
(* delays datagrams, and a server that may be restarted.  Every step is a   *)
(* step of Client or of Server, with what it sends put on the network.      *)
(*                                                                         *)
(* Faults are counted, so that a run can say what one of them costs.  A     *)
(* loss is taken when the datagram is sent; a datagram still undelivered    *)
(* when time passes is a fault too, unless nobody reads the client's        *)
(* socket: between two calls, and during a key derivation, they just wait.  *)
(***************************************************************************)
EXTENDS Server, Client, SequencesExt

CONSTANTS
  ThePeer,      \* the client's address
  MaxFaults,    \* bound on losses, repeats, overtakings, delays and restarts
  MaxCalls      \* bound on probe and connect calls

VARIABLES
  up,       \* datagrams on their way to the server, oldest first
  down,     \* datagrams on their way to the client
  faults,
  calls,
  spent,    \* nonces drawn so far: 16 random bytes are never drawn twice
  granted,  \* history: every session the server held
  starved,  \* history: a WELCOME was given up although nothing went wrong
  apart     \* history: for how long each side has been in a session the other is not in

\* A key stands for the nonce it was salted with.
ASSUME LinkAssumption ==
  /\ ThePeer \in Peers
  /\ \A secret \in Secrets, n \in Nonces :
       /\ Derived(secret, n) \in Keys
       /\ \A g \in 0 .. MaxGeneration, m \in Nonces : Derived(secret, n) = Key(g, m) => m = n

network == <<up, down, faults>>
history == <<calls, spent, granted, starved>>
linkVars == <<vars, clientVars, network, history, apart>>

serverSide == <<sessions, pairing, backend>>

\* What a call sends leaves in some order, or is lost.
Orders(new) == UNION {Injection(1 .. n, new) : n \in 0 .. Cardinality(new)}
Carried(queue, new) == {queue \o order : order \in Orders(new)}

\* The k-th datagram arrives; a datagram that arrives may arrive again.
Remaining(queue, k) == {RemoveAt(queue, k), queue}

Lost(queue, new, after) == Len(queue) + Cardinality(new) - Len(after)

Transmit(queue, new, after) ==
  /\ after \in Carried(queue, new)
  /\ faults' = faults + Lost(queue, new, after)
  /\ faults' <= MaxFaults

\* Overtaking, repeating and losing the answers are a fault each.
Exchange(k, queue, kept, other, new, after) ==
  /\ kept \in Remaining(queue, k)
  /\ after \in Carried(other, new)
  /\ faults' = faults + (IF k > 1 THEN 1 ELSE 0) + (IF kept = queue THEN 1 ELSE 0)
                  + Lost(other, new, after)
  /\ faults' <= MaxFaults

TheSession(table) ==
  LET mine == {i \in Slots : table[i].in_use /\ table[i].peer = ThePeer}
  IN  {<<table[i].core.session_id, table[i].core.key>> : i \in mine}

\* The server's session fails for want of an ACK while the client is in it and
\* none is on its way.
GivesUp ==
  /\ \A k \in DOMAIN up : up[k].type # "ACK"
  /\ \E i \in Slots :
       /\ sessions[i].in_use
       /\ TickAct(sessions[i].core) = "TIMEOUT" /\ sessions[i].core.retx.armed
       /\ client.call # "NONE" /\ client.welcome = sessions[i].welcome
       /\ client.sess.state = "ACTIVE"

MoreCalls == calls < MaxCalls

ClientStep ==
  /\ \/ ClientRuns /\ UNCHANGED calls
     \/ Disconnect /\ UNCHANGED calls
     \/ MoreCalls /\ (\E secret \in Secrets : ClientSetSecret(secret)) /\ UNCHANGED calls
     \/ MoreCalls /\ (Probe \/ Connect) /\ calls' = calls + 1
  /\ \E after \in Carried(up, emitted') : Transmit(up, emitted', after) /\ up' = after
  /\ sent' = {}
  /\ UNCHANGED <<serverSide, down, spent, granted, starved>>

ClientHears ==
  /\ \E k \in DOMAIN down :
       /\ ClientReceives(down[k])
       /\ \E kept \in Remaining(down, k), after \in Carried(up, emitted') :
            /\ Exchange(k, down, kept, up, emitted', after)
            /\ down' = kept /\ up' = after
  /\ sent' = {}
  /\ UNCHANGED <<serverSide, history>>

NoncesOf(msgs) == {m.nonce : m \in {w \in msgs : w.type = "WELCOME" /\ w.auth}}

\* A nonce is new unless the WELCOME that carries it is an old one.
NoncesAreNew ==
  \A i \in Slots :
    sessions'[i].in_use /\ ~sessions[i].in_use /\ sessions'[i].auth_required
      => sessions'[i].welcome.nonce \notin spent

ServerHears ==
  /\ \E k \in DOMAIN up :
       /\ OnDatagram(ThePeer, up[k])
       /\ \E kept \in Remaining(up, k), after \in Carried(down, sent') :
            /\ Exchange(k, up, kept, down, sent', after)
            /\ up' = kept /\ down' = after
  /\ NoncesAreNew
  /\ spent' = spent \cup NoncesOf(sent')
  /\ granted' = granted \cup TheSession(sessions')
  /\ emitted' = {}
  /\ UNCHANGED <<client, calls, starved>>

\* A poll of the host that finds nothing due does nothing.
ServerDue == sessions # [i \in Slots |-> Ticked(sessions[i])] \/ PairingExpired(pairing)

ServerTicks ==
  /\ ServerDue /\ Tick
  /\ starved' = (starved \/ (GivesUp /\ faults = 0))
  /\ \E after \in Carried(down, sent') : Transmit(down, sent', after) /\ down' = after
  /\ emitted' = {}
  /\ UNCHANGED <<client, up, calls, spent, granted>>

\* The user opens a window before the calls that need it, and may cancel it.
HostCalls ==
  /\ \/ MoreCalls /\ BeginPairing
     \/ client.call # "NONE" /\ CancelPairing
  /\ UNCHANGED <<clientVars, network, history>>

\* The server's process is restarted: it remembers nothing.
Restart ==
  /\ faults < MaxFaults /\ faults' = faults + 1
  /\ \E i \in Slots : sessions[i].in_use
  /\ sessions' = [i \in Slots |-> NeverUsedSlot]
  /\ backend' = [i \in Slots |-> NoDevices]
  /\ pairing' = PairingClose(pairing)
  /\ sent' = {} /\ emitted' = {}
  /\ UNCHANGED <<client, up, down, history>>

\* Something that should have happened within the unit of time has not: a
\* datagram is still on its way to a program that reads, or a program that has
\* something to do has not run.
Late == up # <<>> \/ (down # <<>> /\ Draining) \/ ClientDue \/ ServerDue

LinkElapse ==
  /\ Elapse
  /\ client' = ClientAged /\ emitted' = {}
  /\ faults' = IF Late THEN faults + 1 ELSE faults
  /\ faults' <= MaxFaults
  /\ UNCHANGED <<up, down, history>>

-----------------------------------------------------------------------------
(* What each side takes the session to be.                                   *)

AnyOf(set, default) == IF set = {} THEN default ELSE CHOOSE x \in set : TRUE

NoSession == <<0, NoKey>>

\* The client acts in a session once it has read the WELCOME and holds the key.
Joined ==
  IF client.sess.state = "ACTIVE" /\ ~client.deriving
    THEN <<client.sess.session_id, client.sess.key>> ELSE NoSession

HeldSession == AnyOf(TheSession(sessions), NoSession)

LongestApart == IdleTimeout + MaxFaults

\* A session a probe was drawn into by a late WELCOME is nobody's once it returns.
Playing == IF client.call # "NONE" THEN Joined ELSE NoSession

Lasts(count, still, passed) ==
  IF ~still THEN 0 ELSE IF passed THEN Saturate(count + 1, LongestApart + 1) ELSE count

\* The server's side counts within one call: each HELLO has it wait once more.
Apart(passed) ==
  LET differ == HeldSession' # Playing'
  IN  [client |-> Lasts(apart.client, differ /\ Playing' # NoSession /\ Playing' = Playing, passed),
       server |-> Lasts(apart.server, /\ differ /\ HeldSession' # NoSession
                                      /\ HeldSession' = HeldSession /\ calls' = calls, passed)]

LinkInit ==
  /\ Init /\ ClientInit
  /\ up = <<>> /\ down = <<>> /\ faults = 0
  /\ calls = 0 /\ spent = {} /\ granted = {} /\ starved = FALSE
  /\ apart = [client |-> 0, server |-> 0]

LinkNext ==
  \/ /\ \/ ClientStep \/ ClientHears
        \/ ServerHears \/ ServerTicks \/ HostCalls \/ Restart
     /\ apart' = Apart(FALSE)
  \/ LinkElapse /\ apart' = Apart(TRUE)

LinkSpec == LinkInit /\ [][LinkNext]_linkVars

-----------------------------------------------------------------------------

Proven ==
  Joined # NoSession /\ (client.auth_required => client.auth_state = "VERIFIED")

Conn == INSTANCE Connection WITH
  Sessions <- (1 .. NSlots) \X SessionKeys,
  None <- NoSession,
  held <- HeldSession,
  joined <- Joined,
  proven <- Proven

\* The client and the server implement Connection: one session at a time, and
\* a client takes a session for proven only if the server really held it with
\* the key the client derived, whatever is typed, lost, repeated or restarted.
ImplementsConnection == Conn!Spec

\* Section 8: no client lives on in a session the server has forgotten, and no
\* server keeps one for a client that is not in it, for longer than the idle
\* timeout: a lost BYE, a restart, a wrong PIN or a long key derivation leave
\* the two apart for that long at most.
DisagreementEnds == apart.client <= LongestApart /\ apart.server <= LongestApart

\* Section 10, the order in drain_rx: the ACK of a WELCOME leaves before the
\* key derivation begins, so with nothing lost or late no session fails for
\* want of that ACK, however long the derivation takes.
AckBeforeDerivation == ~starved

\* A blocking call comes back within its timeout, whatever is answered, lost or
\* answered too late, unless a key had to be derived meanwhile: a WELCOME that
\* asks for one has it derived even for a session that is already closed.
MayHaveDerived == client.auth_required /\ client.sess.state \in {"ACTIVE", "CLOSED"}

CallsReturn ==
  client.call \in {"PROBE", "CONNECT"} /\ ~MayHaveDerived
    => client.waited <= CallTimeout + 1 + faults

\* A pad slot that is reused does not reject its client's first packets: in the
\* session both are in, the server's window is behind what the client sends next.
InputWillBeHeard ==
  LET windows == {sessions[i].core.rx_input : i \in Slots} \ {NoSeq}
  IN  client.call = "PUMP" /\ Joined = HeldSession
        => \A w \in windows : SeqNewer(client.tx_seq, w)

\* A probe succeeds when an ANNOUNCE arrives: none that reaches it is refused.
ProbeHearsAnnounce ==
  client.call = "PROBE" =>
    \A k \in DOMAIN down : down[k].type = "ANNOUNCE" => Admits(down[k])

\* "Wrong PIN" does not depend on an ERROR arriving: a session that required a
\* tag and ended, but by the user's own hand, has a verdict.  (A key on a closed
\* record was derived for a WELCOME that came too late.)
Unjudged(c) ==
  /\ c.auth_required /\ c.sess.close_reason \notin {"NONE", "LOCAL"}
  /\ c.sess.key = NoKey /\ ~c.deriving
  /\ c.auth_state \notin {"VERIFIED", "NEED_SECRET", "FAILED"}
VerdictGiven == client.call = "NONE" => ~Unjudged(client)

\* A handshake ends in the verdict it deserves: with the ACK out in time, and
\* with something to show the user when no ERROR said why.
HandshakeJudged == AckBeforeDerivation /\ VerdictGiven
=============================================================================
