----------------------------- MODULE HostProofs ------------------------------
(***************************************************************************)
(* Proofs about the host program around the server library: the operator   *)
(* without a screen, the clients that keep sending, the files profiles are *)
(* kept in and the sessions that point into the table loaded from them, the*)
(* responder's addresses and how often it speaks, the library's limiter of *)
(* ERROR replies, how the program starts and ends, and what the web        *)
(* interface tells and changes; for any number of clients, seats, profiles,*)
(* networks, interfaces and askers.                                        *)
(***************************************************************************)
EXTENDS HostStart, HostLoop, WebUi, Mdns, ErrorLimiter, FiniteSetTheorems, WellFoundedInduction, TLAPS

-----------------------------------------------------------------------------
(* The operator.                                                            *)

OperatorInv == wantPair \in BOOLEAN /\ asking \in BOOLEAN /\ OperatorIsServed

LEMMA OperatorStep ==
  ASSUME OperatorInv, [HostLoopNext]_loopVars
  PROVE  OperatorInv'
<1> USE DEF OperatorInv, OperatorIsServed, PairRequestKept, SecretOnScreen, requests, pairing,
            traffic, Goes
<1>1. CASE Recv
  BY <1>1 DEF Recv
<1>2. CASE TickLap
  BY <1>2 DEF TickLap
<1>3. CASE PairLap
  <2>1. CASE lapStep = "pair"
    <3>1. /\ lapStep' = IF wantPair THEN "begin" ELSE "unpair"
          /\ wantPair' = FALSE /\ asking' = asking
      BY <1>3, <2>1 DEF PairLap, Cleared, ClearingStep
    <3>2. asking' => lapStep' = "begin"
      BY <2>1, <3>1
    <3> QED
      BY <3>1, <3>2
  <2>2. CASE lapStep = "begin"
    <3>1. lapStep' = "opening" /\ asking' = FALSE /\ wantPair' = wantPair
      BY <1>3, <2>2 DEF PairLap
    <3> QED
      BY <3>1
  <2> QED
    BY <1>3, <2>1, <2>2 DEF PairLap
<1>4. CASE OpenLap
  BY <1>4 DEF OpenLap, Cleared, ClearingStep
<1>5. CASE UnpairLap
  BY <1>5 DEF UnpairLap
<1>6. CASE ShowLap
  BY <1>6 DEF ShowLap, Displays
<1>7. CASE DatagramLap
  BY <1>7 DEF DatagramLap
<1>8. CASE WebIdle \/ WebAccepts \/ Trickles \/ LastRead \/ WebAnswers
  BY <1>8 DEF WebIdle, WebAccepts, Trickles, LastRead, WebAnswers, AfterWeb
<1>9. CASE TrayIdle \/ MenuOpens \/ MenuStaysOpen \/ MenuCloses
  BY <1>9 DEF TrayIdle, MenuOpens, MenuStaysOpen, MenuCloses
<1>10. CASE SignalPair
  BY <1>10 DEF SignalPair
<1>11. CASE SignalUnpair
  BY <1>11 DEF SignalUnpair
<1>12. CASE SignalExit
  BY <1>12 DEF SignalExit
<1>13. CASE Over
  BY <1>13 DEF Over
<1>14. CASE UNCHANGED loopVars
  BY <1>14 DEF loopVars
<1> QED
  BY <1>1, <1>2, <1>3, <1>4, <1>5, <1>6, <1>7, <1>8, <1>9, <1>10, <1>11, <1>12,
     <1>13, <1>14 DEF HostLoopNext

\* At whatever step of a lap a signal arrives, and whatever rotates the secret,
\* no request to pair is lost and the secret in force is on the terminal before
\* a datagram is handled (linux/main.c: the flag is cleared before the call;
\* poll_pairing_display).
THEOREM OperatorNeverLeftWaiting == HostLoopSpec => []OperatorIsServed
<1>1. HostLoopInit => OperatorInv
  BY DEF HostLoopInit, OperatorInv, OperatorIsServed, PairRequestKept, SecretOnScreen
<1>2. OperatorInv /\ [HostLoopNext]_loopVars => OperatorInv'
  BY OperatorStep
<1>3. OperatorInv => OperatorIsServed
  BY DEF OperatorInv
<1> QED
  BY <1>1, <1>2, <1>3, PTL DEF HostLoopSpec

-----------------------------------------------------------------------------
(* A client that keeps sending is kept.                                     *)

Crowd == Cardinality(Clients)
InQueue(c, q) == \E i \in DOMAIN q : q[i] = c
Waits(c) == InQueue(c, queue) \/ received = c

\* Nothing has taken time since the socket's queue was last empty.
Untaxed == slow = 0 \/ (lapStep = "menu" /\ spent = 0)

LoopType ==
  /\ queue \in Seq(Clients) /\ Len(queue) <= MaxQueue
  /\ received \in Clients \cup {Nobody}
  /\ lapStep \in {"recv", "web", "read", "tray", "menu"} => received = Nobody
  /\ silence \in [Clients -> 0..IdleTimeout]
  /\ spent \in Nat /\ slow \in Nat
  /\ lapStep = "read" => spent <= RequestDeadline + 1
  /\ lapStep = "menu" => spent <= MenuUnits /\ slow > 0
  /\ spent > 0 => lapStep \in {"read", "menu"} /\ slow > 0

\* Everybody has been heard to the last or has a datagram waiting; nobody has been
\* waiting for longer than one unit before whatever took its time, and all of them
\* have a datagram in the queue behind its first unit.
HeardInv ==
  /\ alive = Clients
  /\ \A c \in Clients : Waits(c) \/ silence[c] = 0
  /\ \A c \in Clients : silence[c] < IdleTimeout
  /\ spent > 0 => \A c \in Clients : InQueue(c, queue) /\ silence[c] <= 1 + spent
  /\ Untaxed => /\ \A c \in Clients : silence[c] <= 1
                /\ Len(queue) < Crowd \/ (Len(queue) = Crowd /\ \A c \in Clients : InQueue(c, queue))

LoopInv == LoopType /\ (lapStep # "over" => HeardInv)

\* What the theorem supposes of the bounds: the buffer holds two datagrams of each
\* client but one, and of slow connections and menus shorter than the idle timeout
\* there is at most one before the queue has been emptied again.
Unhurried ==
  /\ IsFiniteSet(Clients) /\ Nobody \notin Clients
  /\ MaxQueue >= 2 * Crowd - 1
  /\ SlowInARow <= 1 /\ MenuUnits + 2 <= IdleTimeout

LEMMA OrderHasAll ==
  ASSUME Unhurried, alive = Clients, NEW order \in Orders
  PROVE  order \in Seq(Clients) /\ Len(order) = Crowd /\ \A c \in Clients : InQueue(c, order)
<1>1. Crowd \in Nat
  BY FS_CardinalityType DEF Unhurried, Crowd
<1>2. order \in [1..Crowd -> Clients] /\ order \in Injection(1..Crowd, Clients)
  BY DEF Orders, Crowd, Injection, IsInjective
<1>3. Cardinality(1..Crowd) = Crowd
  BY <1>1, FS_Interval
<1>4. order \in Surjection(1..Crowd, Clients)
  BY <1>2, <1>3, FS_Injection DEF Unhurried, Crowd
<1>5. \A c \in Clients : \E i \in 1..Crowd : order[i] = c
  BY <1>4 DEF Surjection
<1> QED
  BY <1>1, <1>2, <1>5 DEF InQueue

LEMMA QueueGrows ==
  ASSUME LoopType, Unhurried, NEW order \in Seq(Clients), Len(order) = Crowd,
         \A c \in Clients : InQueue(c, order)
  PROVE  /\ Queued(order) \in Seq(Clients) /\ Len(Queued(order)) <= MaxQueue
         /\ \A c \in Clients : InQueue(c, queue) => InQueue(c, Queued(order))
         /\ Len(queue) < Crowd \/ Len(queue) = 0 => \A c \in Clients : InQueue(c, Queued(order))
         /\ Len(queue) = 0 => Len(Queued(order)) = Crowd
<1> DEFINE all == queue \o order
           len == IF Len(all) < MaxQueue THEN Len(all) ELSE MaxQueue
<1>0. Crowd \in Nat /\ MaxQueue \in Nat \ {0}
  BY FS_CardinalityType, HostLoopAssumption DEF Unhurried, Crowd
<1>1. /\ all \in Seq(Clients) /\ Len(all) = Len(queue) + Crowd
      /\ \A i \in 1..Len(queue) : all[i] = queue[i]
      /\ \A i \in 1..Crowd : all[Len(queue) + i] = order[i]
  <2>1. queue \in Seq(Clients) /\ order \in Seq(Clients) /\ Len(order) = Crowd
    BY DEF LoopType
  <2>2. \A i \in 1..Crowd : all[Len(queue) + i] = order[i]
    <3> TAKE i \in 1..Crowd
    <3>1. Len(queue) + i \in 1..(Len(queue) + Len(order)) /\ Len(queue) + i > Len(queue)
      BY <1>0, <2>1
    <3>2. all[Len(queue) + i] = order[Len(queue) + i - Len(queue)]
      BY <2>1, <3>1
    <3> QED
      BY <1>0, <2>1, <3>2
  <2> QED
    BY <2>1, <2>2
<1>2. len \in 0..Len(all) /\ len <= MaxQueue /\ len >= Len(queue)
      /\ (Len(queue) < Crowd \/ Len(queue) = 0 => len = Len(all))
  <2>1. ASSUME NEW q \in Nat, NEW n \in Nat, NEW m \in Nat, q <= m, m >= 2 * n - 1, m > 0,
               q < n \/ q = 0
        PROVE  q + n <= m
    BY <2>1
  <2>2. Len(queue) \in Nat /\ Len(queue) <= MaxQueue /\ MaxQueue >= 2 * Crowd - 1
    BY DEF LoopType, Unhurried
  <2>3. Len(queue) < Crowd \/ Len(queue) = 0 => Len(queue) + Crowd <= MaxQueue
    BY <1>0, <2>1, <2>2
  <2> HIDE DEF all
  <2>4. Len(all) \in Nat /\ Len(all) = Len(queue) + Crowd
    BY <1>0, <1>1, <2>2
  <2> QED
    BY <1>0, <2>2, <2>3, <2>4
<1>3. Queued(order) = SubSeq(all, 1, len)
  BY DEF Queued
<1> HIDE DEF len, all
<1>4. /\ Queued(order) \in Seq(Clients) /\ Len(Queued(order)) = len
      /\ \A i \in 1..len : Queued(order)[i] = all[i]
  BY <1>1, <1>2, <1>3
<1>5. ASSUME NEW c \in Clients, InQueue(c, queue) PROVE InQueue(c, Queued(order))
  <2>1. PICK i \in 1..Len(queue) : queue[i] = c
    BY <1>5 DEF InQueue, LoopType
  <2>2. i \in 1..len
    BY <1>2, <2>1
  <2>3. i \in DOMAIN Queued(order) /\ Queued(order)[i] = c
    BY <1>1, <1>4, <2>1, <2>2
  <2> QED
    BY <2>3 DEF InQueue
<1>6. ASSUME Len(queue) < Crowd \/ Len(queue) = 0, NEW c \in Clients PROVE InQueue(c, Queued(order))
  <2>1. PICK i \in 1..Crowd : order[i] = c
    BY DEF InQueue
  <2>2. Len(queue) + i \in 1..len
    <3>1. Len(queue) \in Nat /\ len = Len(queue) + Crowd
      BY <1>1, <1>2, <1>6 DEF LoopType
    <3> QED
      BY <1>0, <2>1, <3>1
  <2>3. Len(queue) + i \in DOMAIN Queued(order) /\ Queued(order)[Len(queue) + i] = c
    BY <1>1, <1>4, <2>1, <2>2
  <2> QED
    BY <2>3 DEF InQueue
<1> QED
  BY <1>0, <1>1, <1>2, <1>4, <1>5, <1>6

\* A unit passes: who was waiting still is, and while there is room for all of
\* them everybody is waiting behind it.
LEMMA ElapseKeeps ==
  ASSUME Unhurried, LoopType, alive = Clients, Elapse
  PROVE  /\ queue' \in Seq(Clients) /\ Len(queue') <= MaxQueue
         /\ \A c \in Clients : InQueue(c, queue) => InQueue(c, queue')
         /\ Len(queue) < Crowd \/ Len(queue) = 0 => \A c \in Clients : InQueue(c, queue')
         /\ Len(queue) = 0 => Len(queue') = Crowd
         /\ silence' \in [Clients -> 0..IdleTimeout]
         /\ \A c \in Clients : silence'[c] <= silence[c] + 1
         /\ received' = received /\ alive' = alive
<1>1. PICK order \in Orders : queue' = Queued(order)
  BY DEF Elapse
<1>2. order \in Seq(Clients) /\ Len(order) = Crowd /\ \A c \in Clients : InQueue(c, order)
  BY OrderHasAll
<1>3. silence' = [c \in Clients |-> Longer(silence[c])] /\ received' = received /\ alive' = alive
  BY DEF Elapse
<1>4. \A c \in Clients : Longer(silence[c]) \in 0..IdleTimeout /\ Longer(silence[c]) <= silence[c] + 1
  BY DEF LoopType, Longer, IdleTimeout
<1> QED
  BY <1>1, <1>2, <1>3, <1>4, QueueGrows

LEMMA CrowdIs == ASSUME Unhurried PROVE Crowd \in Nat
BY FS_CardinalityType DEF Unhurried, Crowd

\* A unit inside a request or an open menu.
LEMMA SpellKeeps ==
  ASSUME Unhurried, LoopInv, lapStep \in {"read", "menu"}, Elapse,
         spent > 0 \/ Untaxed
  PROVE  /\ queue' \in Seq(Clients) /\ Len(queue') <= MaxQueue
         /\ \A c \in Clients : InQueue(c, queue') /\ silence'[c] <= 2 + spent
         /\ silence' \in [Clients -> 0..IdleTimeout]
         /\ received' = received /\ alive' = Clients
<1>1. HeardInv /\ LoopType
  BY DEF LoopInv
<1>2. spent \in Nat /\ silence \in [Clients -> 0..IdleTimeout]
  BY <1>1 DEF LoopType
<1>3. \A c \in Clients : InQueue(c, queue')
  BY <1>1, ElapseKeeps DEF HeardInv
<1>4. \A c \in Clients : silence[c] <= 1 + spent
  <2>1. CASE spent > 0
    BY <1>1, <2>1 DEF HeardInv
  <2>2. CASE spent = 0
    BY <1>1, <1>2, <2>2 DEF HeardInv
  <2> QED
    BY <1>2, <2>1, <2>2
<1>5. \A c \in Clients : silence'[c] <= silence[c] + 1 /\ silence'[c] \in Nat /\ silence[c] \in Nat
  BY <1>1, <1>2, ElapseKeeps DEF HeardInv, IdleTimeout
<1>6. \A c \in Clients : silence'[c] <= 2 + spent
  BY <1>2, <1>4, <1>5
<1> QED
  BY <1>1, <1>3, <1>6, ElapseKeeps DEF HeardInv

LEMMA RecvKeeps ==
  ASSUME Unhurried, LoopInv, Recv
  PROVE  LoopInv'
<1>1. LoopType /\ HeardInv /\ lapStep = "recv" /\ received = Nobody /\ spent = 0 /\ spent' = 0
  BY DEF LoopInv, LoopType, Recv
<1>2. Crowd \in Nat
  BY CrowdIs
<1>3. CASE queue # << >> /\ received' = Head(queue) /\ queue' = Tail(queue) /\ lapStep' = "tick"
           /\ UNCHANGED <<silence, alive, slow>>
  <2>1. Len(queue) > 0 /\ Len(queue') = Len(queue) - 1 /\ queue' \in Seq(Clients) /\ received' \in Clients
        /\ \A i \in 1..Len(queue') : queue'[i] = queue[i + 1]
    BY <1>1, <1>3 DEF LoopType
  <2>2. LoopType'
    BY <1>1, <1>3, <2>1, HostLoopAssumption DEF LoopType
  <2>3. \A c \in Clients : InQueue(c, queue) => InQueue(c, queue') \/ received' = c
    <3> SUFFICES ASSUME NEW c \in Clients, NEW i \in DOMAIN queue, queue[i] = c
                 PROVE  InQueue(c, queue') \/ received' = c
      BY DEF InQueue
    <3>1. CASE i = 1
      BY <1>3, <3>1
    <3>2. CASE i # 1
      <4>1. i - 1 \in 1..Len(queue') /\ queue'[i - 1] = c
        BY <1>1, <2>1, <3>2 DEF LoopType
      <4> QED
        BY <2>1, <4>1 DEF InQueue
    <3> QED
      BY <3>1, <3>2
  <2>4. \A c \in Clients : Waits(c)' \/ silence'[c] = 0
    BY <1>1, <1>3, <2>3 DEF HeardInv, Waits, Unhurried
  <2>5. Untaxed' => Untaxed
    BY <1>1, <1>3 DEF Untaxed
  <2>6. Untaxed => Len(queue') < Crowd
    BY <1>1, <1>2, <2>1 DEF HeardInv, LoopType
  <2> QED
    BY <1>1, <1>3, <2>2, <2>4, <2>5, <2>6 DEF LoopInv, HeardInv
<1>4. CASE queue = << >> /\ received' = Nobody /\ lapStep' = "tick" /\ slow' = 0
           /\ UNCHANGED <<queue, silence, alive>>
  <2>1. \A c : ~InQueue(c, queue)
    BY <1>4 DEF InQueue
  <2>2. \A c \in Clients : silence[c] = 0
    BY <1>1, <2>1 DEF HeardInv, Waits, Unhurried
  <2>3. LoopType'
    BY <1>1, <1>4 DEF LoopType
  <2>4. Len(queue') = 0
    BY <1>4
  <2>5. Len(queue') < Crowd \/ (Len(queue') = Crowd /\ \A c \in Clients : InQueue(c, queue'))
    <3>1. CASE Crowd = 0
      <4>1. Clients = {}
        BY <3>1, FS_EmptySet DEF Unhurried, Crowd
      <4> QED
        BY <3>1, <2>4, <4>1
    <3> QED
      BY <1>2, <2>4, <3>1
  <2> QED
    BY <1>1, <1>4, <2>2, <2>3, <2>5 DEF LoopInv, HeardInv, IdleTimeout
<1>5. CASE queue = << >> /\ Elapse /\ UNCHANGED <<lapStep, slow>>
  <2>1. Len(queue) = 0 /\ \A c : ~InQueue(c, queue)
    BY <1>5 DEF InQueue
  <2>2. \A c \in Clients : silence[c] = 0
    BY <1>1, <2>1 DEF HeardInv, Waits, Unhurried
  <2>3. /\ queue' \in Seq(Clients) /\ Len(queue') <= MaxQueue /\ Len(queue') = Crowd
        /\ \A c \in Clients : InQueue(c, queue')
        /\ silence' \in [Clients -> 0..IdleTimeout]
        /\ \A c \in Clients : silence'[c] <= silence[c] + 1
        /\ received' = received /\ alive' = alive
    BY <1>1, <1>5, <2>1, ElapseKeeps DEF HeardInv
  <2>4. \A c \in Clients : silence'[c] <= 1
    BY <2>2, <2>3
  <2>5. LoopType'
    BY <1>1, <1>5, <2>3 DEF LoopType
  <2>6. \A c \in Clients : silence'[c] < IdleTimeout
    BY <2>3, <2>4 DEF IdleTimeout
  <2> QED
    BY <1>1, <1>5, <2>3, <2>4, <2>5, <2>6 DEF LoopInv, HeardInv, Waits
<1> QED
  BY <1>3, <1>4, <1>5 DEF Recv

LEMMA TrickleKeeps ==
  ASSUME Unhurried, LoopInv, Trickles \/ LastRead \/ MenuStaysOpen
  PROVE  LoopInv'
<1>1. LoopType /\ HeardInv /\ lapStep \in {"read", "menu"} /\ received = Nobody /\ Elapse
  BY DEF LoopInv, LoopType, Trickles, LastRead, MenuStaysOpen
<1>2. spent > 0 \/ Untaxed
  <2>1. spent \in Nat /\ slow \in Nat
    BY <1>1 DEF LoopType
  <2>2. CASE Trickles
    <3>1. spent = 0 => slow < SlowInARow /\ SlowInARow <= 1 /\ SlowInARow \in Nat
      BY <2>2, HostLoopAssumption DEF Trickles, Unhurried
    <3> QED
      BY <2>1, <3>1 DEF Untaxed
  <2>3. CASE LastRead
    BY <2>3 DEF LastRead, RequestDeadline
  <2>4. CASE MenuStaysOpen
    BY <2>1, <2>4 DEF MenuStaysOpen, Untaxed
  <2> QED
    BY <2>2, <2>3, <2>4
<1>3. /\ queue' \in Seq(Clients) /\ Len(queue') <= MaxQueue
      /\ \A c \in Clients : InQueue(c, queue') /\ silence'[c] <= 2 + spent
      /\ silence' \in [Clients -> 0..IdleTimeout]
      /\ received' = received /\ alive' = Clients
  BY <1>1, <1>2, SpellKeeps
<1>4. spent \in Nat /\ slow \in Nat /\ \A c \in Clients : silence'[c] \in Nat
  BY <1>1, <1>3 DEF LoopType
<1>5. spent <= RequestDeadline + 1 \/ spent < MenuUnits
  BY <1>1 DEF LoopType, MenuStaysOpen, Trickles, LastRead
<1>6. \A c \in Clients : silence'[c] < IdleTimeout
  BY <1>3, <1>4, <1>5, HostLoopAssumption DEF Unhurried, RequestDeadline, IdleTimeout
<1>7. CASE Trickles
  <2>1. lapStep' = "read" /\ spent <= RequestDeadline /\ spent' = spent + 1 /\ slow' \in Nat /\ slow' > 0
    BY <1>1, <1>4, <1>7, HostLoopAssumption
    DEF Trickles, Overdue, RequestDeadline, IdleTimeout, LoopType
  <2>2. LoopType'
    BY <1>1, <1>3, <1>4, <2>1 DEF LoopType, RequestDeadline
  <2>3. ~Untaxed'
    BY <2>1 DEF Untaxed
  <2> QED
    BY <1>3, <1>4, <1>6, <2>1, <2>2, <2>3 DEF LoopInv, HeardInv, Waits
<1>8. CASE LastRead
  <2>1. lapStep' \in {"recv", "tray"} /\ spent' = 0 /\ slow' = slow /\ slow > 0
    BY <1>1, <1>8 DEF LastRead, AfterWeb, RequestDeadline, LoopType
  <2>2. LoopType'
    BY <1>1, <1>3, <1>4, <2>1 DEF LoopType
  <2>3. ~Untaxed'
    BY <2>1 DEF Untaxed
  <2> QED
    BY <1>3, <1>4, <1>6, <2>1, <2>2, <2>3 DEF LoopInv, HeardInv, Waits
<1>9. CASE MenuStaysOpen
  <2>1. lapStep' = "menu" /\ spent' = spent + 1 /\ spent' <= MenuUnits /\ slow' = slow /\ slow > 0
    BY <1>1, <1>4, <1>9, HostLoopAssumption DEF MenuStaysOpen, LoopType
  <2>2. LoopType'
    BY <1>1, <1>3, <1>4, <2>1 DEF LoopType
  <2>3. ~Untaxed'
    BY <1>4, <2>1 DEF Untaxed
  <2> QED
    BY <1>3, <1>4, <1>6, <2>1, <2>2, <2>3 DEF LoopInv, HeardInv, Waits
<1> QED
  BY <1>7, <1>8, <1>9

\* The steps that take no time and touch no datagram.
LEMMA QuietKeeps ==
  ASSUME LoopInv, UNCHANGED <<queue, received, silence, alive, slow, spent>>, lapStep # "over",
         lapStep' \notin {"over", "menu"} \/ lapStep' = lapStep,
         lapStep' \in {"recv", "web", "read", "tray"} => received = Nobody,
         spent = 0 \/ lapStep' = lapStep
  PROVE  LoopInv'
<1>1. LoopType /\ HeardInv
  BY DEF LoopInv
<1>2. LoopType'
  BY <1>1, HostLoopAssumption DEF LoopType, RequestDeadline
<1>3. Untaxed' => Untaxed
  BY <1>1 DEF Untaxed, LoopType
<1>4. HeardInv'
  BY <1>1, <1>3 DEF HeardInv, Waits
<1> QED
  BY <1>2, <1>4 DEF LoopInv

LEMMA LapKeeps ==
  ASSUME LoopInv, \/ PairLap \/ OpenLap \/ UnpairLap \/ ShowLap \/ WebIdle \/ WebAccepts \/ TrayIdle
                  \/ SignalPair \/ SignalUnpair \/ SignalExit
  PROVE  LoopInv'
<1>1. lapStep # "over" /\ LoopType
  BY DEF LoopInv, PairLap, OpenLap, UnpairLap, ShowLap, WebIdle, WebAccepts, TrayIdle, SignalPair,
         SignalUnpair, SignalExit, Goes
<1>2. CASE PairLap
  BY <1>1, <1>2, QuietKeeps DEF PairLap, Goes, traffic, LoopType
<1>3. CASE OpenLap
  BY <1>1, <1>3, QuietKeeps DEF OpenLap, Goes, traffic, LoopType
<1>4. CASE UnpairLap
  BY <1>1, <1>4, QuietKeeps DEF UnpairLap, Goes, traffic, LoopType
<1>5. CASE ShowLap
  BY <1>1, <1>5, QuietKeeps DEF ShowLap, Goes, traffic, LoopType
<1>6. CASE WebIdle
  BY <1>1, <1>6, QuietKeeps DEF WebIdle, Goes, AfterWeb, traffic, LoopType
<1>7. CASE WebAccepts
  <2>1. spent = 0 /\ received = Nobody
    BY <1>1, <1>7 DEF WebAccepts, Goes, LoopType
  <2> QED
    BY <1>1, <1>7, <2>1, QuietKeeps DEF WebAccepts, Goes, traffic
<1>8. CASE TrayIdle
  BY <1>1, <1>8, QuietKeeps DEF TrayIdle, Goes, traffic, LoopType
<1>9. CASE SignalPair \/ SignalUnpair \/ SignalExit
  BY <1>1, <1>9, QuietKeeps DEF SignalPair, SignalUnpair, SignalExit, traffic, LoopType
<1> QED
  BY <1>2, <1>3, <1>4, <1>5, <1>6, <1>7, <1>8, <1>9

LEMMA TickKeeps ==
  ASSUME LoopInv, TickLap
  PROVE  LoopInv'
<1>1. LoopType /\ HeardInv /\ lapStep = "tick" /\ lapStep' \in {"pair", "datagram"}
  BY DEF LoopInv, TickLap, Goes
<1>2. alive' = Clients /\ UNCHANGED <<queue, received, silence, spent, slow>>
  BY <1>1 DEF TickLap, HeardInv
<1>3. LoopType'
  BY <1>1, <1>2 DEF LoopType
<1>4. Untaxed' => Untaxed
  BY <1>1, <1>2 DEF Untaxed
<1> QED
  BY <1>1, <1>2, <1>3, <1>4 DEF LoopInv, HeardInv, Waits

LEMMA DatagramKeeps ==
  ASSUME Unhurried, LoopInv, DatagramLap
  PROVE  LoopInv'
<1>1. LoopType /\ HeardInv /\ lapStep = "datagram" /\ lapStep' = "web"
  BY DEF LoopInv, DatagramLap, Goes
<1>2. /\ UNCHANGED <<queue, alive, spent, slow>> /\ received' = Nobody
      /\ silence' = [c \in Clients |-> IF c = received THEN 0 ELSE silence[c]]
  BY <1>1 DEF DatagramLap, HeardInv
<1>3. silence' \in [Clients -> 0..IdleTimeout] /\ \A c \in Clients : silence'[c] <= silence[c]
  BY <1>1, <1>2 DEF LoopType, IdleTimeout
<1>4. LoopType'
  BY <1>1, <1>2, <1>3 DEF LoopType
<1>5. Untaxed' => Untaxed
  BY <1>1, <1>2 DEF Untaxed
<1>6. \A c \in Clients : Waits(c)' \/ silence'[c] = 0
  BY <1>1, <1>2 DEF HeardInv, Waits
<1>7. \A c \in Clients : silence'[c] < IdleTimeout
  BY <1>1, <1>3 DEF HeardInv, LoopType, IdleTimeout
<1>8. spent = 0 /\ spent' = 0
  BY <1>1, <1>2 DEF LoopType
<1>9. Untaxed => \A c \in Clients : silence'[c] <= 1
  BY <1>1, <1>3 DEF HeardInv, LoopType, IdleTimeout
<1> QED
  BY <1>1, <1>2, <1>4, <1>5, <1>6, <1>7, <1>8, <1>9 DEF LoopInv, HeardInv

\* What took its time is over, or begins.
LEMMA SpellEnds ==
  ASSUME LoopInv, WebAnswers \/ MenuCloses
  PROVE  LoopInv'
<1>1. LoopType /\ HeardInv /\ lapStep \in {"read", "menu"} /\ received = Nobody /\ lapStep' \in {"recv", "tray"}
  BY DEF LoopInv, LoopType, WebAnswers, MenuCloses, Goes, AfterWeb
<1>2. UNCHANGED <<queue, received, silence, alive, slow>> /\ spent' = 0
  BY DEF WebAnswers, MenuCloses, traffic
<1>3. LoopType'
  BY <1>1, <1>2 DEF LoopType
<1>4. Untaxed' => Untaxed
  BY <1>1, <1>2 DEF Untaxed
<1> QED
  BY <1>1, <1>2, <1>3, <1>4 DEF LoopInv, HeardInv, Waits

LEMMA MenuOpensKeeps ==
  ASSUME Unhurried, LoopInv, MenuOpens
  PROVE  LoopInv'
<1>1. LoopType /\ HeardInv /\ lapStep = "tray" /\ lapStep' = "menu" /\ received = Nobody
  BY DEF LoopInv, LoopType, MenuOpens, Goes
<1>2. UNCHANGED <<queue, received, silence, alive>> /\ spent' = 0 /\ slow' = slow + 1 /\ slow = 0
  BY <1>1, HostLoopAssumption DEF MenuOpens, traffic, Unhurried, LoopType
<1>3. LoopType'
  BY <1>1, <1>2, HostLoopAssumption DEF LoopType
<1>4. Untaxed
  BY <1>2 DEF Untaxed
<1> QED
  BY <1>1, <1>2, <1>3, <1>4 DEF LoopInv, HeardInv, Waits

LEMMA OverKeeps ==
  ASSUME LoopInv, Over
  PROVE  LoopInv'
<1>1. LoopType /\ lapStep' = "over" /\ queue' = << >> /\ UNCHANGED <<received, silence, spent, slow>>
      /\ lapStep = "recv"
  BY DEF LoopInv, Over, Goes
<1>2. LoopType'
  BY <1>1, HostLoopAssumption DEF LoopType
<1> QED
  BY <1>1, <1>2 DEF LoopInv

LEMMA LoopStep ==
  ASSUME Unhurried, LoopInv, [HostLoopNext]_loopVars
  PROVE  LoopInv'
<1>1. CASE UNCHANGED loopVars
  BY <1>1 DEF loopVars, LoopInv, LoopType, HeardInv, Waits, Untaxed
<1> QED
  BY <1>1, RecvKeeps, TrickleKeeps, LapKeeps, TickKeeps, DatagramKeeps, SpellEnds, MenuOpensKeeps, OverKeeps
  DEF HostLoopNext

LEMMA LoopInitially == ASSUME Unhurried, HostLoopInit PROVE LoopInv
<1>1. queue \in Seq(Clients) /\ Len(queue) = 0 /\ Crowd \in Nat
  BY CrowdIs DEF HostLoopInit
<1>2. LoopType
  BY <1>1, HostLoopAssumption DEF HostLoopInit, LoopType, IdleTimeout, RequestDeadline
<1>3. Crowd = 0 => Clients = {}
  BY FS_EmptySet DEF Unhurried, Crowd
<1>4. HeardInv
  BY <1>1, <1>3 DEF HostLoopInit, HeardInv, IdleTimeout
<1> QED
  BY <1>2, <1>4 DEF LoopInv

\* A client that keeps sending keeps its session, for any number of clients: the
\* deadline of a web request leaves room for the queue behind it (main's loop,
\* UI_REQUEST_DEADLINE_MS).
THEOREM SendersAreKept ==
  ASSUME Unhurried
  PROVE  HostLoopSpec => []KeptAlive
<1>1. LoopInv => KeptAlive
  BY DEF LoopInv, HeardInv, KeptAlive
<1>2. HostLoopInit => LoopInv
  BY LoopInitially
<1>3. LoopInv /\ [HostLoopNext]_loopVars => LoopInv'
  BY LoopStep
<1> QED
  BY <1>1, <1>2, <1>3, PTL DEF HostLoopSpec

-----------------------------------------------------------------------------
(* Least and greatest elements                                              *)

LEMMA LeastExists ==
  ASSUME NEW S \in SUBSET Nat, S # {}
  PROVE  \E x \in S : \A y \in S : x <= y
<1>1. \E x \in S : \A y \in S : ~(<<y, x>> \in OpToRel(<, Nat))
  BY WFMin, NatLessThanWellFounded
<1>2. PICK x \in S : \A y \in S : ~(<<y, x>> \in OpToRel(<, Nat))
  BY <1>1
<1>3. \A y \in S : ~(y < x)
  BY <1>2 DEF OpToRel
<1> QED
  BY <1>3

LEMMA GreatestExists ==
  ASSUME NEW n \in Nat, NEW S \in SUBSET (1..n), S # {}
  PROVE  \E x \in S : \A y \in S : y <= x
<1> DEFINE T == {n - k : k \in S}
<1>1. T \in SUBSET Nat /\ T # {}
  <2>1. \A k \in S : n - k \in Nat
    OBVIOUS
  <2> QED
    BY <2>1
<1>2. PICK t \in T : \A u \in T : t <= u
  BY <1>1, LeastExists
<1>3. PICK x \in S : t = n - x
  BY <1>2
<1>4. ASSUME NEW y \in S PROVE y <= x
  <2>1. n - y \in T
    OBVIOUS
  <2>2. t <= n - y
    BY <1>2, <2>1
  <2>3. x \in Int /\ y \in Int /\ n - x <= n - y
    BY <1>3, <2>2
  <2> HIDE DEF T
  <2> QED
    BY <2>3
<1> QED
  BY <1>4

-----------------------------------------------------------------------------
(* The files.                                                               *)

NoneTorn(dir) == \A file \in DOMAIN dir : file[2] = "jsonc" => dir[file] # Torn

\* The text of a PUT is whole before it is renamed to where it is read.
FilesInv ==
  /\ saving.step \in {"open", "written"} => saving.text # Torn
  /\ NoTornFile

LEMMA FileAdded ==
  ASSUME NEW dir, NoneTorn(dir), NEW file, NEW text, file[2] = "jsonc" => text # Torn
  PROVE  NoneTorn(With(dir, file, text))
BY DEF NoneTorn, With

LEMMA FileRemoved ==
  ASSUME NEW dir, NoneTorn(dir), NEW file
  PROVE  NoneTorn(Without(dir, file))
BY DEF NoneTorn, Without

LEMMA FilesStep ==
  ASSUME FilesInv, Torn \notin HandTexts, [ProfilesNext]_profileVars
  PROVE  FilesInv'
<1> USE DEF FilesInv
<1>1. NoneTorn(folder) /\ (NoneTorn(folder') <=> NoTornFile')
  BY DEF NoneTorn, NoTornFile
<1>2. \A stem : TempPath(stem)[2] = "tmp" /\ FinalPath(stem)[2] = "jsonc"
  BY DEF TempPath, FinalPath
<1>3. \A stem, match, rev : Profile(stem, match, rev) # Torn
  BY DEF Profile, Torn
<1>4. NotSaving.step = "none"
  BY DEF NotSaving
<1>5. CASE UNCHANGED <<folder, saving>>
  BY <1>1, <1>5
<1>6. CASE \E stem \in UserStems, match \in Fragments, rev \in Revisions : PutBegins(stem, match, rev)
  <2>1. PICK stem \in UserStems, match \in Fragments, rev \in Revisions : PutBegins(stem, match, rev)
    BY <1>6
  <2>2. folder' = With(folder, TempPath(stem), Torn) /\ saving'.text = Profile(stem, match, rev)
    BY <2>1 DEF PutBegins
  <2> QED
    BY <1>1, <1>2, <1>3, <2>2, FileAdded
<1>7. CASE PutWrites
  <2>1. folder' = [folder EXCEPT ![TempPath(saving.stem)] = saving.text]
        /\ saving' = [saving EXCEPT !.step = "written"] /\ saving.step = "open"
    BY <1>7 DEF PutWrites
  <2>2. NoneTorn(folder')
    BY <1>1, <1>2, <2>1 DEF NoneTorn
  <2> QED
    BY <1>1, <2>1, <2>2
<1>8. CASE PutFails
  BY <1>1, <1>4, <1>8, FileRemoved DEF PutFails
<1>9. CASE PutRenames
  <2>1. folder' = With(Without(folder, TempPath(saving.stem)), FinalPath(saving.stem), saving.text)
        /\ saving.text # Torn
    BY <1>9 DEF PutRenames
  <2>2. saving'.step \notin {"open", "written"}
    BY <1>9 DEF PutRenames
  <2> QED
    BY <1>1, <2>1, <2>2, FileAdded, FileRemoved
<1>10. CASE PutReloads
  BY <1>1, <1>4, <1>10 DEF PutReloads
<1>11. CASE \E stem \in UserStems : DeleteRequest(stem)
  <2>1. PICK stem \in UserStems : DeleteRequest(stem)
    BY <1>11
  <2>2. folder' = Without(folder, FinalPath(stem)) /\ saving'.step = "renamed"
    BY <2>1 DEF DeleteRequest, NotSaving
  <2> QED
    BY <1>1, <2>2, FileRemoved
<1>12. CASE \E stem \in Range(StemOrder), text \in HandTexts : HandEdit(stem, text)
  <2>1. PICK stem \in Range(StemOrder), text \in HandTexts : HandEdit(stem, text)
    BY <1>12
  <2>2. folder' = With(folder, FinalPath(stem), text) /\ saving' = saving /\ text # Torn
    BY <2>1 DEF HandEdit
  <2> QED
    BY <1>1, <2>2, FileAdded
<1>13. CASE Restart
  BY <1>1, <1>4, <1>13 DEF Restart
<1>14. CASE \E i \in Seats : \/ \E device \in Devices : SeatTaken(i, device)
                             \/ SeatAcked(i) \/ SeatFreed(i) \/ LayoutSent(i)
                             \/ \E name \in Names : ChooseProfile(i, name)
  BY <1>5, <1>14 DEF SeatTaken, SeatAcked, SeatFreed, LayoutSent, ChooseProfile, Refused, profileVars
<1>15. CASE ReloadRequest \/ \E stem \in Range(StemOrder) : PutRefused(stem) \/ DeleteRefused(stem)
  BY <1>5, <1>15 DEF ReloadRequest, PutRefused, DeleteRefused, Refused, profileVars
<1>16. CASE UNCHANGED profileVars
  BY <1>5, <1>16 DEF profileVars
<1> QED
  BY <1>6, <1>7, <1>8, <1>9, <1>10, <1>11, <1>12, <1>13, <1>14, <1>15, <1>16 DEF ProfilesNext

\* Whatever fails and whenever the server dies, a profile's file holds a whole
\* text, unless a person tore it (profile_store_save).
THEOREM FilesStayWhole ==
  ASSUME Torn \notin HandTexts
  PROVE  ProfilesSpec => []NoTornFile
<1>1. ProfilesInit => FilesInv
  <2> SUFFICES ASSUME ProfilesInit PROVE FilesInv
    OBVIOUS
  <2>1. folder = << >> /\ saving.step = "none"
    BY DEF ProfilesInit, NotSaving
  <2>2. DOMAIN folder = {}
    BY <2>1
  <2> QED
    BY <2>1, <2>2 DEF FilesInv, NoTornFile
<1>2. FilesInv /\ [ProfilesNext]_profileVars => FilesInv'
  BY FilesStep
<1>3. FilesInv => NoTornFile
  BY DEF FilesInv
<1> QED
  BY <1>1, <1>2, <1>3, PTL DEF ProfilesSpec

-----------------------------------------------------------------------------
(* The sessions and the table their pointers lead into.                     *)

SeatFields == {"in_use", "device", "at", "pinned", "acked", "dirty", "shown", "human"}

\* What a seat in use is entitled to of a table, and what its client draws.
Entitled(seat, tbl, count) ==
  /\ seat.human # "" => seat.pinned
  /\ ~seat.pinned => seat.at = MatchIn(tbl, count, seat.device)
  /\ seat.human # "" => At(tbl, seat.at).name = seat.human
  /\ seat.acked /\ ~seat.dirty => seat.shown = At(tbl, seat.at)

SeatInv(seat, tbl, count) ==
  DOMAIN seat = SeatFields /\ (seat.in_use => Entitled(seat, tbl, count))

SeatsInv ==
  DOMAIN seats = Seats /\ \A i \in Seats : SeatInv(seats[i], table, loaded)

\* A name that is known is found.
LEMMA FindLands ==
  ASSUME NEW tbl, NEW count, NEW name, KnownIn(tbl, count, name)
  PROVE  At(tbl, FindIn(tbl, count, name)).name = name
<1> DEFINE hits == {i \in 1..count : tbl[i].name = name}
           found == CHOOSE i \in hits : \A j \in hits : i <= j
<1>1. FindIn(tbl, count, name) = IF hits = {} THEN 0 ELSE found
  BY DEF FindIn, FirstIn
<1>2. CASE hits = {}
  <2>1. name = BuiltinProfile.name
    BY <1>2 DEF KnownIn
  <2> QED
    BY <1>1, <1>2, <2>1 DEF At
<1>3. CASE hits # {}
  <2>1. hits \in SUBSET Nat /\ 0 \notin hits
    OBVIOUS
  <2> HIDE DEF hits
  <2>2. \E i \in hits : \A j \in hits : i <= j
    BY <1>3, <2>1, LeastExists
  <2>3. found \in hits
    BY <2>2
  <2> HIDE DEF found
  <2>4. found # 0 /\ tbl[found].name = name
    BY <2>1, <2>3 DEF hits
  <2> QED
    BY <1>1, <1>3, <2>4 DEF At
<1> QED
  BY <1>2, <1>3

\* A reload lands every session where it belongs in the table it has loaded.
LEMMA ReseatedInv ==
  ASSUME NEW seat, NEW tbl, NEW count, SeatInv(seat, tbl, count), seat.in_use,
         NEW new, NEW n
  PROVE  SeatInv(Reseated(seat, At(tbl, seat.at).name, new, n), new, n)
<1> DEFINE old == At(tbl, seat.at).name
           s == Reseated(seat, old, new, n)
<1>1. /\ DOMAIN s = SeatFields
      /\ s.in_use = seat.in_use /\ s.device = seat.device /\ s.pinned = seat.pinned
      /\ s.acked = seat.acked /\ s.dirty = TRUE /\ s.at = Landed(seat, old, new, n)
      /\ s.human = IF KnownIn(new, n, old) THEN seat.human ELSE ""
  BY DEF SeatInv, Reseated, SeatFields
<1>2. s.human # "" => KnownIn(new, n, old) /\ seat.pinned /\ old = seat.human
  BY <1>1 DEF SeatInv, Entitled
<1>3. s.human # "" => s.at = FindIn(new, n, old)
  BY <1>1, <1>2 DEF Landed
<1> HIDE DEF s, old
<1>4. s.human # "" => At(new, s.at).name = s.human
  BY <1>1, <1>2, <1>3, FindLands
<1>5. ~s.pinned => s.at = MatchIn(new, n, s.device)
  BY <1>1 DEF Landed
<1>6. SeatInv(s, new, n)
  BY <1>1, <1>2, <1>4, <1>5 DEF SeatInv, Entitled
<1> QED
  BY <1>6 DEF s, old

LEMMA EmptySeatInv ==
  ASSUME NEW tbl, NEW count PROVE SeatInv(EmptySeat, tbl, count)
BY DEF SeatInv, EmptySeat, SeatFields

LEMMA ReloadInv ==
  ASSUME SeatsInv, NEW scan, ReloadFrom(scan)
  PROVE  SeatsInv'
<1> DEFINE profiles == Parsed(Sources(scan))
           n == Len(profiles)
           new == Overwritten(profiles)
<1>1. table' = new /\ loaded' = n
  BY DEF ReloadFrom
<1> HIDE DEF n, new
<1>2. seats' = [i \in Seats |-> IF ~seats[i].in_use THEN seats[i]
                                ELSE Reseated(seats[i], OldNames(table, new)[i], new, n)]
  BY DEF ReloadFrom, n, new
<1>3. \A i \in Seats : OldNames(table, new)[i] = At(table, seats[i].at).name
  BY DEF OldNames
<1>4. ASSUME NEW i \in Seats PROVE SeatInv(seats'[i], new, n)
  <2>1. CASE seats[i].in_use
    <3>1. seats'[i] = Reseated(seats[i], At(table, seats[i].at).name, new, n)
      BY <1>2, <1>3, <2>1
    <3> QED
      BY <2>1, <3>1, ReseatedInv DEF SeatsInv
  <2>2. CASE ~seats[i].in_use
    BY <1>2, <2>2 DEF SeatsInv, SeatInv
  <2> QED
    BY <2>1, <2>2
<1> QED
  BY <1>1, <1>2, <1>4 DEF SeatsInv

\* One seat changes, and the table does not.
LEMMA OneSeatInv ==
  ASSUME SeatsInv, UNCHANGED <<table, loaded>>, NEW i \in Seats, NEW s,
         seats' = [seats EXCEPT ![i] = s], SeatInv(s, table, loaded)
  PROVE  SeatsInv'
BY DEF SeatsInv

LEMMA SeatsStep ==
  ASSUME SeatsInv, [ProfilesNext]_profileVars
  PROVE  SeatsInv'
<1>1. CASE UNCHANGED <<table, loaded, seats>>
  BY <1>1 DEF SeatsInv
<1>2. ASSUME NEW i \in Seats,
             \/ \E device \in Devices : SeatTaken(i, device)
             \/ SeatAcked(i) \/ SeatFreed(i) \/ LayoutSent(i)
             \/ \E name \in Names : ChooseProfile(i, name)
      PROVE  SeatsInv'
  <2>1. SeatInv(seats[i], table, loaded) /\ DOMAIN seats = Seats
    BY DEF SeatsInv
  <2>2. ASSUME NEW device \in Devices, SeatTaken(i, device) PROVE SeatsInv'
    <3> DEFINE s == [EmptySeat EXCEPT !.in_use = TRUE, !.device = device,
                                      !.at = MatchIn(table, loaded, device)]
    <3>1. SeatInv(s, table, loaded)
      BY DEF SeatInv, Entitled, EmptySeat, SeatFields
    <3>2. seats' = [seats EXCEPT ![i] = s] /\ UNCHANGED <<table, loaded>>
      BY <2>2 DEF SeatTaken
    <3> QED
      BY <3>1, <3>2, OneSeatInv
  <2>3. CASE SeatAcked(i)
    <3> DEFINE s == [seats[i] EXCEPT !.acked = TRUE, !.dirty = TRUE]
    <3>1. SeatInv(s, table, loaded)
      BY <2>1 DEF SeatInv, Entitled, SeatFields
    <3>2. seats' = [seats EXCEPT ![i] = s] /\ UNCHANGED <<table, loaded>>
      BY <2>1, <2>3 DEF SeatAcked
    <3> QED
      BY <3>1, <3>2, OneSeatInv
  <2>4. CASE SeatFreed(i)
    BY <2>4, EmptySeatInv, OneSeatInv DEF SeatFreed
  <2>5. CASE LayoutSent(i)
    <3> DEFINE s == [seats[i] EXCEPT !.dirty = FALSE, !.shown = At(table, seats[i].at)]
    <3>1. SeatInv(s, table, loaded)
      BY <2>1 DEF SeatInv, Entitled, SeatFields
    <3>2. seats' = [seats EXCEPT ![i] = s] /\ UNCHANGED <<table, loaded>>
      BY <2>1, <2>5 DEF LayoutSent
    <3> QED
      BY <3>1, <3>2, OneSeatInv
  <2>6. ASSUME NEW name \in Names, ChooseProfile(i, name) PROVE SeatsInv'
    <3>1. CASE Refused
      BY <1>1, <3>1 DEF Refused, profileVars
    <3>2. CASE KnownIn(table, loaded, name) /\ UNCHANGED <<table, loaded>>
               /\ seats' = [seats EXCEPT ![i] = Chosen(@, FindIn(table, loaded, name), name)]
      <4> DEFINE s == Chosen(seats[i], FindIn(table, loaded, name), name)
      <4>1. SeatInv(s, table, loaded)
        BY <2>1, <3>2, FindLands DEF SeatInv, Entitled, SeatFields, Chosen
      <4>2. seats' = [seats EXCEPT ![i] = s]
        BY <2>1, <3>2
      <4> QED
        BY <3>2, <4>1, <4>2, OneSeatInv
    <3> QED
      BY <2>6, <3>1, <3>2 DEF ChooseProfile
  <2> QED
    BY <1>2, <2>2, <2>3, <2>4, <2>5, <2>6
<1>3. CASE ReloadRequest
  BY <1>3, ReloadInv DEF ReloadRequest
<1>4. CASE PutReloads
  BY <1>4, ReloadInv DEF PutReloads
<1>5. CASE Restart
  BY <1>5, EmptySeatInv DEF Restart, SeatsInv
<1>6. CASE \E stem \in Range(StemOrder) : PutRefused(stem) \/ DeleteRefused(stem)
  BY <1>1, <1>6 DEF PutRefused, DeleteRefused, Refused, profileVars
<1>7. CASE \E stem \in UserStems, match \in Fragments, rev \in Revisions : PutBegins(stem, match, rev)
  BY <1>1, <1>7 DEF PutBegins
<1>8. CASE PutWrites \/ PutFails \/ PutRenames
  BY <1>1, <1>8 DEF PutWrites, PutFails, PutRenames
<1>9. CASE \E stem \in UserStems : DeleteRequest(stem)
  BY <1>1, <1>9 DEF DeleteRequest
<1>10. CASE \E stem \in Range(StemOrder), text \in HandTexts : HandEdit(stem, text)
  BY <1>1, <1>10 DEF HandEdit
<1>11. CASE UNCHANGED profileVars
  BY <1>1, <1>11 DEF profileVars
<1> QED
  BY <1>2, <1>3, <1>4, <1>5, <1>6, <1>7, <1>8, <1>9, <1>10, <1>11 DEF ProfilesNext

\* Although every load overwrites the table under the sessions that point into
\* it, each runs the profile it was given or picked, and its client draws that
\* profile's layout or is owed it (apad_server_reload_profiles, touchmap_dirty).
THEOREM SessionsStayMapped == ProfilesSpec => []SessionsFollowTable
<1>1. ProfilesInit => SeatsInv
  BY EmptySeatInv DEF ProfilesInit, SeatsInv
<1>2. SeatsInv /\ [ProfilesNext]_profileVars => SeatsInv'
  BY SeatsStep
<1>3. SeatsInv => SessionsFollowTable
  BY DEF SeatsInv, SeatInv, Entitled, SessionsFollowTable, SessionsMapped, LayoutFollows
<1> QED
  BY <1>1, <1>2, <1>3, PTL DEF ProfilesSpec

-----------------------------------------------------------------------------
(* The responder's addresses.                                               *)

ResponderFields == {"state", "fd", "joined", "left", "due", "ever", "since", "facts", "facts_age",
                    "out_if", "mcast", "tokens", "refill_age"}

\* A responder that knows these addresses.
Knows(m, addrs) == DOMAIN m = ResponderFields /\ m.facts.addrs = addrs

\* A packet that reaches one of these networks names no address but that one's.
Local(packets, addrs) ==
  \A p \in packets : p.on \in On(addrs) => p.addresses \subseteq {p.on}

MdnsInv ==
  /\ DOMAIN responder = ResponderFields
  /\ responder.facts.addrs \in Seq(Networks)
  /\ truth.addrs \in Seq(Networks)
  /\ AddressOfItsNetwork

LEMMA PacketNames ==
  ASSUME NEW m, NEW records, NEW kind, NEW by, NEW index, NEW on,
         NEW p \in Packet(m, records, kind, by, index, on)
  PROVE  p.on = on /\ p.addresses \subseteq Addresses(m.facts.addrs, index)
BY DEF Packet

\* The interface a packet leaves on, if the cached addresses are the host's.
LEMMA PointedAt ==
  ASSUME truth.addrs \in Seq(Networks), NEW m, m.facts.addrs = truth.addrs,
         NEW chosen \in SUBSET DOMAIN truth.addrs, NEW k \in chosen
  PROVE  Leaving(Pointed(m, {j \in chosen : j <= k})) = truth.addrs[k]
<1> DEFINE addrs == truth.addrs
           upTo == {j \in chosen : j <= k}
<1>1. \A j \in chosen : addrs[j] \in On(addrs) /\ j \in Nat \ {0}
  BY DEF On
<1>2. {j \in upTo : m.facts.addrs[j] \in On(truth.addrs)} = upTo
  BY <1>1
<1>3. Max(upTo) = k
  BY <1>1 DEF Max
<1>4. k \in upTo
  BY <1>1
<1> HIDE DEF upTo
<1>5. Pointed(m, upTo) = addrs[k]
  BY <1>2, <1>3, <1>4 DEF Pointed
<1>6. addrs[k] # Nowhere
  BY MdnsAssumption
<1>7. Leaving(addrs[k]) = addrs[k]
  BY <1>1, <1>6 DEF Leaving
<1> QED
  BY <1>5, <1>7 DEF upTo

\* The interface is pointed at before the packet for it is sent.
LEMMA MulticastIsLocal ==
  ASSUME truth.addrs \in Seq(Networks), NEW m, Knows(m, truth.addrs),
         NEW records, NEW kind, NEW by, NEW only
  PROVE  Local(Multicast(m, records, kind, by, only).packets, truth.addrs)
<1> DEFINE addrs == truth.addrs
           chosen == Picked(m, only, by = "ANSWER")
           packets == Multicast(m, records, kind, by, only).packets
<1>1. m.facts.addrs = addrs /\ chosen \subseteq 1..Len(addrs) /\ DOMAIN addrs = 1..Len(addrs)
      /\ Len(addrs) \in Nat
  BY DEF Picked, Knows
<1>2. CASE addrs = << >>
  BY <1>2 DEF Local, On
<1>3. CASE addrs # << >>
  <2>1. packets = UNION {Packet(m, records, kind, by, k,
                                Leaving(Pointed(m, {j \in chosen : j <= k}))) : k \in chosen}
    BY <1>1, <1>3 DEF Multicast
  <2> HIDE DEF chosen
  <2>2. ASSUME NEW k \in chosen
        PROVE  Leaving(Pointed(m, {j \in chosen : j <= k})) = addrs[k] /\ k # 0
    <3>1. chosen \in SUBSET DOMAIN truth.addrs /\ k # 0
      BY <1>1
    <3> QED
      BY <1>1, <3>1, PointedAt
  <2> HIDE DEF packets
  <2>3. ASSUME NEW p \in packets, p.on \in On(addrs) PROVE p.addresses \subseteq {p.on}
    <3>1. PICK k \in chosen :
            p \in Packet(m, records, kind, by, k, Leaving(Pointed(m, {j \in chosen : j <= k})))
      BY <2>1
    <3>2. p.on = addrs[k] /\ p.addresses \subseteq Addresses(m.facts.addrs, k)
      BY <2>2, <3>1, PacketNames
    <3> QED
      BY <1>1, <2>2, <3>2 DEF Addresses
  <2> QED
    BY <2>3 DEF Local, packets
<1> QED
  BY <1>2, <1>3

\* A reply to one asker names the address of the network it asked on.
LEMMA UnicastIsLocal ==
  ASSUME truth.addrs \in Seq(Networks), NEW m, Knows(m, truth.addrs),
         NEW records, NEW kind, NEW network
  PROVE  Local(Unicast(m, records, kind, network).packets, truth.addrs)
<1> DEFINE addrs == truth.addrs
           at == {k \in DOMAIN m.facts.addrs : m.facts.addrs[k] = network}
           packets == Unicast(m, records, kind, network).packets
<1>1. m.facts.addrs = addrs /\ DOMAIN addrs = 1..Len(addrs) /\ Len(addrs) \in Nat
  BY DEF Knows
<1>2. \A p \in packets :
        p.on = network /\ p.addresses \subseteq Addresses(m.facts.addrs, IndexOf(m, network))
  BY PacketNames DEF Unicast
<1>3. network \in On(addrs) => Addresses(addrs, IndexOf(m, network)) = {network}
  <2> SUFFICES ASSUME network \in On(addrs)
               PROVE  Addresses(addrs, IndexOf(m, network)) = {network}
    OBVIOUS
  <2>1. at # {} /\ at \in SUBSET (1..Len(addrs))
    BY <1>1 DEF On
  <2>2. IndexOf(m, network) = Max(at)
    BY <2>1 DEF IndexOf
  <2>3. \A k \in at : addrs[k] = network /\ k # 0
    BY <1>1
  <2> HIDE DEF at
  <2>4. PICK x \in at : \A y \in at : y <= x
    BY <1>1, <2>1, GreatestExists
  <2>5. \A y \in at : x >= y
    BY <1>1, <2>1, <2>4
  <2>6. Max(at) \in at
    BY <2>5 DEF Max
  <2> QED
    BY <2>2, <2>3, <2>6 DEF Addresses
<1> HIDE DEF packets
<1> QED
  BY <1>1, <1>2, <1>3 DEF Local, packets

LEMMA MulticastKnows ==
  ASSUME NEW m, NEW addrs, Knows(m, addrs), NEW records, NEW kind, NEW by, NEW only
  PROVE  Knows(Multicast(m, records, kind, by, only).m, addrs)
BY DEF Multicast, Knows, ResponderFields

LEMMA AnnouncementIs ==
  ASSUME NEW m, NEW addrs, Knows(m, addrs), NEW kind
  PROVE  /\ Announcement(m, kind).packets =
              Multicast(m, {"PTR", "SRV", "TXT", "A"}, kind, "ANNOUNCEMENT", 0).packets
         /\ Knows(Announcement(m, kind).m, addrs)
<1> DEFINE said == Multicast(m, {"PTR", "SRV", "TXT", "A"}, kind, "ANNOUNCEMENT", 0)
<1>1. Knows(said.m, addrs)
  BY MulticastKnows
<1>2. DOMAIN said = {"m", "packets"}
  BY DEF Multicast
<1>3. Announcement(m, kind) = [said EXCEPT !.m.ever = TRUE, !.m.since = 0]
  BY DEF Announcement
<1> HIDE DEF said
<1>4. /\ Announcement(m, kind).packets = said.packets
      /\ Announcement(m, kind).m = [said.m EXCEPT !.ever = TRUE, !.since = 0]
  BY <1>2, <1>3
<1>5. Knows(Announcement(m, kind).m, addrs)
  BY <1>1, <1>4 DEF Knows, ResponderFields
<1> QED
  BY <1>4, <1>5 DEF said

LEMMA UnicastKnows ==
  ASSUME NEW m, NEW addrs, Knows(m, addrs), NEW records, NEW kind, NEW network
  PROVE  Knows(Unicast(m, records, kind, network).m, addrs)
<1>1. Knows(Bucket(m), addrs)
  BY DEF Bucket, Knows, ResponderFields
<1>2. Knows([Bucket(m) EXCEPT !.tokens = @ - 1], addrs)
  BY <1>1 DEF Knows, ResponderFields
<1> QED
  BY <1>1, <1>2 DEF Unicast

\* Whatever is asked: what the responder knows stays, and what it says is local.
LEMMA HandledIs ==
  ASSUME NEW m, NEW addrs, Knows(m, addrs), NEW q
  PROVE  /\ Knows(Handled(m, q).m, addrs)
         /\ truth.addrs \in Seq(Networks) /\ addrs = truth.addrs =>
              Local(Handled(m, q).packets, addrs)
<1> DEFINE legacy == Unicast(m, Matched(q), "LEGACY", q.from)
           direct == Unicast(m, Matched(q), "ANSWER", q.from)
           shared == Multicast(m, Matched(q), "ANSWER", "ANSWER", IndexOf(m, q.from))
           none   == [m |-> m, packets |-> {}]
<1>1. /\ Knows(legacy.m, addrs) /\ Knows(direct.m, addrs)
      /\ Knows(shared.m, addrs) /\ Knows(none.m, addrs)
  BY UnicastKnows, MulticastKnows
<1>2. truth.addrs \in Seq(Networks) /\ addrs = truth.addrs =>
        /\ Local(legacy.packets, addrs) /\ Local(direct.packets, addrs)
        /\ Local(shared.packets, addrs) /\ Local(none.packets, addrs)
  BY UnicastIsLocal, MulticastIsLocal DEF Local
<1>3. \/ Handled(m, q) = legacy \/ Handled(m, q) = direct
      \/ Handled(m, q) = shared \/ Handled(m, q) = none
  <2> HIDE DEF legacy, direct, shared, none
  <2>1. CASE Matched(q) = {}
    BY <2>1 DEF Handled, none
  <2>2. CASE Matched(q) # {} /\ q.legacy
    BY <2>2 DEF Handled, legacy
  <2>3. CASE Matched(q) # {} /\ ~q.legacy /\ q.unicast
    BY <2>3 DEF Handled, direct
  <2>4. CASE Matched(q) # {} /\ ~q.legacy /\ ~q.unicast
    BY <2>4 DEF Handled, shared
  <2> QED
    BY <2>1, <2>2, <2>3, <2>4
<1> HIDE DEF legacy, direct, shared, none
<1> QED
  BY <1>1, <1>2, <1>3

LEMMA ScheduledIs ==
  ASSUME NEW m, NEW addrs, Knows(m, addrs)
  PROVE  /\ Knows(Scheduled(m).m, addrs)
         /\ truth.addrs \in Seq(Networks) /\ addrs = truth.addrs =>
              Local(Scheduled(m).packets, addrs)
<1>1. CASE AnnounceDue(m)
  <2> DEFINE said == Announcement(m, "ANSWER")
  <2>1. Knows(said.m, addrs)
    BY AnnouncementIs
  <2>2. truth.addrs \in Seq(Networks) /\ addrs = truth.addrs => Local(said.packets, addrs)
    BY AnnouncementIs, MulticastIsLocal
  <2>3. DOMAIN said = {"m", "packets"}
    BY DEF Announcement, Multicast
  <2>4. Scheduled(m) = [said EXCEPT !.m.left = @ - 1, !.m.due = AnnounceGap]
    BY <1>1 DEF Scheduled
  <2> HIDE DEF said
  <2>5. /\ Scheduled(m).packets = said.packets
        /\ Scheduled(m).m = [said.m EXCEPT !.left = @ - 1, !.due = AnnounceGap]
    BY <2>3, <2>4
  <2>6. Knows(Scheduled(m).m, addrs)
    BY <2>1, <2>5 DEF Knows, ResponderFields
  <2> QED
    BY <2>2, <2>5, <2>6
<1>2. CASE ~AnnounceDue(m)
  BY <1>2 DEF Scheduled, Local
<1> QED
  BY <1>1, <1>2

LEMMA RefreshedIs ==
  ASSUME NEW m, DOMAIN m = ResponderFields, m.facts.addrs \in Seq(Networks),
         truth.addrs \in Seq(Networks)
  PROVE  \E addrs \in Seq(Networks) : Knows(Refreshed(m), addrs)
<1>1. \/ Knows(Refreshed(m), m.facts.addrs)
      \/ Knows(Refreshed(m), truth.addrs)
  BY DEF Refreshed, Knows, ResponderFields
<1> QED
  BY <1>1

LEMMA MdnsStep ==
  ASSUME MdnsInv, [MdnsNext]_mdnsVars
  PROVE  MdnsInv'
<1> USE DEF MdnsInv
<1>1. AddressOfItsNetwork <=>
        (responder.facts.addrs = truth.addrs => Local(heard, truth.addrs))
  BY DEF AddressOfItsNetwork, Local
<1>2. AddressOfItsNetwork' <=>
        (responder'.facts.addrs = truth'.addrs => Local(heard', truth'.addrs))
  BY DEF AddressOfItsNetwork, Local, On
<1>3. heard' = {} => AddressOfItsNetwork'
  BY DEF AddressOfItsNetwork
<1>4. CASE PollMdns
  <2>1. PICK question \in {{}} \cup {{q} : q \in {q \in Questions : q.from \in responder.joined}} :
          LET spoke == Scheduled(Refreshed(responder))
              answered == IF question = {} THEN [m |-> spoke.m, packets |-> {}]
                          ELSE Handled(spoke.m, CHOOSE q \in question : TRUE)
          IN  responder' = answered.m /\ heard' = spoke.packets \cup answered.packets
    BY <1>4 DEF PollMdns
  <2> DEFINE spoke == Scheduled(Refreshed(responder))
             asked == CHOOSE q \in question : TRUE
             answered == IF question = {} THEN [m |-> spoke.m, packets |-> {}]
                         ELSE Handled(spoke.m, asked)
  <2>2. responder' = answered.m /\ heard' = spoke.packets \cup answered.packets /\ truth' = truth
    BY <1>4, <2>1 DEF PollMdns
  <2>3. PICK addrs \in Seq(Networks) : Knows(Refreshed(responder), addrs)
    BY RefreshedIs
  <2>4. Knows(spoke.m, addrs) /\ (addrs = truth.addrs => Local(spoke.packets, addrs))
    BY <2>3, ScheduledIs
  <2> HIDE DEF spoke, asked
  <2>5. Knows(answered.m, addrs) /\ (addrs = truth.addrs => Local(answered.packets, addrs))
    BY <2>4, HandledIs DEF Local
  <2> HIDE DEF answered
  <2>6. Knows(responder', addrs) /\ (addrs = truth.addrs => Local(heard', addrs))
    BY <2>2, <2>4, <2>5 DEF Local
  <2> QED
    BY <1>2, <2>2, <2>6 DEF Knows
<1>5. CASE CloseMdns
  <2>1. /\ heard' = Announcement(responder, "GOODBYE").packets
        /\ responder' = [responder EXCEPT !.fd = FALSE] /\ truth' = truth
    BY <1>5 DEF CloseMdns
  <2>2. DOMAIN responder' = ResponderFields /\ responder'.facts = responder.facts
    BY <2>1 DEF ResponderFields
  <2>3. responder.facts.addrs = truth.addrs => Local(heard', truth.addrs)
    BY <2>1, AnnouncementIs, MulticastIsLocal DEF Knows
  <2> QED
    BY <1>2, <2>1, <2>2, <2>3
<1>6. CASE FactsChange
  <2>1. truth' \in [free : FreeCounts, open : BOOLEAN, addrs : AddressLists]
        /\ heard' = {} /\ responder' = responder
    BY <1>6 DEF FactsChange
  <2>2. truth'.addrs \in Seq(Networks)
    BY <2>1, MdnsAssumption
  <2> QED
    BY <1>3, <2>1, <2>2
<1>7. CASE MdnsElapse
  <2>1. responder' = Older(responder) /\ heard' = {} /\ truth' = truth
    BY <1>7 DEF MdnsElapse
  <2>2. DOMAIN responder' = ResponderFields /\ responder'.facts = responder.facts
    BY <2>1 DEF Older, ResponderFields
  <2> QED
    BY <1>3, <2>1, <2>2
<1>8. CASE UNCHANGED mdnsVars
  BY <1>8 DEF mdnsVars, AddressOfItsNetwork, On
<1> QED
  BY <1>4, <1>5, <1>6, <1>7, <1>8 DEF MdnsNext

LEMMA MdnsInitially == ASSUME MdnsInit PROVE MdnsInv
<1>1. truth \in [free : FreeCounts, open : {FALSE}, addrs : AddressLists] /\ heard = {}
  BY DEF MdnsInit
<1>2. PICK state \in {"RUNNING", "DISABLED", "BIND_FAILED", "SOCKET_FAILED"} :
        responder = Opened(state)
  BY DEF MdnsInit
<1>3. truth.addrs \in Seq(Networks)
  BY <1>1, MdnsAssumption
<1>4. DOMAIN responder = ResponderFields /\ responder.facts.addrs = truth.addrs
  BY <1>2 DEF Opened, ResponderFields
<1> QED
  BY <1>1, <1>3, <1>4 DEF MdnsInv, AddressOfItsNetwork

\* As long as the addresses it has cached are the host's, the responder names to
\* each network the address on that network: announcements, answers, replies to
\* one asker and the last word alike, however many interfaces there are
\* (mdns_put_record, mdns_emit_multicast; mdns.h 466-499, 768-836).
THEOREM AddressesAreLocal == MdnsSpec => []AddressOfItsNetwork
<1>1. MdnsInit => MdnsInv
  BY MdnsInitially
<1>2. MdnsInv /\ [MdnsNext]_mdnsVars => MdnsInv'
  BY MdnsStep
<1>3. MdnsInv => AddressOfItsNetwork
  BY DEF MdnsInv
<1> QED
  BY <1>1, <1>2, <1>3, PTL DEF MdnsSpec

-----------------------------------------------------------------------------
(* The responder amplifies nothing.                                         *)

Indices == 1..Cardinality(Networks)
EarsFields == {"quiet", "settled", "drawn", "told", "untold"}

\* What the bucket would hold if it were refilled now.
Least(a, b) == IF a <= b THEN a ELSE b
Filled(m) == Least(m.tokens + m.refill_age * UnicastRate, UnicastBurst)

AmpType ==
  /\ DOMAIN responder = ResponderFields /\ DOMAIN ears = EarsFields
  /\ truth.addrs \in AddressLists /\ responder.facts.addrs \in AddressLists
  /\ responder.tokens \in Nat /\ responder.refill_age \in 0..Refilled
  /\ responder.mcast \in [Indices -> 0..Longest]
  /\ ears.quiet \in [Networks -> 0..Longest]
  /\ ears.settled \in 0..Longest /\ ears.drawn \in Nat

\* What was drawn and what is left never exceed the burst; a network has been
\* quiet as long as its index has waited, or as the addresses are settled.
AmpInv ==
  /\ AmpType
  /\ ears.drawn + Filled(responder) <= UnicastBurst
  /\ ears.settled > 0 =>
       /\ responder.facts.addrs = truth.addrs
       /\ \A k \in DOMAIN truth.addrs :
            \/ ears.quiet[truth.addrs[k]] >= responder.mcast[k]
            \/ ears.quiet[truth.addrs[k]] >= ears.settled

LEMMA Bounds ==
  /\ Longest \in Nat /\ Longest > 0 /\ Never \in Nat
  /\ UnicastBurst \in Nat /\ UnicastRate \in Nat /\ UnicastRate > 0
  /\ Cardinality(Networks) \in Nat
BY MdnsAssumption, FS_CardinalityType DEF Longest, Never

\* Every address list fits the responder's array.
LEMMA ListsFit ==
  ASSUME NEW list \in AddressLists
  PROVE  DOMAIN list \subseteq Indices /\ DOMAIN list = 1..Len(list) /\ Len(list) \in Nat
<1>1. list \in [1..Len(list) -> Networks] /\ Len(list) \in Nat
  BY MdnsAssumption
<1>2. list \in Injection(1..Len(list), Networks)
  BY <1>1, MdnsAssumption DEF Injection, IsInjective
<1>3. Cardinality(1..Len(list)) <= Cardinality(Networks)
  BY <1>2, FS_Injection, MdnsAssumption
<1>4. Cardinality(1..Len(list)) = Len(list)
  <2>1. 1 \in Int /\ Len(list) \in Int
    BY <1>1
  <2>2. Cardinality(1..Len(list)) = IF 1 > Len(list) THEN 0 ELSE Len(list) - 1 + 1
    BY <2>1, FS_Interval
  <2> QED
    BY <1>1, <2>2
<1> QED
  BY <1>1, <1>3, <1>4, Bounds DEF Indices

\* What a step of the responder from m to next says on all networks: an answer
\* only where the index had waited, and the wait of that index starts again.
Speaks(m, next, packets) ==
  /\ DOMAIN next = ResponderFields /\ next.facts = m.facts
  /\ next.mcast \in [Indices -> 0..Longest]
  /\ \A k \in Indices : next.mcast[k] = 0 \/ next.mcast[k] = m.mcast[k]
  /\ m.facts.addrs = truth.addrs =>
       \A p \in packets : p.by # "UNICAST" /\ p.on \in Networks =>
         \E k \in DOMAIN truth.addrs :
           /\ p.on = truth.addrs[k] /\ next.mcast[k] = 0
           /\ p.by = "ANSWER" => m.mcast[k] = Longest

Speaking(m) ==
  /\ DOMAIN m = ResponderFields /\ m.mcast \in [Indices -> 0..Longest]
  /\ m.facts.addrs \in AddressLists /\ truth.addrs \in AddressLists

LEMMA PacketIs ==
  ASSUME NEW m, NEW records, NEW kind, NEW by, NEW index, NEW on,
         NEW p \in Packet(m, records, kind, by, index, on)
  PROVE  p.on = on /\ p.by = by
BY DEF Packet

LEMMA MulticastSpeaks ==
  ASSUME NEW m, Speaking(m), NEW records, NEW kind, NEW by \in {"ANNOUNCEMENT", "ANSWER"}, NEW only
  PROVE  LET said == Multicast(m, records, kind, by, only)
         IN  /\ Speaks(m, said.m, said.packets)
             /\ said.m.tokens = m.tokens /\ said.m.refill_age = m.refill_age
             /\ \A p \in said.packets : p.by = by
<1> DEFINE addrs == truth.addrs
           chosen == Picked(m, only, by = "ANSWER")
           said == Multicast(m, records, kind, by, only)
           packets == said.packets
<1>1. /\ chosen \subseteq DOMAIN m.facts.addrs
      /\ by = "ANSWER" => \A k \in chosen : m.mcast[k] = Longest
  BY DEF Picked, Waited
<1>2. packets = IF m.facts.addrs = << >>
                  THEN Packet(m, records, kind, by, 0, Leaving(m.out_if))
                  ELSE UNION {Packet(m, records, kind, by, k,
                                Leaving(Pointed(m, {j \in chosen : j <= k}))) : k \in chosen}
  BY DEF Multicast
<1>3. said.m = [m EXCEPT !.out_if = Pointed(m, chosen),
                         !.mcast = [k \in DOMAIN @ |-> IF k \in chosen THEN 0 ELSE @[k]]]
  BY DEF Multicast
<1>4. m.mcast \in [Indices -> 0..Longest] /\ DOMAIN m = ResponderFields /\ Longest \in Nat
  BY Bounds DEF Speaking
<1> HIDE DEF chosen, said, packets
<1>5. said.m.mcast = [k \in Indices |-> IF k \in chosen THEN 0 ELSE m.mcast[k]]
  BY <1>3, <1>4 DEF ResponderFields
<1>6. /\ DOMAIN said.m = ResponderFields /\ said.m.facts = m.facts
      /\ said.m.tokens = m.tokens /\ said.m.refill_age = m.refill_age
  BY <1>3, <1>4 DEF ResponderFields
<1>7. /\ said.m.mcast \in [Indices -> 0..Longest]
      /\ \A k \in Indices : said.m.mcast[k] = 0 \/ said.m.mcast[k] = m.mcast[k]
      /\ \A k \in chosen \cap Indices : said.m.mcast[k] = 0
  BY <1>4, <1>5
<1>8. ASSUME NEW p \in packets PROVE p.by = by
  <2>1. CASE m.facts.addrs = << >>
    BY <1>2, <2>1, PacketIs
  <2>2. CASE m.facts.addrs # << >>
    <3>1. PICK k \in chosen :
            p \in Packet(m, records, kind, by, k, Leaving(Pointed(m, {j \in chosen : j <= k})))
      BY <1>2, <2>2
    <3> QED
      BY <3>1, PacketIs
  <2> QED
    BY <2>1, <2>2
<1>9. ASSUME m.facts.addrs = addrs, NEW p \in packets, p.on \in Networks
      PROVE  \E k \in DOMAIN addrs :
               /\ p.on = addrs[k] /\ said.m.mcast[k] = 0
               /\ p.by = "ANSWER" => m.mcast[k] = Longest
  <2>1. addrs \in AddressLists /\ DOMAIN addrs \subseteq Indices /\ DOMAIN addrs = 1..Len(addrs)
        /\ addrs \in Seq(Networks)
    BY ListsFit, MdnsAssumption DEF Speaking
  <2>2. CASE addrs = << >>
    <3>1. On(truth.addrs) = {}
      BY <2>2 DEF On
    <3>2. Leaving(m.out_if) = Nowhere
      BY <2>2, <3>1 DEF Leaving
    <3>3. p.on = Nowhere
      BY <1>2, <1>9, <2>2, <3>2, PacketIs
    <3> QED
      BY <1>9, <3>3, MdnsAssumption
  <2>3. CASE addrs # << >>
    <3>1. PICK k \in chosen :
            p \in Packet(m, records, kind, by, k, Leaving(Pointed(m, {j \in chosen : j <= k})))
      BY <1>2, <1>9, <2>3
    <3>2. k \in DOMAIN addrs /\ k \in Indices
      BY <1>1, <1>9, <2>1, <3>1
    <3>3. Leaving(Pointed(m, {j \in chosen : j <= k})) = addrs[k]
      BY <1>1, <1>9, <2>1, PointedAt
    <3>4. p.on = addrs[k] /\ p.by = by
      BY <3>1, <3>3, PacketIs
    <3> QED
      BY <1>1, <1>7, <3>1, <3>2, <3>4
  <2> QED
    BY <2>2, <2>3
<1>10. Speaks(m, said.m, packets)
  BY <1>6, <1>7, <1>9 DEF Speaks
<1> QED
  BY <1>6, <1>8, <1>10 DEF said, packets

LEMMA AnnouncementSpeaks ==
  ASSUME NEW m, Speaking(m), NEW kind
  PROVE  LET said == Announcement(m, kind)
         IN  /\ Speaks(m, said.m, said.packets)
             /\ said.m.tokens = m.tokens /\ said.m.refill_age = m.refill_age
             /\ \A p \in said.packets : p.by = "ANNOUNCEMENT"
<1> DEFINE said == Multicast(m, {"PTR", "SRV", "TXT", "A"}, kind, "ANNOUNCEMENT", 0)
           result == Announcement(m, kind)
<1>1. /\ Speaks(m, said.m, said.packets)
      /\ said.m.tokens = m.tokens /\ said.m.refill_age = m.refill_age
      /\ \A p \in said.packets : p.by = "ANNOUNCEMENT"
  BY MulticastSpeaks
<1>2. DOMAIN said = {"m", "packets"}
  BY DEF Multicast
<1>3. result = [said EXCEPT !.m.ever = TRUE, !.m.since = 0]
  BY DEF Announcement
<1> HIDE DEF said, result
<1>4. result.packets = said.packets /\ result.m = [said.m EXCEPT !.ever = TRUE, !.since = 0]
  BY <1>2, <1>3
<1>5. /\ DOMAIN result.m = ResponderFields /\ result.m.facts = said.m.facts
      /\ result.m.mcast = said.m.mcast
      /\ result.m.tokens = m.tokens /\ result.m.refill_age = m.refill_age
  BY <1>1, <1>4 DEF Speaks, ResponderFields
<1>6. Speaks(m, result.m, result.packets)
  BY <1>1, <1>4, <1>5 DEF Speaks
<1> QED
  BY <1>1, <1>4, <1>5, <1>6 DEF result

LEMMA SilenceSpeaks == ASSUME NEW m, Speaking(m) PROVE Speaks(m, m, {})
BY DEF Speaking, Speaks

LEMMA ScheduledSpeaks ==
  ASSUME NEW m, Speaking(m)
  PROVE  LET said == Scheduled(m)
         IN  /\ Speaks(m, said.m, said.packets)
             /\ said.m.tokens = m.tokens /\ said.m.refill_age = m.refill_age
             /\ \A p \in said.packets : p.by = "ANNOUNCEMENT"
<1>1. CASE ~AnnounceDue(m)
  BY <1>1, SilenceSpeaks DEF Scheduled
<1>2. CASE AnnounceDue(m)
  <2> DEFINE said == Announcement(m, "ANSWER")
             result == Scheduled(m)
  <2>1. /\ Speaks(m, said.m, said.packets)
        /\ said.m.tokens = m.tokens /\ said.m.refill_age = m.refill_age
        /\ \A p \in said.packets : p.by = "ANNOUNCEMENT"
    BY AnnouncementSpeaks
  <2>2. DOMAIN said = {"m", "packets"}
    BY DEF Announcement, Multicast
  <2>3. result = [said EXCEPT !.m.left = @ - 1, !.m.due = AnnounceGap]
    BY <1>2 DEF Scheduled
  <2> HIDE DEF said, result
  <2>4. result.packets = said.packets /\ result.m = [said.m EXCEPT !.left = @ - 1, !.due = AnnounceGap]
    BY <2>2, <2>3
  <2>5. /\ DOMAIN result.m = ResponderFields /\ result.m.facts = said.m.facts
        /\ result.m.mcast = said.m.mcast
        /\ result.m.tokens = m.tokens /\ result.m.refill_age = m.refill_age
    BY <2>1, <2>4 DEF Speaks, ResponderFields
  <2>6. Speaks(m, result.m, result.packets)
    BY <2>1, <2>4, <2>5 DEF Speaks
  <2> QED
    BY <2>1, <2>4, <2>5, <2>6 DEF result
<1> QED
  BY <1>1, <1>2

\* What a step of the responder from m to next takes out of the bucket.
Drawn(packets) == {p \in packets : p.by = "UNICAST"}
Draws(m, next, packets) ==
  /\ next.tokens \in Nat /\ next.refill_age \in 0..Refilled
  /\ Cardinality(Drawn(packets)) \in Nat
  /\ Cardinality(Drawn(packets)) + Filled(next) <= Filled(m)

Drawing(m) == m.tokens \in Nat /\ m.refill_age \in 0..Refilled

LEMMA RefillIsFinite == Refilled \in Nat
BY Bounds DEF Refilled

LEMMA NoneDrawn ==
  ASSUME NEW packets, \A p \in packets : p.by # "UNICAST"
  PROVE  Cardinality(Drawn(packets)) = 0
<1>1. Drawn(packets) = {}
  BY DEF Drawn
<1> QED
  BY <1>1, FS_EmptySet

LEMMA FilledType == ASSUME NEW m, Drawing(m) PROVE Filled(m) \in 0..UnicastBurst
<1>1. m.refill_age * UnicastRate \in Nat
  BY Bounds DEF Drawing
<1> QED
  BY <1>1, Bounds DEF Filled, Least, Drawing

LEMMA UnicastDraws ==
  ASSUME NEW m, Speaking(m), Drawing(m), NEW records, NEW kind, NEW network
  PROVE  LET said == Unicast(m, records, kind, network)
         IN  Speaks(m, said.m, said.packets) /\ Draws(m, said.m, said.packets)
<1> DEFINE full == Bucket(m)
           result == Unicast(m, records, kind, network)
           sent == Packet(m, records, kind, "UNICAST", IndexOf(m, network), network)
           taken == [full EXCEPT !.tokens = @ - 1]
<1>1. full = [m EXCEPT !.tokens = Filled(m), !.refill_age = 0]
  <2>1. m.tokens + m.refill_age * UnicastRate \in Int
    BY Bounds DEF Drawing
  <2>2. (IF m.tokens + m.refill_age * UnicastRate > UnicastBurst
           THEN UnicastBurst ELSE m.tokens + m.refill_age * UnicastRate) = Filled(m)
    BY <2>1, Bounds DEF Filled, Least
  <2> QED
    BY <2>2 DEF Bucket
<1>2. /\ DOMAIN full = ResponderFields /\ full.facts = m.facts /\ full.mcast = m.mcast
      /\ full.tokens = Filled(m) /\ full.refill_age = 0
  BY <1>1 DEF Speaking, ResponderFields
<1>3. /\ DOMAIN taken = ResponderFields /\ taken.facts = m.facts /\ taken.mcast = m.mcast
      /\ taken.tokens = Filled(m) - 1 /\ taken.refill_age = 0
  BY <1>2 DEF ResponderFields
<1>4. Filled(m) \in 0..UnicastBurst
  BY FilledType
<1>5. Filled(full) = Filled(m) /\ (Filled(m) # 0 => Filled(taken) = Filled(m) - 1)
  <2>1. full.tokens + full.refill_age * UnicastRate = Filled(m)
    BY <1>2, <1>4, Bounds
  <2>2. taken.tokens + taken.refill_age * UnicastRate = Filled(m) - 1
    BY <1>3, <1>4, Bounds
  <2>3. Filled(full) = Least(Filled(m), UnicastBurst) /\ Filled(taken) = Least(Filled(m) - 1, UnicastBurst)
    BY <2>1, <2>2 DEF Filled
  <2> QED
    BY <2>3, <1>4, Bounds DEF Least
<1>6. result = IF full.tokens = 0 THEN [m |-> full, packets |-> {}]
               ELSE [m |-> taken, packets |-> sent]
  BY DEF Unicast
<1>7. \A p, q \in sent : p = q /\ p.by = "UNICAST"
  BY DEF Packet
<1> HIDE DEF full, result, sent, taken
<1>8. CASE full.tokens = 0
  <2>1. result.m = full /\ result.packets = {}
    BY <1>6, <1>8
  <2>2. Cardinality(Drawn({})) = 0
    BY NoneDrawn
  <2>3. Speaks(m, full, {})
    BY <1>2, SilenceSpeaks DEF Speaks
  <2>4. Draws(m, full, {})
    BY <1>2, <1>4, <1>5, <2>2, RefillIsFinite DEF Draws
  <2> QED
    BY <2>1, <2>3, <2>4 DEF result
<1>9. CASE full.tokens # 0
  <2>1. result.m = taken /\ result.packets = sent /\ Filled(m) >= 1
    BY <1>2, <1>4, <1>6, <1>9
  <2>2. Drawn(sent) = sent /\ (sent = {} \/ \E p : sent = {p})
    BY <1>7 DEF Drawn
  <2>3. Cardinality(Drawn(sent)) \in {0, 1}
    BY <2>2, FS_EmptySet, FS_Singleton
  <2>4. Speaks(m, taken, sent)
    BY <1>3, <1>7 DEF Speaks, Speaking
  <2>5. Draws(m, taken, sent)
    BY <1>2, <1>3, <1>4, <1>5, <1>9, <2>1, <2>3, RefillIsFinite DEF Draws
  <2> QED
    BY <2>1, <2>4, <2>5 DEF result
<1> QED
  BY <1>8, <1>9

LEMMA HandledDraws ==
  ASSUME NEW m, Speaking(m), Drawing(m), NEW q
  PROVE  LET said == Handled(m, q)
         IN  Speaks(m, said.m, said.packets) /\ Draws(m, said.m, said.packets)
<1> DEFINE Fine(said) == Speaks(m, said.m, said.packets) /\ Draws(m, said.m, said.packets)
           shared == Multicast(m, Matched(q), "ANSWER", "ANSWER", IndexOf(m, q.from))
           none == [m |-> m, packets |-> {}]
<1>1. Filled(m) \in 0..UnicastBurst
  BY FilledType
<1>2. Fine(none)
  <2>1. Cardinality(Drawn({})) = 0
    BY NoneDrawn
  <2> QED
    BY <1>1, <2>1, SilenceSpeaks, Bounds DEF Draws, Drawing
<1>3. Fine(shared)
  <2>1. /\ Speaks(m, shared.m, shared.packets)
        /\ shared.m.tokens = m.tokens /\ shared.m.refill_age = m.refill_age
        /\ \A p \in shared.packets : p.by = "ANSWER"
    BY MulticastSpeaks
  <2> HIDE DEF shared
  <2>2. Cardinality(Drawn(shared.packets)) = 0
    BY <2>1, NoneDrawn
  <2>3. Filled(shared.m) = Filled(m)
    BY <2>1 DEF Filled
  <2> QED
    BY <1>1, <2>1, <2>2, <2>3, Bounds DEF Draws, Drawing
<1>4. \A kind : Fine(Unicast(m, Matched(q), kind, q.from))
  BY UnicastDraws
<1>5. \/ Handled(m, q) = none \/ Handled(m, q) = shared
      \/ \E kind : Handled(m, q) = Unicast(m, Matched(q), kind, q.from)
  <2> HIDE DEF none, shared
  <2>1. CASE Matched(q) = {}
    BY <2>1 DEF Handled, none
  <2>2. CASE Matched(q) # {} /\ q.legacy
    BY <2>2 DEF Handled
  <2>3. CASE Matched(q) # {} /\ ~q.legacy /\ q.unicast
    BY <2>3 DEF Handled
  <2>4. CASE Matched(q) # {} /\ ~q.legacy /\ ~q.unicast
    BY <2>4 DEF Handled, shared
  <2> QED
    BY <2>1, <2>2, <2>3, <2>4
<1> HIDE DEF none, shared, Fine
<1>6. Fine(Handled(m, q))
  BY <1>2, <1>3, <1>4, <1>5
<1> QED
  BY <1>6 DEF Fine

LEMMA RefreshedKeeps ==
  ASSUME NEW m, Speaking(m), Drawing(m)
  PROVE  LET next == Refreshed(m)
         IN  /\ Speaking(next) /\ Drawing(next) /\ Filled(next) = Filled(m)
             /\ next.mcast = m.mcast
             /\ m.facts.addrs = truth.addrs => next.facts.addrs = truth.addrs
<1>1. /\ DOMAIN Refreshed(m) = ResponderFields /\ Refreshed(m).mcast = m.mcast
      /\ Refreshed(m).tokens = m.tokens /\ Refreshed(m).refill_age = m.refill_age
      /\ Refreshed(m).facts \in {m.facts, truth}
  BY DEF Refreshed, Speaking, ResponderFields
<1> QED
  BY <1>1 DEF Speaking, Drawing, Filled

LEMMA OverheardIs ==
  ASSUME NEW m, NEW packets, DOMAIN ears = EarsFields,
         ears' = Overheard(m, packets)
  PROVE  /\ DOMAIN ears' = EarsFields /\ ears'.settled = ears.settled
         /\ ears'.quiet = [n \in Networks |->
              IF \E p \in packets : p.on = n /\ p.by # "UNICAST" THEN 0 ELSE ears.quiet[n]]
         /\ ears'.drawn = ears.drawn + Cardinality(Drawn(packets))
BY DEF Overheard, EarsFields, Drawn

\* An answer is multicast only on a network that has been quiet for a second.
QuietFirst ==
  \A p \in heard' :
    p.by = "ANSWER" /\ p.on \in Networks /\ ears.settled = Longest
      => ears.quiet[p.on] = Longest

LEMMA PollAmp ==
  ASSUME AmpInv, PollMdns
  PROVE  AmpInv' /\ QuietFirst
<1> DEFINE m0 == Refreshed(responder)
           spoke == Scheduled(m0)
<1>1. PICK question \in {{}} \cup {{q} : q \in {q \in Questions : q.from \in responder.joined}} :
        LET answered == IF question = {} THEN [m |-> spoke.m, packets |-> {}]
                        ELSE Handled(spoke.m, CHOOSE q \in question : TRUE)
            packets == spoke.packets \cup answered.packets
        IN  /\ responder' = answered.m /\ heard' = packets
            /\ ears' = Overheard(spoke.m, packets)
  BY DEF PollMdns
<1> DEFINE answered == IF question = {} THEN [m |-> spoke.m, packets |-> {}]
                       ELSE Handled(spoke.m, CHOOSE q \in question : TRUE)
           packets == spoke.packets \cup answered.packets
<1>2. truth' = truth
  BY DEF PollMdns
<1>3. Speaking(responder) /\ Drawing(responder)
  BY DEF AmpInv, AmpType, Speaking, Drawing
<1>4. /\ Speaking(m0) /\ Drawing(m0) /\ Filled(m0) = Filled(responder)
      /\ m0.mcast = responder.mcast
      /\ responder.facts.addrs = truth.addrs => m0.facts.addrs = truth.addrs
  BY <1>3, RefreshedKeeps
<1> HIDE DEF m0
<1>5. /\ Speaks(m0, spoke.m, spoke.packets)
      /\ spoke.m.tokens = m0.tokens /\ spoke.m.refill_age = m0.refill_age
      /\ \A p \in spoke.packets : p.by = "ANNOUNCEMENT"
  BY <1>4, ScheduledSpeaks
<1> HIDE DEF spoke
<1>6. /\ Speaking(spoke.m) /\ Drawing(spoke.m) /\ Filled(spoke.m) = Filled(responder)
      /\ spoke.m.facts = m0.facts
  BY <1>4, <1>5 DEF Speaks, Speaking, Drawing, Filled
<1>7. Speaks(spoke.m, answered.m, answered.packets) /\ Draws(spoke.m, answered.m, answered.packets)
  <2>1. CASE question = {}
    <3>1. answered.m = spoke.m /\ answered.packets = {}
      BY <2>1
    <3>2. Cardinality(Drawn({})) = 0
      BY NoneDrawn
    <3>3. Filled(spoke.m) \in 0..UnicastBurst
      BY <1>6, FilledType
    <3>4. Draws(spoke.m, spoke.m, {})
      BY <1>6, <3>2, <3>3, Bounds DEF Draws, Drawing
    <3> QED
      BY <1>6, <3>1, <3>4, SilenceSpeaks
  <2>2. CASE question # {}
    BY <1>6, <2>2, HandledDraws
  <2> QED
    BY <2>1, <2>2
<1>8. responder' = answered.m /\ heard' = packets /\ ears' = Overheard(spoke.m, packets)
  BY <1>1
<1> HIDE DEF answered
<1>9. Drawn(packets) = Drawn(answered.packets)
  BY <1>5 DEF Drawn
<1>10. /\ DOMAIN ears' = EarsFields /\ ears'.settled = ears.settled
       /\ ears'.quiet = [n \in Networks |->
            IF \E p \in packets : p.on = n /\ p.by # "UNICAST" THEN 0 ELSE ears.quiet[n]]
       /\ ears'.drawn = ears.drawn + Cardinality(Drawn(answered.packets))
  <2>1. DOMAIN ears = EarsFields
    BY DEF AmpInv, AmpType
  <2> HIDE DEF packets
  <2> QED
    BY <1>8, <1>9, <2>1, OverheardIs
<1>11. Filled(responder') + Cardinality(Drawn(answered.packets)) <= Filled(responder)
       /\ Filled(responder) \in Nat /\ Filled(responder') \in Nat
       /\ Cardinality(Drawn(answered.packets)) \in Nat
  <2>1. Drawing(responder')
    BY <1>7, <1>8 DEF Draws, Drawing
  <2>2. Filled(responder) \in 0..UnicastBurst /\ Filled(responder') \in 0..UnicastBurst
    BY <1>3, <2>1, FilledType
  <2> QED
    BY <1>6, <1>7, <1>8, <2>2, Bounds DEF Draws
<1>12. ears'.drawn \in Nat /\ ears'.drawn + Filled(responder') <= UnicastBurst
  BY <1>10, <1>11, Bounds DEF AmpInv, AmpType
<1>13. AmpType'
  <2>1. /\ DOMAIN responder' = ResponderFields /\ responder'.facts = m0.facts
        /\ responder'.mcast \in [Indices -> 0..Longest]
        /\ responder'.tokens \in Nat /\ responder'.refill_age \in 0..Refilled
    BY <1>6, <1>7, <1>8 DEF Speaks, Draws
  <2>2. ears'.quiet \in [Networks -> 0..Longest]
    BY <1>10, Bounds DEF AmpInv, AmpType
  <2>3. m0.facts.addrs \in AddressLists /\ truth.addrs \in AddressLists
    BY <1>4 DEF Speaking
  <2> QED
    BY <1>2, <1>10, <1>12, <2>1, <2>2, <2>3 DEF AmpInv, AmpType
<1>14. ASSUME ears.settled > 0
       PROVE  /\ m0.facts.addrs = truth.addrs /\ spoke.m.facts.addrs = truth.addrs
              /\ responder'.facts.addrs = truth.addrs
  BY <1>4, <1>6, <1>7, <1>8, <1>14 DEF AmpInv, Speaks
<1>15. ASSUME ears.settled > 0, NEW p \in packets, p.by # "UNICAST", p.on \in Networks
       PROVE  \E k \in DOMAIN truth.addrs :
                /\ p.on = truth.addrs[k] /\ responder'.mcast[k] = 0
                /\ p.by = "ANSWER" => responder.mcast[k] = Longest
  <2>1. DOMAIN truth.addrs \subseteq Indices
    BY ListsFit DEF AmpInv, AmpType
  <2>2. CASE p \in spoke.packets
    <3>1. PICK k \in DOMAIN truth.addrs : p.on = truth.addrs[k] /\ spoke.m.mcast[k] = 0
      BY <1>5, <1>14, <1>15, <2>2 DEF Speaks
    <3>2. answered.m.mcast[k] = 0 \/ answered.m.mcast[k] = spoke.m.mcast[k]
      BY <1>7, <2>1 DEF Speaks
    <3> QED
      BY <1>5, <1>8, <2>2, <3>1, <3>2
  <2>3. CASE p \in answered.packets
    <3>1. PICK k \in DOMAIN truth.addrs :
            /\ p.on = truth.addrs[k] /\ answered.m.mcast[k] = 0
            /\ p.by = "ANSWER" => spoke.m.mcast[k] = Longest
      BY <1>7, <1>14, <1>15, <2>3 DEF Speaks
    <3>2. spoke.m.mcast[k] = 0 \/ spoke.m.mcast[k] = responder.mcast[k]
      BY <1>4, <1>5, <2>1 DEF Speaks
    <3> QED
      BY <1>8, <3>1, <3>2, Bounds
  <2> QED
    BY <1>15, <2>2, <2>3
<1>16. QuietFirst
  <2> SUFFICES ASSUME NEW p \in heard', p.by = "ANSWER", p.on \in Networks, ears.settled = Longest
               PROVE  ears.quiet[p.on] = Longest
    BY DEF QuietFirst
  <2>1. PICK k \in DOMAIN truth.addrs : p.on = truth.addrs[k] /\ responder.mcast[k] = Longest
    BY <1>8, <1>15, Bounds
  <2>2. ears.quiet[p.on] >= Longest
    BY <2>1, Bounds DEF AmpInv
  <2> QED
    BY <2>2, Bounds DEF AmpInv, AmpType
<1>17. ASSUME ears.settled > 0, NEW k \in DOMAIN truth.addrs
       PROVE  \/ ears'.quiet[truth.addrs[k]] >= responder'.mcast[k]
              \/ ears'.quiet[truth.addrs[k]] >= ears.settled
  <2> DEFINE n == truth.addrs[k]
  <2>1. truth.addrs \in AddressLists /\ truth.addrs \in Seq(Networks) /\ n \in Networks
        /\ DOMAIN truth.addrs \subseteq Indices
    <3>1. truth.addrs \in AddressLists
      BY DEF AmpInv, AmpType
    <3> QED
      BY <3>1, ListsFit, MdnsAssumption
  <2>2. k \in Indices /\ responder.mcast[k] \in 0..Longest /\ responder'.mcast[k] \in 0..Longest
        /\ ears.quiet[n] \in 0..Longest /\ ears.settled \in 0..Longest
    BY <1>7, <1>8, <2>1 DEF AmpInv, AmpType, Speaks
  <2>3. responder'.mcast[k] = 0 \/ responder'.mcast[k] = responder.mcast[k]
    BY <1>4, <1>5, <1>7, <1>8, <2>2 DEF Speaks
  <2>4. CASE \E p \in packets : p.on = n /\ p.by # "UNICAST"
    <3>1. PICK p \in packets : p.on = n /\ p.by # "UNICAST"
      BY <2>4
    <3>2. PICK j \in DOMAIN truth.addrs : p.on = truth.addrs[j] /\ responder'.mcast[j] = 0
      BY <1>15, <1>17, <2>1, <3>1
    <3>3. j = k
      BY <2>1, <3>1, <3>2, MdnsAssumption
    <3>4. ears'.quiet[n] = 0
      BY <1>10, <2>1, <2>4
    <3> QED
      BY <3>2, <3>3, <3>4
  <2>5. CASE ~\E p \in packets : p.on = n /\ p.by # "UNICAST"
    <3>1. ears'.quiet[n] = ears.quiet[n]
      BY <1>10, <2>1, <2>5
    <3>2. ears.quiet[n] >= responder.mcast[k] \/ ears.quiet[n] >= ears.settled
      BY <1>17 DEF AmpInv
    <3> QED
      BY <2>2, <2>3, <3>1, <3>2, Bounds
  <2> QED
    BY <2>4, <2>5
<1> QED
  BY <1>2, <1>10, <1>12, <1>13, <1>14, <1>16, <1>17 DEF AmpInv

LEMMA CloseAmp ==
  ASSUME AmpInv, CloseMdns
  PROVE  AmpInv' /\ QuietFirst
<1>1. /\ heard' = Announcement(responder, "GOODBYE").packets
      /\ responder' = [responder EXCEPT !.fd = FALSE]
      /\ truth' = truth /\ ears' = ears
  BY DEF CloseMdns
<1>2. DOMAIN responder = ResponderFields /\ Speaking(responder)
  BY DEF AmpInv, AmpType, Speaking
<1>3. \A p \in heard' : p.by = "ANNOUNCEMENT"
  BY <1>1, <1>2, AnnouncementSpeaks
<1>4. /\ DOMAIN responder' = ResponderFields /\ responder'.facts = responder.facts
      /\ responder'.mcast = responder.mcast
      /\ responder'.tokens = responder.tokens /\ responder'.refill_age = responder.refill_age
  BY <1>1, <1>2 DEF ResponderFields
<1>5. Filled(responder') = Filled(responder)
  BY <1>4 DEF Filled
<1>6. AmpInv'
  BY <1>1, <1>4, <1>5 DEF AmpInv, AmpType
<1> QED
  BY <1>3, <1>6 DEF QuietFirst

LEMMA ChangeAmp ==
  ASSUME AmpInv, FactsChange
  PROVE  AmpInv' /\ QuietFirst
<1>1. /\ truth' \in [free : FreeCounts, open : BOOLEAN, addrs : AddressLists]
      /\ heard' = {} /\ responder' = responder
      /\ ears' = [ears EXCEPT !.settled = IF truth'.addrs = truth.addrs THEN @ ELSE 0]
  BY DEF FactsChange
<1>2. /\ DOMAIN ears' = EarsFields /\ ears'.quiet = ears.quiet /\ ears'.drawn = ears.drawn
      /\ ears'.settled = IF truth'.addrs = truth.addrs THEN ears.settled ELSE 0
  BY <1>1 DEF AmpInv, AmpType, EarsFields
<1>3. truth'.addrs \in AddressLists
  BY <1>1
<1>4. Filled(responder') = Filled(responder)
  BY <1>1 DEF Filled
<1>5. AmpType'
  BY <1>1, <1>2, <1>3, Bounds DEF AmpInv, AmpType
<1>6. ears'.settled > 0 => truth'.addrs = truth.addrs /\ ears'.settled = ears.settled
  BY <1>2
<1>7. AmpInv'
  BY <1>1, <1>2, <1>4, <1>5, <1>6 DEF AmpInv
<1> QED
  BY <1>1, <1>7 DEF QuietFirst

LEMMA GrownIs ==
  ASSUME NEW top \in Nat, NEW age \in 0..top
  PROVE  /\ Grown(age, top) \in 0..top /\ Grown(age, top) >= age
         /\ top > 0 => Grown(age, top) >= 1
         /\ \A young \in 0..age : Grown(young, top) <= Grown(age, top)
BY DEF Grown

\* A tick puts no more than the rate into the bucket.
LEMMA RefillIsSlow ==
  ASSUME NEW m, Drawing(m), DOMAIN m = ResponderFields
  PROVE  LET old == Older(m)
         IN  Drawing(old) /\ Filled(old) <= Filled(m) + UnicastRate
<1> DEFINE old == Older(m)
           a == m.refill_age
           b == old.refill_age
<1>1. old.tokens = m.tokens /\ b = Grown(a, Refilled)
  BY DEF Older, ResponderFields
<1>2. a \in 0..Refilled /\ m.tokens \in Nat
  BY DEF Drawing
<1>3. b \in 0..Refilled /\ b \in {a, a + 1}
  BY <1>1, <1>2, RefillIsFinite, GrownIs DEF Grown
<1>4. Drawing(old)
  BY <1>1, <1>2, <1>3 DEF Drawing
<1> HIDE DEF old
<1>5. a * UnicastRate \in Nat /\ b * UnicastRate \in Nat
      /\ b * UnicastRate <= a * UnicastRate + UnicastRate
  <2>1. (a + 1) * UnicastRate = a * UnicastRate + UnicastRate
    BY <1>2, Bounds
  <2>2. a * UnicastRate \in Nat /\ b * UnicastRate \in Nat
    BY <1>2, <1>3, Bounds
  <2> QED
    BY <1>3, <2>1, <2>2, Bounds
<1>6. Filled(old) <= Filled(m) + UnicastRate
  <2> DEFINE x == a * UnicastRate
             y == b * UnicastRate
  <2>1. Filled(m) = Least(m.tokens + x, UnicastBurst)
        /\ Filled(old) = Least(m.tokens + y, UnicastBurst)
    BY <1>1 DEF Filled
  <2>2. x \in Nat /\ y \in Nat /\ y <= x + UnicastRate
    BY <1>5
  <2> HIDE DEF x, y
  <2> QED
    BY <1>2, <2>1, <2>2, Bounds DEF Least
<1> QED
  BY <1>4, <1>6 DEF old

LEMMA ElapseAmp ==
  ASSUME AmpInv, MdnsElapse
  PROVE  AmpInv' /\ QuietFirst
<1>1. /\ responder' = Older(responder) /\ heard' = {} /\ truth' = truth
      /\ ears' = [ears EXCEPT
           !.quiet = [n \in Networks |-> Grown(@[n], Longest)],
           !.settled = IF responder.facts.addrs = truth.addrs THEN Grown(@, Longest) ELSE 0,
           !.drawn = IF @ > UnicastRate THEN @ - UnicastRate ELSE 0,
           !.untold = IF Running(responder) /\ ears.told # truth
                        THEN Grown(@, Longest + FactsPoll + 1) ELSE 0]
  BY DEF MdnsElapse
<1>2. /\ DOMAIN responder = ResponderFields /\ Drawing(responder)
      /\ responder.mcast \in [Indices -> 0..Longest]
      /\ DOMAIN ears = EarsFields /\ ears.quiet \in [Networks -> 0..Longest]
      /\ ears.settled \in 0..Longest /\ ears.drawn \in Nat
      /\ truth.addrs \in AddressLists
  BY DEF AmpInv, AmpType, Drawing
<1>3. /\ DOMAIN responder' = ResponderFields /\ responder'.facts = responder.facts
      /\ responder'.mcast = [k \in Indices |-> Grown(responder.mcast[k], Longest)]
  BY <1>1, <1>2 DEF Older, ResponderFields
<1>4. /\ DOMAIN ears' = EarsFields
      /\ ears'.quiet = [n \in Networks |-> Grown(ears.quiet[n], Longest)]
      /\ ears'.settled = IF responder.facts.addrs = truth.addrs
                           THEN Grown(ears.settled, Longest) ELSE 0
      /\ ears'.drawn = IF ears.drawn > UnicastRate THEN ears.drawn - UnicastRate ELSE 0
  BY <1>1, <1>2 DEF EarsFields
<1>5. Drawing(responder') /\ Filled(responder') <= Filled(responder) + UnicastRate
  BY <1>1, <1>2, RefillIsSlow
<1>6. ears'.drawn \in Nat /\ ears'.drawn + Filled(responder') <= UnicastBurst
  <2>1. Filled(responder) \in 0..UnicastBurst /\ Filled(responder') \in 0..UnicastBurst
    BY <1>2, <1>5, FilledType
  <2>2. ears.drawn + Filled(responder) <= UnicastBurst
    BY DEF AmpInv
  <2> QED
    BY <1>2, <1>4, <1>5, <2>1, <2>2, Bounds
<1>7. AmpType'
  <2>1. \A age \in 0..Longest : Grown(age, Longest) \in 0..Longest
    BY Bounds, GrownIs
  <2>2. responder'.mcast \in [Indices -> 0..Longest] /\ ears'.quiet \in [Networks -> 0..Longest]
    BY <1>2, <1>3, <1>4, <2>1
  <2>3. ears'.settled \in 0..Longest
    BY <1>2, <1>4, <2>1, Bounds
  <2> QED
    BY <1>1, <1>3, <1>4, <1>5, <1>6, <2>2, <2>3 DEF AmpInv, AmpType, Drawing
<1>8. ASSUME ears'.settled > 0
      PROVE  responder'.facts.addrs = truth.addrs /\ ears'.settled = Grown(ears.settled, Longest)
  BY <1>3, <1>4, <1>8
<1>9. ASSUME ears'.settled > 0, NEW k \in DOMAIN truth.addrs
      PROVE  \/ ears'.quiet[truth.addrs[k]] >= responder'.mcast[k]
             \/ ears'.quiet[truth.addrs[k]] >= ears'.settled
  <2> DEFINE quiet == ears.quiet[truth.addrs[k]]
             wait == responder.mcast[k]
  <2>1. k \in Indices /\ truth.addrs[k] \in Networks
    BY <1>2, ListsFit, MdnsAssumption
  <2>2. quiet \in 0..Longest /\ wait \in 0..Longest /\ ears.settled \in 0..Longest
    BY <1>2, <2>1
  <2>3. /\ ears'.quiet[truth.addrs[k]] = Grown(quiet, Longest)
        /\ responder'.mcast[k] = Grown(wait, Longest)
        /\ ears'.settled = Grown(ears.settled, Longest)
    BY <1>3, <1>4, <1>8, <1>9, <2>1
  <2>4. quiet >= wait \/ quiet >= ears.settled
    <3>1. CASE ears.settled > 0
      BY <3>1 DEF AmpInv
    <3>2. CASE ears.settled = 0
      BY <2>2, <3>2
    <3> QED
      BY <2>2, <3>1, <3>2
  <2> HIDE DEF quiet, wait
  <2>5. \A x, y \in 0..Longest : x >= y => Grown(x, Longest) >= Grown(y, Longest)
    BY Bounds DEF Grown
  <2> QED
    BY <2>2, <2>3, <2>4, <2>5 DEF quiet
<1>10. AmpInv'
  BY <1>1, <1>6, <1>7, <1>8, <1>9 DEF AmpInv
<1> QED
  BY <1>1, <1>10 DEF QuietFirst

LEMMA AmpInitially == ASSUME MdnsInit PROVE AmpInv
<1>1. /\ truth \in [free : FreeCounts, open : {FALSE}, addrs : AddressLists]
      /\ ears = [quiet |-> [n \in Networks |-> Longest], settled |-> Longest,
                 drawn |-> 0, told |-> truth, untold |-> 0]
  BY DEF MdnsInit
<1>2. PICK state \in {"RUNNING", "DISABLED", "BIND_FAILED", "SOCKET_FAILED"} :
        responder = Opened(state)
  BY DEF MdnsInit
<1>3. /\ DOMAIN responder = ResponderFields /\ responder.facts.addrs = truth.addrs
      /\ responder.mcast = [k \in Indices |-> Longest]
      /\ responder.tokens = UnicastBurst /\ responder.refill_age = 0
  BY <1>2 DEF Opened, ResponderFields, Indices
<1>4. /\ DOMAIN ears = EarsFields /\ ears.quiet = [n \in Networks |-> Longest]
      /\ ears.settled = Longest /\ ears.drawn = 0 /\ truth.addrs \in AddressLists
  BY <1>1 DEF EarsFields
<1>5. AmpType
  BY <1>3, <1>4, Bounds, RefillIsFinite DEF AmpType
<1>6. Filled(responder) = UnicastBurst
  BY <1>3, Bounds DEF Filled, Least
<1>7. ASSUME NEW k \in DOMAIN truth.addrs
      PROVE  ears.quiet[truth.addrs[k]] >= responder.mcast[k]
  <2>1. k \in Indices /\ truth.addrs[k] \in Networks
    BY <1>4, ListsFit, MdnsAssumption
  <2> QED
    BY <1>3, <1>4, <2>1, Bounds
<1> QED
  BY <1>3, <1>4, <1>5, <1>6, <1>7, Bounds DEF AmpInv

LEMMA AmpStep ==
  ASSUME AmpInv, [MdnsNext]_mdnsVars
  PROVE  AmpInv' /\ [QuietFirst /\ ears'.drawn <= UnicastBurst]_mdnsVars
<1>1. ASSUME MdnsNext PROVE AmpInv' /\ QuietFirst
  BY <1>1, PollAmp, CloseAmp, ChangeAmp, ElapseAmp DEF MdnsNext
<1>2. ASSUME UNCHANGED mdnsVars PROVE AmpInv'
  <2>1. responder' = responder /\ ears' = ears /\ truth' = truth
    BY <1>2 DEF mdnsVars
  <2>2. Filled(responder') = Filled(responder)
    BY <2>1 DEF Filled
  <2> QED
    BY <2>1, <2>2 DEF AmpInv, AmpType
<1>3. AmpInv'
  BY <1>1, <1>2
<1>4. ears'.drawn <= UnicastBurst
  <2>1. Filled(responder') \in 0..UnicastBurst
    <3>1. Drawing(responder')
      BY <1>3 DEF AmpInv, AmpType, Drawing
    <3> QED
      BY <3>1, FilledType
  <2> QED
    BY <1>3, <2>1, Bounds DEF AmpInv, AmpType
<1> QED
  BY <1>1, <1>3, <1>4

\* However it is asked, however the facts change and however many networks there
\* are, no answer is multicast on a network that heard one less than a second
\* ago, unless the interfaces have just been renumbered, and the unicast replies
\* of every stretch of time stay within the bucket: what was drawn and what a
\* refill would leave add up to no more than the burst (mdns_emit_multicast,
\* mdns_unicast_allowed; mdns.h 768-836, 948-971).
THEOREM NothingIsAmplified == MdnsSpec => NoAmplifier
<1>1. MdnsInit => AmpInv
  BY AmpInitially
<1>2. AmpInv /\ [MdnsNext]_mdnsVars => AmpInv' /\ [QuietFirst /\ ears'.drawn <= UnicastBurst]_mdnsVars
  BY AmpStep
<1>3. [QuietFirst /\ ears'.drawn <= UnicastBurst]_mdnsVars
        => [ /\ \A p \in heard' :
                  p.by = "ANSWER" /\ p.on \in Networks /\ ears.settled = Longest
                    => ears.quiet[p.on] = Longest
             /\ ears'.drawn <= UnicastBurst ]_mdnsVars
  BY DEF QuietFirst
<1> QED
  BY <1>1, <1>2, <1>3, PTL DEF MdnsSpec, NoAmplifier

-----------------------------------------------------------------------------
(* The limiter of ERROR replies.                                            *)

Instants == 0..(ClockModulus - 1)
RateSlots ==
  [in_use : BOOLEAN, ip : Askers \cup {"none"}, ts : [0..(Limit - 1) -> Instants],
   count : 0..Limit, next : 0..(Limit - 1), last_seen : Instants]

\* The age of the send that is the jth from the latest.
Position(slot, j) == IF slot.next >= j THEN slot.next - j ELSE slot.next - j + Limit
AgeOf(at, slot, j) == TimeSince(at, slot.ts[Position(slot, j)])
Capped(age) == IF age < Window THEN age ELSE Window

\* An entry remembers its sends in their order, none later than the last call.
Ring(at, slot) ==
  /\ slot.ip \in Askers /\ slot.count \in 1..Limit
  /\ slot.count < Limit => slot.next = slot.count
  /\ \A j \in 1..slot.count : TimeSince(at, slot.last_seen) <= AgeOf(at, slot, j)
  /\ \A j, k \in 1..slot.count : j <= k => AgeOf(at, slot, j) <= AgeOf(at, slot, k)

LEMMA LimiterBounds ==
  /\ TrackSlots \in Nat /\ TrackSlots >= 1 /\ Limit \in Nat /\ Limit >= 2
  /\ Window \in Nat /\ Window >= 1 /\ ClockModulus \in Nat /\ ClockModulus >= 1
BY ErrorLimiterAssumption

LEMMA TimeSinceIs ==
  ASSUME NEW at \in Instants, NEW then \in Instants
  PROVE  /\ TimeSince(at, then) \in Instants /\ TimeSince(at, at) = 0
         /\ TimeSince(at, then) + 1 < ClockModulus =>
              LET later == IF at + 1 = ClockModulus THEN 0 ELSE at + 1
              IN  later \in Instants /\ TimeSince(later, then) = TimeSince(at, then) + 1
BY LimiterBounds DEF Instants, TimeSince

LEMMA PositionIs ==
  ASSUME NEW slot \in RateSlots, NEW j \in 1..Limit
  PROVE  /\ Position(slot, j) \in 0..(Limit - 1)
         /\ j < Limit => Position(slot, j) # slot.next
         /\ Position(slot, Limit) = slot.next
BY LimiterBounds DEF RateSlots, Position

LEMMA AgeIs ==
  ASSUME NEW at \in Instants, NEW slot \in RateSlots, NEW j \in 1..Limit
  PROVE  /\ slot.ts[Position(slot, j)] \in Instants
         /\ AgeOf(at, slot, j) \in Instants
BY PositionIs, TimeSinceIs DEF RateSlots, AgeOf

LEMMA RoomIs ==
  ASSUME NEW slot \in RateSlots
  PROVE  HasRoom(slot) <=> slot.count < Limit \/ AgeOf(now, slot, Limit) >= Window
<1>1. Limit \in 1..Limit
  BY LimiterBounds
<1> QED
  BY <1>1, PositionIs DEF HasRoom, AgeOf

LEMMA StampedIs ==
  ASSUME NEW slot \in RateSlots, now \in Instants, Ring(now, slot)
  PROVE  LET new == Stamped(slot)
         IN  /\ new \in RateSlots /\ Ring(now, new)
             /\ new.in_use = slot.in_use /\ new.ip = slot.ip /\ new.last_seen = now
             /\ new.count = IF slot.count < Limit THEN slot.count + 1 ELSE Limit
             /\ AgeOf(now, new, 1) = 0
             /\ \A j \in 2..new.count : AgeOf(now, new, j) = AgeOf(now, slot, j - 1)
<1> DEFINE new == Stamped(slot)
<1>1. /\ DOMAIN slot = {"in_use", "ip", "ts", "count", "next", "last_seen"}
      /\ slot.next \in 0..(Limit - 1) /\ slot.ts \in [0..(Limit - 1) -> Instants]
      /\ slot.count \in 1..Limit /\ slot.ip \in Askers /\ slot.in_use \in BOOLEAN
      /\ slot.last_seen \in Instants
  BY DEF RateSlots, Ring
<1>2. /\ new = [slot EXCEPT !.ts = [slot.ts EXCEPT ![slot.next] = now],
                            !.next = IF slot.next + 1 = Limit THEN 0 ELSE slot.next + 1,
                            !.count = IF slot.count < Limit THEN slot.count + 1 ELSE slot.count,
                            !.last_seen = now]
  BY DEF Stamped
<1>3. /\ new.ts = [slot.ts EXCEPT ![slot.next] = now]
      /\ new.next = IF slot.next + 1 = Limit THEN 0 ELSE slot.next + 1
      /\ new.count = IF slot.count < Limit THEN slot.count + 1 ELSE Limit
      /\ new.last_seen = now /\ new.in_use = slot.in_use /\ new.ip = slot.ip
  BY <1>1, <1>2, LimiterBounds
<1>4. new \in RateSlots
  <2>1. /\ new.ts \in [0..(Limit - 1) -> Instants] /\ new.next \in 0..(Limit - 1)
        /\ new.count \in 0..Limit /\ new.last_seen \in Instants
        /\ new.in_use \in BOOLEAN /\ new.ip \in Askers
    BY <1>1, <1>3, LimiterBounds
  <2>2. new = [in_use |-> new.in_use, ip |-> new.ip, ts |-> new.ts, count |-> new.count,
               next |-> new.next, last_seen |-> new.last_seen]
    BY <1>1, <1>2
  <2> HIDE DEF new
  <2> QED
    BY <2>1, <2>2 DEF RateSlots
<1> HIDE DEF new
<1>5. Position(new, 1) = slot.next
  BY <1>1, <1>3, LimiterBounds DEF Position
<1>6. AgeOf(now, new, 1) = 0
  <2>1. new.ts[slot.next] = now
    BY <1>1, <1>3
  <2> QED
    BY <1>5, <2>1, TimeSinceIs DEF AgeOf
<1>7. ASSUME NEW j \in 2..new.count
      PROVE  j - 1 \in 1..slot.count /\ j - 1 \in 1..Limit
             /\ AgeOf(now, new, j) = AgeOf(now, slot, j - 1)
  <2>1. j - 1 \in 1..(Limit - 1) /\ j - 1 \in 1..slot.count /\ j - 1 \in 1..Limit /\ j \in Int
    BY <1>1, <1>3, LimiterBounds
  <2>2. Position(new, j) = Position(slot, j - 1)
    BY <1>1, <1>3, <2>1, LimiterBounds DEF Position
  <2>3. Position(slot, j - 1) \in 0..(Limit - 1) /\ Position(slot, j - 1) # slot.next
    BY <2>1, PositionIs, LimiterBounds
  <2>4. new.ts[Position(new, j)] = slot.ts[Position(slot, j - 1)]
    BY <1>1, <1>3, <2>2, <2>3
  <2> QED
    BY <2>1, <2>4 DEF AgeOf
<1>8. \A j \in 1..slot.count : AgeOf(now, slot, j) \in Nat
  <2>1. \A j \in 1..slot.count : j \in 1..Limit
    BY <1>1, LimiterBounds
  <2> QED
    BY <2>1, AgeIs, LimiterBounds DEF Instants
<1>9. Ring(now, new)
  <2>1. new.count \in 1..Limit /\ (new.count < Limit => new.next = new.count)
    BY <1>1, <1>3, LimiterBounds DEF Ring
  <2>2. TimeSince(now, new.last_seen) = 0
    BY <1>3, TimeSinceIs
  <2>3. \A j \in 1..new.count : AgeOf(now, new, j) \in Nat
    <3>1. \A j \in 1..new.count : j = 1 \/ j \in 2..new.count
      BY <2>1
    <3> QED
      BY <1>6, <1>7, <1>8, <3>1
  <2>4. ASSUME NEW j \in 1..new.count, NEW k \in 1..new.count, j <= k
        PROVE  AgeOf(now, new, j) <= AgeOf(now, new, k)
    <3>1. CASE j = 1
      BY <1>6, <2>3, <3>1
    <3>2. CASE j # 1
      <4>1. j \in 2..new.count /\ k \in 2..new.count /\ j - 1 <= k - 1
        BY <2>1, <2>4, <3>2
      <4>2. AgeOf(now, slot, j - 1) <= AgeOf(now, slot, k - 1)
        BY <1>7, <4>1 DEF Ring
      <4> QED
        BY <1>7, <4>1, <4>2
    <3> QED
      BY <3>1, <3>2
  <2> QED
    BY <1>1, <1>3, <2>1, <2>2, <2>3, <2>4 DEF Ring
<1> QED
  BY <1>3, <1>4, <1>6, <1>7, <1>9 DEF new

LEMMA FreshIs ==
  ASSUME now \in Instants, NEW ip \in Askers
  PROVE  LET new == Fresh(ip)
         IN  /\ new \in RateSlots /\ Ring(now, new)
             /\ new.in_use = TRUE /\ new.ip = ip /\ new.last_seen = now /\ new.count = 1
             /\ AgeOf(now, new, 1) = 0
<1> DEFINE new == Fresh(ip)
<1>1. new = [in_use |-> TRUE, ip |-> ip,
             ts |-> [i \in 0..(Limit - 1) |-> IF i = 0 THEN now ELSE 0],
             count |-> 1, next |-> 1, last_seen |-> now]
  <2>1. [[i \in 0..(Limit - 1) |-> 0] EXCEPT ![0] = now]
          = [i \in 0..(Limit - 1) |-> IF i = 0 THEN now ELSE 0]
    BY LimiterBounds
  <2>2. /\ DOMAIN Unused = {"in_use", "ip", "ts", "count", "next", "last_seen"}
        /\ Unused.ts = [i \in 0..(Limit - 1) |-> 0]
    BY DEF Unused
  <2>3. new = [Unused EXCEPT !.in_use = TRUE, !.ip = ip, !.last_seen = now,
                             !.ts = [Unused.ts EXCEPT ![0] = now], !.next = 1, !.count = 1]
    BY DEF Fresh
  <2> HIDE DEF new
  <2> QED
    BY <2>1, <2>2, <2>3
<1>2. new \in RateSlots
  BY <1>1, LimiterBounds DEF RateSlots, Instants
<1>3. /\ new.in_use = TRUE /\ new.ip = ip /\ new.last_seen = now /\ new.count = 1 /\ new.next = 1
      /\ new.ts[0] = now
  BY <1>1, LimiterBounds
<1> HIDE DEF new
<1>4. Position(new, 1) = 0
  BY <1>3 DEF Position
<1>5. AgeOf(now, new, 1) = 0 /\ TimeSince(now, new.last_seen) = 0
  BY <1>3, <1>4, TimeSinceIs DEF AgeOf
<1>6. Ring(now, new)
  BY <1>3, <1>5, LimiterBounds DEF Ring
<1> QED
  BY <1>2, <1>3, <1>5, <1>6 DEF new

LEMMA HeardIs ==
  ASSUME NEW slot \in RateSlots, now \in Instants, Ring(now, slot)
  PROVE  LET new == [slot EXCEPT !.last_seen = now]
         IN  /\ new \in RateSlots /\ Ring(now, new)
             /\ new.in_use = slot.in_use /\ new.ip = slot.ip /\ new.last_seen = now
             /\ new.count = slot.count
             /\ \A j \in 1..slot.count : AgeOf(now, new, j) = AgeOf(now, slot, j)
<1> DEFINE new == [slot EXCEPT !.last_seen = now]
<1>1. /\ new \in RateSlots /\ new.in_use = slot.in_use /\ new.ip = slot.ip /\ new.last_seen = now
      /\ new.count = slot.count /\ new.next = slot.next /\ new.ts = slot.ts
  BY DEF RateSlots
<1> HIDE DEF new
<1>2. \A j : AgeOf(now, new, j) = AgeOf(now, slot, j)
  BY <1>1 DEF AgeOf, Position
<1>3. \A j \in 1..slot.count : AgeOf(now, slot, j) \in Nat
  <2>1. \A j \in 1..slot.count : j \in 1..Limit
    BY LimiterBounds DEF Ring
  <2> QED
    BY <2>1, AgeIs, LimiterBounds DEF Instants
<1>4. TimeSince(now, new.last_seen) = 0
  BY <1>1, TimeSinceIs
<1>5. Ring(now, new)
  BY <1>1, <1>2, <1>3, <1>4 DEF Ring
<1> QED
  BY <1>1, <1>2, <1>5 DEF new

\* A send the table has forgotten is excused by the crowd that came since.
CrowdOf(asked, ip, age) == {other \in Askers \ {ip} : asked[other] <= age}
Excused(asked, ip, age) == age < Window => Cardinality(CrowdOf(asked, ip, age)) >= TrackSlots
Forgotten(entries, ip) == \A i \in Slots : entries[i].in_use => entries[i].ip # ip

\* What an entry holds is what was sent.
Kept(at, slot, sent, asked) ==
  /\ asked[slot.ip] = Capped(TimeSince(at, slot.last_seen))
  /\ \A j \in Recent :
       IF j <= slot.count THEN sent[slot.ip][j] = Capped(AgeOf(at, slot, j))
                          ELSE Excused(asked, slot.ip, sent[slot.ip][j])

LimiterType ==
  /\ now \in Instants /\ rates \in [Slots -> RateSlots]
  /\ sends \in [Askers -> [Recent -> 0..Window]] /\ lastAsked \in [Askers -> 0..Window]

LimiterInv ==
  /\ LimiterType
  /\ \A i \in Slots : rates[i].in_use => Ring(now, rates[i]) /\ Kept(now, rates[i], sends, lastAsked)
  /\ \A i, j \in Slots : rates[i].in_use /\ rates[j].in_use /\ rates[i].ip = rates[j].ip => i = j
  /\ \A ip \in Askers : Forgotten(rates, ip) => \A j \in Recent : Excused(lastAsked, ip, sends[ip][j])
  /\ \A ip \in Askers, j \in Recent : lastAsked[ip] <= sends[ip][j]

LEMMA ExcusesStay ==
  ASSUME NEW asked, NEW later, NEW ip, NEW age, NEW older, Excused(asked, ip, age),
         older < Window => age < Window,
         \A other \in Askers \ {ip} : asked[other] <= age => later[other] <= older
  PROVE  Excused(later, ip, older)
<1> SUFFICES ASSUME older < Window PROVE Cardinality(CrowdOf(later, ip, older)) >= TrackSlots
  BY DEF Excused
<1>1. CrowdOf(asked, ip, age) \subseteq CrowdOf(later, ip, older)
  BY DEF CrowdOf
<1>2. IsFiniteSet(CrowdOf(later, ip, older))
  <2>1. CrowdOf(later, ip, older) \subseteq Askers
    BY DEF CrowdOf
  <2> QED
    BY <2>1, FS_Subset, ErrorLimiterAssumption
<1>3. /\ Cardinality(CrowdOf(asked, ip, age)) <= Cardinality(CrowdOf(later, ip, older))
      /\ IsFiniteSet(CrowdOf(asked, ip, age))
  BY <1>1, <1>2, FS_Subset
<1>4. /\ Cardinality(CrowdOf(asked, ip, age)) \in Nat
      /\ Cardinality(CrowdOf(later, ip, older)) \in Nat
  BY <1>2, <1>3, FS_CardinalityType
<1>5. Cardinality(CrowdOf(asked, ip, age)) >= TrackSlots
  BY DEF Excused
<1> QED
  BY <1>3, <1>4, <1>5, LimiterBounds

\* A call makes no crowd smaller.
LEMMA CallExcuses ==
  ASSUME NEW asked \in [Askers -> 0..Window], NEW caller \in Askers, NEW ip \in Askers,
         NEW age \in 0..Window, Excused(asked, ip, age)
  PROVE  Excused([asked EXCEPT ![caller] = 0], ip, age)
<1> DEFINE later == [asked EXCEPT ![caller] = 0]
<1>1. \A other \in Askers \ {ip} : asked[other] <= age => later[other] <= age
  BY LimiterBounds
<1> HIDE DEF later
<1>2. Excused(later, ip, age)
  BY <1>1, ExcusesStay
<1> QED
  BY <1>2 DEF later

LEMMA FirstIs ==
  ASSUME LimiterInv, NEW ip \in Askers
  PROVE  /\ EntriesOf(ip) = {} <=> Forgotten(rates, ip)
         /\ EntriesOf(ip) # {} =>
              LET i == FirstOf(EntriesOf(ip))
              IN  /\ i \in Slots /\ rates[i].in_use /\ rates[i].ip = ip
                  /\ \A k \in Slots \ {i} : rates[k].in_use => rates[k].ip # ip
<1>1. EntriesOf(ip) = {} <=> Forgotten(rates, ip)
  BY DEF EntriesOf, Forgotten
<1>2. ASSUME EntriesOf(ip) # {}
      PROVE  LET i == FirstOf(EntriesOf(ip))
             IN  /\ i \in Slots /\ rates[i].in_use /\ rates[i].ip = ip
                 /\ \A k \in Slots \ {i} : rates[k].in_use => rates[k].ip # ip
  <2>1. PICK i \in Slots : rates[i].in_use /\ rates[i].ip = ip
    BY <1>2 DEF EntriesOf
  <2>2. \A k \in Slots \ {i} : rates[k].in_use => rates[k].ip # ip
    BY <2>1 DEF LimiterInv
  <2>3. EntriesOf(ip) = {i}
    BY <2>1, <2>2 DEF EntriesOf
  <2>4. i \in Int
    BY LimiterBounds DEF Slots
  <2>5. FirstOf({i}) = i
    BY <2>4 DEF FirstOf
  <2> QED
    BY <2>1, <2>2, <2>3, <2>5
<1> QED
  BY <1>1, <1>2

\* Whoever loses the place was silent longest.
LEMMA PlaceIs ==
  ASSUME LimiterInv
  PROVE  /\ Place \in Slots
         /\ rates[Place].in_use =>
              \A j \in Slots : /\ rates[j].in_use
                               /\ TimeSince(now, rates[j].last_seen) <= TimeSince(now, rates[Place].last_seen)
<1> DEFINE free == {i \in Slots : ~rates[i].in_use}
           since(i) == TimeSince(now, rates[i].last_seen)
           idle == {i \in Slots : \A j \in Slots : since(i) >= since(j)}
<1>1. Place = FirstOf(IF free # {} THEN free ELSE idle)
  BY DEF Place
<1>2. \A i \in Slots : since(i) \in 0..(ClockModulus - 1)
  BY TimeSinceIs DEF LimiterInv, LimiterType, RateSlots, Instants
<1>3. Slots \subseteq Nat /\ 1 \in Slots
  BY LimiterBounds DEF Slots
<1>4. ASSUME NEW S \in SUBSET Slots, S # {} PROVE FirstOf(S) \in S
  <2>1. \E i \in S : \A j \in S : i <= j
    BY <1>3, <1>4, LeastExists
  <2> QED
    BY <2>1 DEF FirstOf
<1>5. idle # {}
  <2> DEFINE ages == {since(i) + 1 : i \in Slots}
  <2>1. ages \in SUBSET (1..ClockModulus) /\ ages # {}
    <3>1. \A i \in Slots : since(i) + 1 \in 1..ClockModulus
      BY <1>2, LimiterBounds
    <3> QED
      BY <1>3, <3>1
  <2>2. PICK most \in ages : \A age \in ages : age <= most
    BY <2>1, LimiterBounds, GreatestExists
  <2>3. PICK i \in Slots : most = since(i) + 1
    BY <2>2
  <2>4. \A j \in Slots : since(j) + 1 <= since(i) + 1
    BY <2>2, <2>3
  <2>5. \A j \in Slots : since(i) >= since(j)
    BY <1>2, <2>4
  <2> QED
    BY <2>5
<1> HIDE DEF since
<1>6. Place \in IF free # {} THEN free ELSE idle
  BY <1>1, <1>4, <1>5
<1>7. ASSUME rates[Place].in_use PROVE free = {} /\ Place \in idle
  BY <1>6, <1>7
<1>8. ASSUME rates[Place].in_use, NEW j \in Slots
      PROVE  rates[j].in_use /\ since(j) <= since(Place)
  BY <1>2, <1>3, <1>7, <1>8
<1> QED
  BY <1>6, <1>8 DEF since

\* What a call leaves behind, when its entry and what was sent fit together and
\* whoever lost the place to it is excused.
LEMMA CalledInv ==
  ASSUME LimiterInv, now' = now, NEW ip \in Askers, NEW p \in Slots, NEW new \in RateSlots,
         new.in_use, new.ip = ip, new.last_seen = now, Ring(now, new),
         rates' = [rates EXCEPT ![p] = new],
         lastAsked' = [lastAsked EXCEPT ![ip] = 0],
         sends' \in [Askers -> [Recent -> 0..Window]],
         \A other \in Askers \ {ip} : sends'[other] = sends[other],
         \A k \in Slots \ {p} : rates[k].in_use => rates[k].ip # ip,
         \A j \in Recent : IF j <= new.count THEN sends'[ip][j] = Capped(AgeOf(now, new, j))
                                             ELSE Excused(lastAsked', ip, sends'[ip][j]),
         rates[p].in_use /\ rates[p].ip # ip =>
           \A j \in Recent : Excused(lastAsked', rates[p].ip, sends[rates[p].ip][j])
  PROVE  LimiterInv'
<1>1. /\ now \in Instants /\ rates \in [Slots -> RateSlots]
      /\ sends \in [Askers -> [Recent -> 0..Window]] /\ lastAsked \in [Askers -> 0..Window]
  BY DEF LimiterInv, LimiterType
<1>2. lastAsked' \in [Askers -> 0..Window]
      /\ lastAsked'[ip] = 0 /\ \A other \in Askers \ {ip} : lastAsked'[other] = lastAsked[other]
  BY <1>1, LimiterBounds
<1>3. /\ rates' \in [Slots -> RateSlots] /\ rates'[p] = new
      /\ \A k \in Slots \ {p} : rates'[k] = rates[k]
  BY <1>1
<1>4. \A other \in Askers, age \in 0..Window :
        Excused(lastAsked, other, age) => Excused(lastAsked', other, age)
  BY <1>1, CallExcuses
<1>5. Kept(now, new, sends', lastAsked')
  <2>1. TimeSince(now, new.last_seen) = 0 /\ Capped(0) = 0
    BY <1>1, TimeSinceIs, LimiterBounds DEF Capped
  <2> QED
    BY <1>2, <2>1 DEF Kept
<1>6. ASSUME NEW i \in Slots, rates'[i].in_use
      PROVE  Ring(now', rates'[i]) /\ Kept(now', rates'[i], sends', lastAsked')
  <2>1. CASE i = p
    BY <1>3, <1>5, <2>1
  <2>2. CASE i # p
    <3> DEFINE other == rates[i].ip
    <3>1. rates'[i] = rates[i] /\ rates[i].in_use /\ rates[i] \in RateSlots
      BY <1>1, <1>3, <1>6, <2>2
    <3>2. Ring(now, rates[i]) /\ Kept(now, rates[i], sends, lastAsked)
      BY <3>1 DEF LimiterInv
    <3>3. other \in Askers \ {ip} /\ rates[i].count \in 1..Limit
      BY <2>2, <3>1, <3>2 DEF Ring
    <3>4. sends'[other] = sends[other] /\ lastAsked'[other] = lastAsked[other]
          /\ \A j \in Recent : sends[other][j] \in 0..Window
      BY <1>1, <1>2, <3>3
    <3>5. Kept(now, rates[i], sends', lastAsked')
      BY <1>4, <3>2, <3>3, <3>4 DEF Kept
    <3> QED
      BY <3>1, <3>2, <3>5
  <2> QED
    BY <2>1, <2>2
<1>7. ASSUME NEW i \in Slots, NEW k \in Slots, rates'[i].in_use, rates'[k].in_use,
             rates'[i].ip = rates'[k].ip
      PROVE  i = k
  BY <1>3, <1>7 DEF LimiterInv
<1>8. ASSUME NEW gone \in Askers, Forgotten(rates', gone), NEW j \in Recent
      PROVE  Excused(lastAsked', gone, sends'[gone][j])
  <2>1. gone # ip /\ sends'[gone] = sends[gone] /\ sends[gone][j] \in 0..Window
    BY <1>1, <1>3, <1>8 DEF Forgotten
  <2>2. CASE Forgotten(rates, gone)
    BY <1>4, <1>8, <2>1, <2>2 DEF LimiterInv
  <2>3. CASE ~Forgotten(rates, gone)
    <3>1. PICK i \in Slots : rates[i].in_use /\ rates[i].ip = gone
      BY <2>3 DEF Forgotten
    <3>2. i = p
      BY <1>3, <1>8, <3>1 DEF Forgotten
    <3> QED
      BY <2>1, <3>1, <3>2
  <2> QED
    BY <2>2, <2>3
<1>9. ASSUME NEW other \in Askers, NEW j \in Recent
      PROVE  lastAsked'[other] <= sends'[other][j]
  <2>1. CASE other = ip
    <3>1. sends'[ip][j] \in 0..Window
      OBVIOUS
    <3> QED
      BY <1>2, <2>1, <3>1, LimiterBounds
  <2>2. CASE other # ip
    BY <1>2, <2>2 DEF LimiterInv
  <2> QED
    BY <2>1, <2>2
<1>10. LimiterType'
  BY <1>1, <1>2, <1>3 DEF LimiterType
<1> QED
  BY <1>6, <1>7, <1>8, <1>9, <1>10 DEF LimiterInv

LEMMA CappedIs ==
  ASSUME NEW age \in Instants
  PROVE  /\ Capped(age) \in 0..Window /\ (Capped(age) < Window <=> age < Window)
         /\ Capped(age + 1) = Aged(Capped(age))
         /\ \A more \in Instants : age <= more => Capped(age) <= Capped(more)
BY LimiterBounds DEF Instants, Capped, Aged

LEMMA HeldStep ==
  ASSUME LimiterInv, NEW ip \in Askers, Held(ip)
  PROVE  LimiterInv'
<1> DEFINE i == FirstOf(EntriesOf(ip))
           new == [rates[i] EXCEPT !.last_seen = now]
<1>1. /\ EntriesOf(ip) # {} /\ rates' = [rates EXCEPT ![i].last_seen = now]
      /\ lastAsked' = [lastAsked EXCEPT ![ip] = 0] /\ now' = now /\ sends' = sends
  BY DEF Held, AddressAsked
<1>2. /\ i \in Slots /\ rates[i].in_use /\ rates[i].ip = ip
      /\ \A k \in Slots \ {i} : rates[k].in_use => rates[k].ip # ip
  BY <1>1, FirstIs
<1> HIDE DEF i
<1>3. /\ now \in Instants /\ rates \in [Slots -> RateSlots] /\ rates[i] \in RateSlots
      /\ sends \in [Askers -> [Recent -> 0..Window]] /\ lastAsked \in [Askers -> 0..Window]
  BY <1>2 DEF LimiterInv, LimiterType
<1>4. Ring(now, rates[i]) /\ Kept(now, rates[i], sends, lastAsked)
  BY <1>2 DEF LimiterInv
<1>5. /\ new \in RateSlots /\ Ring(now, new)
      /\ new.in_use = rates[i].in_use /\ new.ip = rates[i].ip /\ new.last_seen = now
      /\ new.count = rates[i].count
      /\ \A j \in 1..rates[i].count : AgeOf(now, new, j) = AgeOf(now, rates[i], j)
  BY <1>3, <1>4, HeardIs
<1>6. rates' = [rates EXCEPT ![i] = new]
  BY <1>1
<1> HIDE DEF new
<1>7. \A other \in Askers, age \in 0..Window :
        Excused(lastAsked, other, age) => Excused(lastAsked', other, age)
  BY <1>1, <1>3, CallExcuses
<1>8. ASSUME NEW j \in Recent
      PROVE  IF j <= new.count THEN sends'[ip][j] = Capped(AgeOf(now, new, j))
                               ELSE Excused(lastAsked', ip, sends'[ip][j])
  <2>1. j \in Nat /\ j >= 1 /\ sends[ip][j] \in 0..Window
    BY <1>3, LimiterBounds DEF Recent
  <2>2. j <= rates[i].count => AgeOf(now, new, j) = AgeOf(now, rates[i], j)
    BY <1>4, <1>5, <2>1 DEF Ring
  <2> QED
    BY <1>1, <1>2, <1>4, <1>5, <1>7, <2>1, <2>2 DEF Kept
<1> QED
  BY <1>1, <1>2, <1>3, <1>5, <1>6, <1>8, CalledInv

LEMMA SentIs ==
  ASSUME LimiterInv, NEW ip \in Askers, Sent(ip)
  PROVE  /\ lastAsked' = [lastAsked EXCEPT ![ip] = 0] /\ now' = now
         /\ sends' \in [Askers -> [Recent -> 0..Window]] /\ sends'[ip][1] = 0
         /\ \A j \in Recent \ {1} : j - 1 \in Recent /\ sends'[ip][j] = sends[ip][j - 1]
         /\ \A other \in Askers \ {ip} : sends'[other] = sends[other]
<1>1. /\ sends' = [sends EXCEPT ![ip] = [j \in Recent |-> IF j = 1 THEN 0 ELSE sends[ip][j - 1]]]
      /\ lastAsked' = [lastAsked EXCEPT ![ip] = 0] /\ now' = now
  BY DEF Sent, AddressAsked
<1>2. sends \in [Askers -> [Recent -> 0..Window]]
  BY DEF LimiterInv, LimiterType
<1>3. 1 \in Recent /\ \A j \in Recent \ {1} : j - 1 \in Recent
  BY LimiterBounds DEF Recent
<1>4. [j \in Recent |-> IF j = 1 THEN 0 ELSE sends[ip][j - 1]] \in [Recent -> 0..Window]
  BY <1>2, <1>3, LimiterBounds
<1> QED
  BY <1>1, <1>2, <1>3, <1>4

LEMMA AgainStep ==
  ASSUME LimiterInv, NEW ip \in Askers, Sent(ip), EntriesOf(ip) # {}
  PROVE  LimiterInv'
<1> DEFINE i == FirstOf(EntriesOf(ip))
           new == Stamped(rates[i])
<1>1. HasRoom(rates[i]) /\ rates' = [rates EXCEPT ![i] = Stamped(@)]
  BY DEF Sent, Passes
<1>2. /\ i \in Slots /\ rates[i].in_use /\ rates[i].ip = ip
      /\ \A k \in Slots \ {i} : rates[k].in_use => rates[k].ip # ip
  BY FirstIs
<1> HIDE DEF i
<1>3. /\ now \in Instants /\ rates \in [Slots -> RateSlots] /\ rates[i] \in RateSlots
      /\ sends \in [Askers -> [Recent -> 0..Window]] /\ lastAsked \in [Askers -> 0..Window]
  BY <1>2 DEF LimiterInv, LimiterType
<1>4. Ring(now, rates[i]) /\ Kept(now, rates[i], sends, lastAsked)
  BY <1>2 DEF LimiterInv
<1>5. /\ new \in RateSlots /\ Ring(now, new)
      /\ new.in_use = rates[i].in_use /\ new.ip = rates[i].ip /\ new.last_seen = now
      /\ new.count = IF rates[i].count < Limit THEN rates[i].count + 1 ELSE Limit
      /\ AgeOf(now, new, 1) = 0
      /\ \A j \in 2..new.count : AgeOf(now, new, j) = AgeOf(now, rates[i], j - 1)
  BY <1>3, <1>4, StampedIs
<1>6. rates' = [rates EXCEPT ![i] = new]
  BY <1>1
<1>7. rates[i].count < Limit \/ AgeOf(now, rates[i], Limit) >= Window
  BY <1>1, <1>3, RoomIs
<1> HIDE DEF new
<1>8. /\ lastAsked' = [lastAsked EXCEPT ![ip] = 0] /\ now' = now
      /\ sends' \in [Askers -> [Recent -> 0..Window]] /\ sends'[ip][1] = 0
      /\ \A j \in Recent \ {1} : j - 1 \in Recent /\ sends'[ip][j] = sends[ip][j - 1]
      /\ \A other \in Askers \ {ip} : sends'[other] = sends[other]
  BY SentIs
<1>9. \A other \in Askers, age \in 0..Window :
        Excused(lastAsked, other, age) => Excused(lastAsked', other, age)
  BY <1>3, <1>8, CallExcuses
<1>10. ASSUME NEW j \in Recent
       PROVE  IF j <= new.count THEN sends'[ip][j] = Capped(AgeOf(now, new, j))
                                ELSE Excused(lastAsked', ip, sends'[ip][j])
  <2>1. CASE j = 1
    <3>1. Capped(0) = 0 /\ 1 <= new.count
      BY <1>4, <1>5, LimiterBounds DEF Capped, Ring
    <3> QED
      BY <1>5, <1>8, <2>1, <3>1
  <2>2. CASE j # 1
    <3>1. /\ j \in 2..(Limit + 1) /\ j - 1 \in Recent /\ j - 1 \in 1..Limit
          /\ sends'[ip][j] = sends[ip][j - 1] /\ sends[ip][j - 1] \in 0..Window
          /\ rates[i].count \in 1..Limit
      <4>1. j \in 2..(Limit + 1) /\ j - 1 \in 1..Limit
        BY <2>2, LimiterBounds DEF Recent
      <4>2. j - 1 \in Recent /\ sends'[ip][j] = sends[ip][j - 1]
        BY <1>8, <2>2
      <4>3. sends[ip] \in [Recent -> 0..Window]
        BY <1>3
      <4>4. rates[i].count \in 1..Limit
        BY <1>4 DEF Ring
      <4> QED
        BY <4>1, <4>2, <4>3, <4>4
    <3>2. IF j - 1 <= rates[i].count THEN sends[ip][j - 1] = Capped(AgeOf(now, rates[i], j - 1))
                                     ELSE Excused(lastAsked, ip, sends[ip][j - 1])
      BY <1>2, <1>4, <3>1 DEF Kept
    <3>3. CASE j <= new.count
      <4>1. j \in 2..new.count /\ j - 1 <= rates[i].count
        BY <1>5, <3>1, <3>3, LimiterBounds
      <4> QED
        BY <1>5, <3>1, <3>2, <3>3, <4>1
    <3>4. CASE j > new.count /\ j - 1 > rates[i].count
      BY <1>9, <3>1, <3>2, <3>4, <1>5, LimiterBounds
    <3>5. CASE j > new.count /\ j - 1 <= rates[i].count
      <4>1. rates[i].count = Limit /\ j - 1 = Limit
        BY <1>5, <3>1, <3>5, LimiterBounds
      <4>2. AgeOf(now, rates[i], Limit) \in Instants
        BY <1>3, <3>1, <4>1, AgeIs
      <4>3. sends'[ip][j] = Window
        BY <1>7, <3>1, <3>2, <4>1, <4>2, LimiterBounds DEF Capped, Instants
      <4> QED
        BY <1>5, <3>1, <3>5, <4>3, LimiterBounds DEF Excused
    <3> QED
      BY <1>5, <3>1, <3>3, <3>4, <3>5, LimiterBounds
  <2> QED
    BY <2>1, <2>2
<1> QED
  BY <1>2, <1>5, <1>6, <1>8, <1>10, CalledInv

\* Everyone who keeps a place, and the caller, asked since the one evicted did.
LEMMA EvictedIsExcused ==
  ASSUME LimiterInv, NEW ip \in Askers, Forgotten(rates, ip),
         NEW p \in Slots, rates[p].in_use,
         \A j \in Slots : /\ rates[j].in_use
                          /\ TimeSince(now, rates[j].last_seen) <= TimeSince(now, rates[p].last_seen),
         NEW j \in Recent
  PROVE  Excused([lastAsked EXCEPT ![ip] = 0], rates[p].ip, sends[rates[p].ip][j])
<1> DEFINE victim == rates[p].ip
           age == sends[victim][j]
           asked == [lastAsked EXCEPT ![ip] = 0]
           crowd == CrowdOf(asked, victim, age)
           f == [i \in Slots |-> IF i = p THEN ip ELSE rates[i].ip]
<1>1. /\ now \in Instants /\ rates \in [Slots -> RateSlots]
      /\ sends \in [Askers -> [Recent -> 0..Window]] /\ lastAsked \in [Askers -> 0..Window]
  BY DEF LimiterInv, LimiterType
<1>2. \A i \in Slots : /\ rates[i].ip \in Askers \ {ip}
                       /\ lastAsked[rates[i].ip] = Capped(TimeSince(now, rates[i].last_seen))
  BY DEF LimiterInv, Forgotten, Ring, Kept
<1>3. \A i, k \in Slots : rates[i].ip = rates[k].ip => i = k
  BY DEF LimiterInv
<1>4. \A i \in Slots : TimeSince(now, rates[i].last_seen) \in Instants
  BY <1>1, TimeSinceIs DEF RateSlots
<1>5. /\ lastAsked[victim] <= age /\ age \in 0..Window /\ victim \in Askers \ {ip}
      /\ lastAsked[victim] \in 0..Window
  <2>1. victim \in Askers \ {ip}
    BY <1>2
  <2>2. sends[victim] \in [Recent -> 0..Window]
    BY <1>1, <2>1
  <2> QED
    BY <1>1, <2>1, <2>2 DEF LimiterInv
<1> HIDE DEF age
<1>6. ASSUME NEW i \in Slots PROVE f[i] \in crowd
  <2>1. CASE i = p
    <3>1. asked[ip] = 0 /\ ip \in Askers \ {victim}
      BY <1>1, <1>5
    <3> QED
      BY <1>5, <2>1, <3>1, LimiterBounds DEF CrowdOf
  <2>2. CASE i # p
    <3>1. rates[i].ip \in Askers \ {ip, victim}
      BY <1>2, <1>3, <2>2
    <3>2. asked[rates[i].ip] = lastAsked[rates[i].ip]
      BY <1>1, <3>1
    <3>3. Capped(TimeSince(now, rates[i].last_seen)) <= Capped(TimeSince(now, rates[p].last_seen))
      BY <1>4, CappedIs
    <3>4. lastAsked[rates[i].ip] <= lastAsked[victim]
      BY <1>2, <3>3
    <3>5. lastAsked[rates[i].ip] \in 0..Window
      BY <1>1, <3>1
    <3>6. asked[rates[i].ip] <= age
      BY <1>5, <3>2, <3>4, <3>5, LimiterBounds
    <3> QED
      BY <2>2, <3>1, <3>6 DEF CrowdOf
  <2> QED
    BY <2>1, <2>2
<1>7. f \in Injection(Slots, crowd)
  <2>1. \A i, k \in Slots : f[i] = f[k] => i = k
    BY <1>2, <1>3
  <2>2. f \in [Slots -> crowd]
    BY <1>6
  <2> HIDE DEF f, crowd
  <2> QED
    BY <2>1, <2>2 DEF Injection, IsInjective
<1>8. IsFiniteSet(crowd)
  <2>1. crowd \subseteq Askers
    BY DEF CrowdOf
  <2> QED
    BY <2>1, FS_Subset, ErrorLimiterAssumption
<1>9. Cardinality(Slots) = TrackSlots
  <2>1. 1 \in Int /\ TrackSlots \in Int
    BY LimiterBounds
  <2>2. Cardinality(1..TrackSlots) = IF 1 > TrackSlots THEN 0 ELSE TrackSlots - 1 + 1
    BY <2>1, FS_Interval
  <2> QED
    BY <2>2, LimiterBounds DEF Slots
<1> HIDE DEF f, crowd
<1>10. Cardinality(crowd) >= TrackSlots
  <2>1. Cardinality(Slots) <= Cardinality(crowd)
    BY <1>7, <1>8, FS_Injection
  <2>2. Cardinality(crowd) \in Nat
    BY <1>8, FS_CardinalityType
  <2> QED
    BY <1>9, <2>1, <2>2, LimiterBounds
<1> QED
  BY <1>10 DEF Excused, crowd, age

LEMMA NewcomerStep ==
  ASSUME LimiterInv, NEW ip \in Askers, Sent(ip), EntriesOf(ip) = {}
  PROVE  LimiterInv'
<1> DEFINE p == Place
           new == Fresh(ip)
<1>1. rates' = [rates EXCEPT ![p] = new]
  BY DEF Sent, Passes
<1>2. Forgotten(rates, ip)
  BY FirstIs
<1>3. /\ p \in Slots
      /\ rates[p].in_use =>
           \A j \in Slots : /\ rates[j].in_use
                            /\ TimeSince(now, rates[j].last_seen) <= TimeSince(now, rates[p].last_seen)
  BY PlaceIs
<1> HIDE DEF p
<1>4. /\ now \in Instants
      /\ sends \in [Askers -> [Recent -> 0..Window]] /\ lastAsked \in [Askers -> 0..Window]
  BY DEF LimiterInv, LimiterType
<1>5. /\ new \in RateSlots /\ Ring(now, new)
      /\ new.in_use = TRUE /\ new.ip = ip /\ new.last_seen = now /\ new.count = 1
      /\ AgeOf(now, new, 1) = 0
  BY <1>4, FreshIs
<1> HIDE DEF new
<1>6. /\ lastAsked' = [lastAsked EXCEPT ![ip] = 0] /\ now' = now
      /\ sends' \in [Askers -> [Recent -> 0..Window]] /\ sends'[ip][1] = 0
      /\ \A j \in Recent \ {1} : j - 1 \in Recent /\ sends'[ip][j] = sends[ip][j - 1]
      /\ \A other \in Askers \ {ip} : sends'[other] = sends[other]
  BY SentIs
<1>7. ASSUME NEW j \in Recent
      PROVE  IF j <= new.count THEN sends'[ip][j] = Capped(AgeOf(now, new, j))
                               ELSE Excused(lastAsked', ip, sends'[ip][j])
  <2>1. CASE j = 1
    <3>1. Capped(0) = 0
      BY LimiterBounds DEF Capped
    <3> QED
      BY <1>5, <1>6, <2>1, <3>1
  <2>2. CASE j # 1
    <3>1. j - 1 \in Recent /\ sends'[ip][j] = sends[ip][j - 1] /\ ~(j <= 1)
      BY <1>6, <2>2, LimiterBounds DEF Recent
    <3>2. sends[ip][j - 1] \in 0..Window /\ Excused(lastAsked, ip, sends[ip][j - 1])
      BY <1>2, <1>4, <3>1 DEF LimiterInv
    <3>3. Excused(lastAsked', ip, sends[ip][j - 1])
      BY <1>4, <1>6, <3>2, CallExcuses
    <3> QED
      BY <1>5, <3>1, <3>3
  <2> QED
    BY <2>1, <2>2
<1>8. rates[p].in_use =>
        \A j \in Recent : Excused(lastAsked', rates[p].ip, sends[rates[p].ip][j])
  BY <1>2, <1>3, <1>6, EvictedIsExcused
<1>9. \A k \in Slots \ {p} : rates[k].in_use => rates[k].ip # ip
  BY <1>2 DEF Forgotten
<1>10. new.in_use
  BY <1>5
<1>11. rates[p].in_use /\ rates[p].ip # ip =>
         \A j \in Recent : Excused(lastAsked', rates[p].ip, sends[rates[p].ip][j])
  BY <1>8
<1> QED
  BY <1>1, <1>3, <1>5, <1>6, <1>7, <1>9, <1>10, <1>11, CalledInv

LEMMA PassingStep ==
  ASSUME LimiterInv, Passing
  PROVE  LimiterInv'
<1>1. /\ \A i \in Slots : rates[i].in_use =>
           /\ TimeSince(now, rates[i].last_seen) + 1 < ClockModulus
           /\ TimeSince(now, Oldest(rates[i])) + 1 < ClockModulus
      /\ now' = IF now + 1 = ClockModulus THEN 0 ELSE now + 1
      /\ sends' = [ip \in Askers |-> [j \in Recent |-> Aged(sends[ip][j])]]
      /\ lastAsked' = [ip \in Askers |-> Aged(lastAsked[ip])]
      /\ rates' = rates
  BY DEF Passing
<1>2. /\ now \in Instants /\ rates \in [Slots -> RateSlots]
      /\ sends \in [Askers -> [Recent -> 0..Window]] /\ lastAsked \in [Askers -> 0..Window]
  BY DEF LimiterInv, LimiterType
<1>3. \A age \in 0..Window :
        /\ Aged(age) \in 0..Window /\ (Aged(age) < Window => age < Window /\ Aged(age) = age + 1)
        /\ \A less \in 0..Window : less <= age => Aged(less) <= Aged(age)
  BY LimiterBounds DEF Aged
<1>4. /\ sends' \in [Askers -> [Recent -> 0..Window]] /\ lastAsked' \in [Askers -> 0..Window]
      /\ \A ip \in Askers : lastAsked'[ip] = Aged(lastAsked[ip])
      /\ \A ip \in Askers, j \in Recent : sends'[ip][j] = Aged(sends[ip][j])
      /\ \A ip \in Askers, j \in Recent : sends[ip][j] \in 0..Window
  BY <1>1, <1>2, <1>3
<1>5. now' \in Instants
  BY <1>1, <1>2, LimiterBounds DEF Instants
<1>6. ASSUME NEW ip \in Askers, NEW j \in Recent, Excused(lastAsked, ip, sends[ip][j])
      PROVE  Excused(lastAsked', ip, sends'[ip][j])
  <2>1. /\ sends[ip][j] \in 0..Window /\ sends'[ip][j] = Aged(sends[ip][j])
        /\ \A other \in Askers : lastAsked[other] \in 0..Window /\ lastAsked'[other] = Aged(lastAsked[other])
    BY <1>2, <1>4
  <2>2. \A other \in Askers \ {ip} : lastAsked[other] <= sends[ip][j] => lastAsked'[other] <= sends'[ip][j]
    BY <1>3, <2>1
  <2>3. sends'[ip][j] < Window => sends[ip][j] < Window
    BY <1>3, <2>1
  <2> QED
    BY <1>6, <2>2, <2>3, ExcusesStay
<1>7. ASSUME NEW i \in Slots, rates[i].in_use
      PROVE  Ring(now', rates[i]) /\ Kept(now', rates[i], sends', lastAsked')
  <2> DEFINE slot == rates[i]
  <2>1. slot \in RateSlots /\ Ring(now, slot) /\ Kept(now, slot, sends, lastAsked)
    BY <1>2, <1>7 DEF LimiterInv
  <2>2. /\ slot.ip \in Askers /\ slot.count \in 1..Limit /\ slot.last_seen \in Instants
        /\ slot.next \in 0..(Limit - 1) /\ slot.ts \in [0..(Limit - 1) -> Instants]
    BY <2>1 DEF Ring, RateSlots
  <2>3. TimeSince(now, slot.last_seen) + 1 < ClockModulus
        /\ TimeSince(now, Oldest(slot)) + 1 < ClockModulus
    BY <1>1, <1>7
  <2> HIDE DEF slot
  <2>4. Oldest(slot) = slot.ts[Position(slot, slot.count)]
    BY <2>1, <2>2, LimiterBounds DEF Oldest, Position, Ring
  <2>5. TimeSince(now', slot.last_seen) = TimeSince(now, slot.last_seen) + 1
        /\ TimeSince(now, slot.last_seen) \in Instants
    BY <1>1, <1>2, <2>2, <2>3, TimeSinceIs
  <2>6. ASSUME NEW j \in 1..slot.count
        PROVE  AgeOf(now', slot, j) = AgeOf(now, slot, j) + 1 /\ AgeOf(now, slot, j) \in Instants
    <3>1. j \in 1..Limit /\ slot.count \in 1..Limit /\ slot.count \in 1..slot.count /\ j <= slot.count
      BY <2>2, LimiterBounds
    <3>2. slot.ts[Position(slot, j)] \in Instants /\ AgeOf(now, slot, j) \in Instants
          /\ AgeOf(now, slot, slot.count) \in Instants
      BY <1>2, <2>1, <3>1, AgeIs
    <3>3. AgeOf(now, slot, j) <= AgeOf(now, slot, slot.count)
      BY <2>1, <3>1 DEF Ring
    <3>4. AgeOf(now, slot, slot.count) + 1 < ClockModulus
      BY <2>3, <2>4 DEF AgeOf
    <3>5. AgeOf(now, slot, j) + 1 < ClockModulus
      BY <3>2, <3>3, <3>4, LimiterBounds DEF Instants
    <3> QED
      BY <1>1, <1>2, <3>2, <3>5, TimeSinceIs DEF AgeOf
  <2>7. Ring(now', slot)
    <3>1. Instants \subseteq Int
      BY LimiterBounds DEF Instants
    <3>2. ASSUME NEW j \in 1..slot.count
          PROVE  TimeSince(now', slot.last_seen) <= AgeOf(now', slot, j)
      <4>1. TimeSince(now, slot.last_seen) <= AgeOf(now, slot, j)
        BY <2>1 DEF Ring
      <4>2. AgeOf(now', slot, j) = AgeOf(now, slot, j) + 1 /\ AgeOf(now, slot, j) \in Int
        BY <2>6, <3>1
      <4>3. TimeSince(now', slot.last_seen) = TimeSince(now, slot.last_seen) + 1
            /\ TimeSince(now, slot.last_seen) \in Int
        BY <2>5, <3>1
      <4> QED
        BY <4>1, <4>2, <4>3
    <3>3. ASSUME NEW j \in 1..slot.count, NEW k \in 1..slot.count, j <= k
          PROVE  AgeOf(now', slot, j) <= AgeOf(now', slot, k)
      <4>1. AgeOf(now, slot, j) <= AgeOf(now, slot, k)
        BY <2>1, <3>3 DEF Ring
      <4>2. /\ AgeOf(now', slot, j) = AgeOf(now, slot, j) + 1 /\ AgeOf(now, slot, j) \in Int
            /\ AgeOf(now', slot, k) = AgeOf(now, slot, k) + 1 /\ AgeOf(now, slot, k) \in Int
        BY <2>6, <3>1
      <4> QED
        BY <4>1, <4>2
    <3>4. /\ slot.ip \in Askers /\ slot.count \in 1..Limit
          /\ slot.count < Limit => slot.next = slot.count
      BY <2>1 DEF Ring
    <3> QED
      BY <3>2, <3>3, <3>4 DEF Ring
  <2>8. lastAsked'[slot.ip] = Capped(TimeSince(now', slot.last_seen))
    BY <1>4, <2>1, <2>2, <2>5, CappedIs DEF Kept
  <2>9. ASSUME NEW j \in Recent
        PROVE  IF j <= slot.count THEN sends'[slot.ip][j] = Capped(AgeOf(now', slot, j))
                                  ELSE Excused(lastAsked', slot.ip, sends'[slot.ip][j])
    <3>1. j <= slot.count => j \in 1..slot.count
      BY <2>2, LimiterBounds DEF Recent
    <3>2. CASE j <= slot.count
      BY <1>4, <2>1, <2>2, <2>6, <3>1, <3>2, CappedIs DEF Kept
    <3>3. CASE ~(j <= slot.count)
      BY <1>6, <2>1, <2>2, <3>3 DEF Kept
    <3> QED
      BY <3>2, <3>3
  <2>10. Kept(now', slot, sends', lastAsked')
    BY <2>8, <2>9 DEF Kept
  <2> QED
    BY <2>7, <2>10 DEF slot
<1>8. \A ip \in Askers : Forgotten(rates', ip) =>
        \A j \in Recent : Excused(lastAsked', ip, sends'[ip][j])
  BY <1>1, <1>6 DEF LimiterInv
<1>9. ASSUME NEW ip \in Askers, NEW j \in Recent PROVE lastAsked'[ip] <= sends'[ip][j]
  <2>1. lastAsked[ip] <= sends[ip][j] /\ lastAsked[ip] \in 0..Window /\ sends[ip][j] \in 0..Window
    BY <1>2, <1>4 DEF LimiterInv
  <2> QED
    BY <1>3, <1>4, <2>1
<1>10. LimiterType'
  BY <1>1, <1>2, <1>4, <1>5 DEF LimiterType
<1>11. \A i, j \in Slots : rates'[i].in_use /\ rates'[j].in_use /\ rates'[i].ip = rates'[j].ip => i = j
  BY <1>1 DEF LimiterInv
<1> QED
  BY <1>1, <1>7, <1>8, <1>9, <1>10, <1>11 DEF LimiterInv

LEMMA LimiterInitially == ASSUME LimiterInit PROVE LimiterInv
<1>1. /\ now \in Instants /\ rates = [i \in Slots |-> Unused]
      /\ sends = [ip \in Askers |-> [j \in Recent |-> Window]]
      /\ lastAsked = [ip \in Askers |-> Window]
  BY DEF LimiterInit, Instants
<1>2. Unused \in RateSlots /\ ~Unused.in_use
  BY LimiterBounds DEF Unused, RateSlots, Instants
<1>3. LimiterType
  BY <1>1, <1>2, LimiterBounds DEF LimiterType
<1>4. \A i \in Slots : ~rates[i].in_use
  BY <1>1, <1>2
<1>5. \A ip \in Askers, j \in Recent : sends[ip][j] = Window /\ lastAsked[ip] = Window
  BY <1>1
<1> QED
  BY <1>3, <1>4, <1>5, LimiterBounds DEF LimiterInv, Excused

LEMMA LimiterStep ==
  ASSUME LimiterInv, [LimiterNext]_limiterVars
  PROVE  LimiterInv'
<1>1. ASSUME NEW ip \in Askers, Sent(ip) PROVE LimiterInv'
  BY <1>1, AgainStep, NewcomerStep
<1>2. ASSUME NEW ip \in Askers, Held(ip) PROVE LimiterInv'
  BY <1>2, HeldStep
<1>3. CASE Passing
  BY <1>3, PassingStep
<1>4. CASE UNCHANGED limiterVars
  BY <1>4 DEF limiterVars, LimiterInv, LimiterType
<1> QED
  BY <1>1, <1>2, <1>3, <1>4 DEF LimiterNext

LEMMA LimiterInvLimits == LimiterInv => ErrorsLimited
<1> SUFFICES ASSUME LimiterInv PROVE ErrorsLimited
  OBVIOUS
<1>1. ASSUME NEW ip \in Askers, sends[ip][Limit + 1] < Window
      PROVE  Cardinality({other \in Askers \ {ip} : lastAsked[other] < Window}) >= TrackSlots
  <2> DEFINE age == sends[ip][Limit + 1]
             recent == {other \in Askers \ {ip} : lastAsked[other] < Window}
  <2>1. Limit + 1 \in Recent
    BY LimiterBounds DEF Recent
  <2>2. age \in 0..Window /\ \A other \in Askers : lastAsked[other] \in 0..Window
    BY <2>1 DEF LimiterInv, LimiterType
  <2>3. Excused(lastAsked, ip, age)
    <3>1. CASE Forgotten(rates, ip)
      BY <2>1, <3>1 DEF LimiterInv
    <3>2. CASE ~Forgotten(rates, ip)
      <4>1. PICK i \in Slots : rates[i].in_use /\ rates[i].ip = ip
        BY <3>2 DEF Forgotten
      <4>2. Ring(now, rates[i]) /\ Kept(now, rates[i], sends, lastAsked)
        BY <4>1 DEF LimiterInv
      <4>3. ~(Limit + 1 <= rates[i].count)
        BY <4>2, LimiterBounds DEF Ring
      <4> QED
        BY <2>1, <4>1, <4>2, <4>3 DEF Kept
    <3> QED
      BY <3>1, <3>2
  <2> HIDE DEF age
  <2>4. Cardinality(CrowdOf(lastAsked, ip, age)) >= TrackSlots
    BY <1>1, <2>3 DEF Excused, age
  <2>5. CrowdOf(lastAsked, ip, age) \subseteq recent
    BY <1>1, <2>2, LimiterBounds DEF CrowdOf, age
  <2>6. recent \subseteq Askers
    OBVIOUS
  <2> HIDE DEF recent
  <2>7. IsFiniteSet(recent)
    BY <2>6, FS_Subset, ErrorLimiterAssumption
  <2>8. Cardinality(CrowdOf(lastAsked, ip, age)) <= Cardinality(recent)
        /\ IsFiniteSet(CrowdOf(lastAsked, ip, age))
    BY <2>5, <2>7, FS_Subset
  <2>9. Cardinality(CrowdOf(lastAsked, ip, age)) \in Nat /\ Cardinality(recent) \in Nat
    BY <2>7, <2>8, FS_CardinalityType
  <2>10. Cardinality(recent) >= TrackSlots
    BY <2>4, <2>8, <2>9, LimiterBounds
  <2> QED
    BY <2>10 DEF recent
<1>2. ASSUME NEW ip \in Askers, sends[ip][1] = Window, EntriesOf(ip) # {}
      PROVE  HasRoom(rates[FirstOf(EntriesOf(ip))])
  <2> DEFINE i == FirstOf(EntriesOf(ip))
  <2>1. i \in Slots /\ rates[i].in_use /\ rates[i].ip = ip
    BY <1>2, FirstIs
  <2> HIDE DEF i
  <2>2. Ring(now, rates[i]) /\ Kept(now, rates[i], sends, lastAsked) /\ rates[i] \in RateSlots
        /\ now \in Instants
    BY <2>1 DEF LimiterInv, LimiterType
  <2>3. rates[i].count \in 1..Limit /\ 1 \in Recent /\ 1 \in 1..rates[i].count /\ 1 <= rates[i].count
    BY <2>2, LimiterBounds DEF Ring, Recent
  <2>4. Capped(AgeOf(now, rates[i], 1)) = Window
    BY <1>2, <2>1, <2>2, <2>3 DEF Kept
  <2>5. CASE rates[i].count = Limit
    <3>1. AgeOf(now, rates[i], 1) \in Instants /\ AgeOf(now, rates[i], Limit) \in Instants
      BY <2>2, <2>3, <2>5, AgeIs, LimiterBounds
    <3>2. AgeOf(now, rates[i], 1) >= Window
      BY <2>4, <3>1, LimiterBounds DEF Capped, Instants
    <3>3. AgeOf(now, rates[i], 1) <= AgeOf(now, rates[i], Limit)
      BY <2>2, <2>3, <2>5, LimiterBounds DEF Ring
    <3>4. AgeOf(now, rates[i], Limit) >= Window
      BY <3>1, <3>2, <3>3, LimiterBounds DEF Instants
    <3> QED
      BY <2>2, <3>4, RoomIs DEF i
  <2>6. CASE rates[i].count < Limit
    BY <2>2, <2>6, RoomIs DEF i
  <2> QED
    BY <2>3, <2>5, <2>6, LimiterBounds
<1> QED
  BY <1>1, <1>2 DEF ErrorsLimited

\* However many addresses ask, and across the wrap of the clock, none is sent
\* more ERRORs within a window than its ring has places, unless as many others
\* as the table holds asked since the send that was forgotten; and who was sent
\* none is not held back (server.c error_rate_allow).
THEOREM ErrorsAreLimited == LimiterSpec => []ErrorsLimited
<1>1. LimiterInit => LimiterInv
  BY LimiterInitially
<1>2. LimiterInv /\ [LimiterNext]_limiterVars => LimiterInv'
  BY LimiterStep
<1>3. LimiterInv => ErrorsLimited
  BY LimiterInvLimits
<1> QED
  BY <1>1, <1>2, <1>3, PTL DEF LimiterSpec

-----------------------------------------------------------------------------
(* The host program from its first line to its last.                        *)

\* What main() has opened where it is: no more than it may have, no less than
\* what it cannot do without.
Needed(at) ==
  CASE at \in {"options", "profiles", "net", "udp", "ended"} -> {}
    [] at \in {"subnets", "library", "udp close"}            -> {"udp"}
    [] at \in {"handlers", "banner", "discovery", "ui", "tray", "browser", "serving",
               "mdns close", "tray close", "ui close", "destroy"} -> {"udp", "library"}
Extra(p, at) ==
  CASE at \in {"options", "profiles", "handlers", "banner", "discovery", "destroy", "udp close",
               "ended"} -> {}
    [] at \in {"net", "udp", "subnets", "library"} -> {"files"}
    [] at = "ui" -> {"mdns"}
    [] at = "tray" -> {"ui"}
    [] at \in {"browser", "tray close"} -> {"ui", "icon", "window", "class"}
    [] at = "mdns close" -> {"mdns", "ui"}
    [] at = "ui close" -> {"ui"}
    [] at = "serving" -> IF p = "linux" THEN {"mdns", "ui"}
                                              ELSE {"ui", "icon", "window", "class"}
OfOne(p, at, opened) ==
  /\ at \in {"subnets", "mdns close"} => p = "linux"
  /\ at \in {"tray", "browser", "tray close"} => p = "windows"
  /\ p = "windows" => "mdns" \notin opened
Stages == {"options", "profiles", "net", "udp", "subnets", "library", "handlers", "banner",
           "discovery", "ui", "tray", "browser", "serving", "mdns close", "tray close",
           "ui close", "destroy", "udp close", "ended"}

HeldInv ==
  /\ program \in {"linux", "windows"} /\ options.ask \in {"start", "help", "unknown"}
  /\ step \in Stages \cup {"killed"}
  /\ step \in Stages => Needed(step) \subseteq held /\ held \subseteq Needed(step) \cup Extra(program, step)
  /\ OfOne(program, step, held)
  /\ step = "killed" => /\ held \cap {"mdns", "ui", "icon", "window"} # {} => "library" \in held
                        /\ "library" \in held => "udp" \in held

\* What the exit status means, and what the operator was told and shown.
ToldInv ==
  /\ Lives => code = NoStatus
  /\ step = "ended" /\ code # 0 =>
       options.ask = "unknown" \/ failed \cap {"net", "udp", "library"} # {}
  /\ step \in {"ui", "tray", "browser", "serving"} =>
       discovery = IF "mdns" \in held THEN "on" ELSE "off"
  /\ browsed => step \in {"serving", "tray close", "mdns close", "ui close", "destroy",
                          "udp close", "ended", "killed"}
  /\ browsed /\ step = "serving" => "ui" \in held

StartInv == HeldInv /\ ToldInv /\ BestAddressLeads

LEMMA KindIs == Nth(Kinds, "LAN") = 1 /\ Nth(Kinds, "TAILSCALE") = 2 /\ Nth(Kinds, "VIRTUAL") = 3
<1> DEFINE order == Kinds
<1>1. DOMAIN order = 1..3 /\ order[1] = "LAN" /\ order[2] = "TAILSCALE" /\ order[3] = "VIRTUAL"
  BY DEF Kinds
<1>2. \A n \in 1..3 : n = 1 \/ n = 2 \/ n = 3
  OBVIOUS
<1> HIDE DEF order
<1> QED
  BY <1>1, <1>2 DEF Nth, order

LEMMA MediumIs == Nth(Media, "WIFI") = 1 /\ Nth(Media, "ETHERNET") = 2 /\ Nth(Media, "OTHER") = 3
<1> DEFINE order == Media
<1>1. DOMAIN order = 1..3 /\ order[1] = "WIFI" /\ order[2] = "ETHERNET" /\ order[3] = "OTHER"
  BY DEF Media
<1>2. \A n \in 1..3 : n = 1 \/ n = 2 \/ n = 3
  OBVIOUS
<1> HIDE DEF order
<1> QED
  BY <1>1, <1>2 DEF Nth, order

LEMMA LowestIs ==
  ASSUME NEW S \in SUBSET Nat, S # {}
  PROVE  Lowest(S) \in S /\ \A m \in S : Lowest(S) <= m
BY LeastExists DEF Lowest

\* What the banner leads with is in the list, and nothing in it is better.
LEMMA DefaultLeads ==
  ASSUME NEW list, DOMAIN list \subseteq Nat, DOMAIN list # {},
         \A i \in DOMAIN list : /\ list[i].kind \in {"LAN", "TAILSCALE", "VIRTUAL"}
                               /\ list[i].medium \in {"WIFI", "ETHERNET", "OTHER"}
  PROVE  /\ Default(list) \in DOMAIN list
         /\ \A i \in DOMAIN list : ~Better(list[i], list[Default(list)])
<1> DEFINE kinds  == {KindAt(list[i]) : i \in DOMAIN list}
           kind   == Lowest(kinds)
           those  == {i \in DOMAIN list : KindAt(list[i]) = kind}
           media  == {MediumAt(list[i]) : i \in those}
           medium == Lowest(media)
           best   == {i \in those : MediumAt(list[i]) = medium}
<1>1. \A i \in DOMAIN list : KindAt(list[i]) \in 1..3 /\ MediumAt(list[i]) \in 1..3
  BY KindIs, MediumIs DEF KindAt, MediumAt
<1>2. kind \in kinds /\ \A k \in kinds : kind <= k
  <2>1. kinds \in SUBSET Nat /\ kinds # {}
    BY <1>1
  <2> QED
    BY <2>1, LowestIs
<1>3. medium \in media /\ \A k \in media : medium <= k
  <2>0. PICK i \in DOMAIN list : KindAt(list[i]) = kind
    BY <1>2
  <2>1. media \in SUBSET Nat /\ media # {}
    <3>1. \A j \in those : MediumAt(list[j]) \in Nat
      BY <1>1
    <3>2. i \in those
      BY <2>0
    <3> HIDE DEF those
    <3> QED
      BY <3>1, <3>2
  <2> QED
    BY <2>1, LowestIs
<1>4. Default(list) \in best
  <2>1. best \in SUBSET Nat /\ best # {}
    BY <1>3
  <2>2. Default(list) = Lowest(best)
    BY DEF Default
  <2> QED
    BY <2>1, <2>2, LowestIs
<1> DEFINE lead == Default(list)
<1>5. /\ lead \in DOMAIN list /\ KindAt(list[lead]) = kind /\ MediumAt(list[lead]) = medium
  BY <1>4
<1>6. ASSUME NEW i \in DOMAIN list, Better(list[i], list[lead])
      PROVE  FALSE
  <2>1. kind <= KindAt(list[i])
    BY <1>2
  <2>2. CASE <<list[i].kind, list[lead].kind>> \in Reachable
    <3>1. KindAt(list[i]) < KindAt(list[lead])
      BY <2>2, KindIs DEF Reachable, KindAt
    <3> QED
      BY <3>1, <2>1, <1>5, <1>1
  <2>3. CASE list[i].kind = list[lead].kind /\ <<list[i].medium, list[lead].medium>> \in Airborne
    <3>1. i \in those
      BY <2>3, <1>5 DEF KindAt
    <3>2. medium <= MediumAt(list[i])
      BY <3>1, <1>3
    <3>3. MediumAt(list[i]) < MediumAt(list[lead])
      BY <2>3, MediumIs DEF Airborne, MediumAt
    <3> QED
      BY <3>2, <3>3, <1>5, <1>1
  <2> QED
    BY <1>6, <2>2, <2>3 DEF Better
<1> QED
  BY <1>5, <1>6

\* The list of addresses is numbered and every entry is of a kind and a medium.
LEMMA ListIsJudged ==
  ASSUME program \in {"linux", "windows"}
  PROVE  /\ DOMAIN Enumerated \subseteq Nat
         /\ \A i \in DOMAIN Enumerated : /\ Enumerated[i].kind \in {"LAN", "TAILSCALE", "VIRTUAL"}
                                         /\ Enumerated[i].medium \in {"WIFI", "ETHERNET", "OTHER"}
         /\ DOMAIN Enumerated = {} => Enumerated = << >>
<1> DEFINE usable == SelectSeq(nics, LAMBDA nic : nic.up /\ ~nic.loopback /\ nic.ipv4)
           kept   == SubSeq(usable, 1, IF Len(usable) < MaxOwn THEN Len(usable) ELSE MaxOwn)
           n      == Len(kept)
<1>1. Enumerated = [i \in 1..n |-> IF program = "linux" THEN OwnLinux(kept[i]) ELSE OwnWindows(kept[i])]
  BY DEF Enumerated
<1>2. ASSUME NEW nic
      PROVE  /\ OwnLinux(nic).kind \in {"LAN", "TAILSCALE", "VIRTUAL"}
             /\ OwnLinux(nic).medium \in {"WIFI", "ETHERNET", "OTHER"}
             /\ OwnWindows(nic).kind \in {"LAN", "TAILSCALE", "VIRTUAL"}
             /\ OwnWindows(nic).medium \in {"WIFI", "ETHERNET", "OTHER"}
  BY DEF OwnLinux, OwnWindows, KindLinux, KindWindows, MediumLinux, MediumWindows
<1> HIDE DEF n, kept
<1>3. DOMAIN Enumerated = 1..n
  BY <1>1
<1>4. 1..n \subseteq Nat
  OBVIOUS
<1>5. \A i \in DOMAIN Enumerated :
        Enumerated[i] = IF program = "linux" THEN OwnLinux(kept[i]) ELSE OwnWindows(kept[i])
  BY <1>1, <1>3
<1>6. 1..n = {} => Enumerated = << >>
  BY <1>1
<1> QED
  BY <1>2, <1>3, <1>4, <1>5, <1>6

LEMMA StartInitially == ASSUME HostStartInit PROVE StartInv
BY HostStartAssumption
DEF HostStartInit, StartInv, HeldInv, ToldInv, Stages, Needed, Extra, OfOne, Lives, NoStatus, BestAddressLeads

LEMMA BannerLeads == ASSUME StartInv, ShowAddresses PROVE BestAddressLeads'
<1>1. program \in {"linux", "windows"}
  BY DEF StartInv, HeldInv
<1>2. CASE Enumerated = << >>
  BY <1>2 DEF ShowAddresses, BestAddressLeads
<1>3. CASE Enumerated # << >>
  <2>1. /\ Default(Enumerated) \in DOMAIN Enumerated
        /\ \A i \in DOMAIN Enumerated : ~Better(Enumerated[i], Enumerated[Default(Enumerated)])
    BY <1>1, <1>3, ListIsJudged, DefaultLeads
  <2>2. banner'.own = Enumerated /\ banner'.lead = Default(Enumerated)
    BY <1>3 DEF ShowAddresses
  <2> QED
    BY <2>1, <2>2 DEF BestAddressLeads
<1> QED
  BY <1>2, <1>3

LEMMA NothingWithoutServer ==
  ASSUME HeldInv
  PROVE  /\ held \cap {"mdns", "ui", "icon", "window"} # {} => "library" \in held
         /\ "library" \in held => "udp" \in held
BY DEF HeldInv, Stages, Needed, Extra

LEMMA StartStep == ASSUME StartInv, [HostStartNext]_startVars PROVE StartInv'
<1> USE DEF StartInv
<1>b. ASSUME UNCHANGED banner PROVE BestAddressLeads'
  BY <1>b DEF BestAddressLeads
<1>1. CASE ReadOptions
  <2>1. HeldInv'
    BY <1>1 DEF HeldInv, Stages, Needed, Extra, OfOne, ReadOptions, Proceeds, Ends, After, world, exit, notices, outcome
  <2>2. ToldInv'
    BY <1>1 DEF HeldInv, ToldInv, Stages, Needed, Extra, OfOne, Lives, NoStatus, ReadOptions, Proceeds, Ends, After, world, exit, notices, outcome
  <2>3. BestAddressLeads'
    BY <1>1, <1>b DEF ReadOptions, Proceeds, Ends, After, world, exit, notices, outcome
  <2> QED
    BY <2>1, <2>2, <2>3
<1>2. CASE ReadProfiles
  <2>1. HeldInv'
    BY <1>2 DEF HeldInv, Stages, Needed, Extra, OfOne, ReadProfiles, Proceeds, Ends, After, world, exit, notices, outcome
  <2>2. ToldInv'
    BY <1>2 DEF HeldInv, ToldInv, Stages, Needed, Extra, OfOne, Lives, NoStatus, ReadProfiles, Proceeds, Ends, After, world, exit, notices, outcome
  <2>3. BestAddressLeads'
    BY <1>2, <1>b DEF ReadProfiles, Proceeds, Ends, After, world, exit, notices, outcome
  <2> QED
    BY <2>1, <2>2, <2>3
<1>3. CASE OpenNet
  <2>1. HeldInv'
    BY <1>3 DEF HeldInv, Stages, Needed, Extra, OfOne, OpenNet, GivesUp, Proceeds, Ends, After, world, exit, notices, outcome
  <2>2. ToldInv'
    BY <1>3 DEF HeldInv, ToldInv, Stages, Needed, Extra, OfOne, Lives, NoStatus, OpenNet, GivesUp, Proceeds, Ends, After, world, exit, notices, outcome
  <2>3. BestAddressLeads'
    BY <1>3, <1>b DEF OpenNet, GivesUp, Proceeds, Ends, After, world, exit, notices, outcome
  <2> QED
    BY <2>1, <2>2, <2>3
<1>4. CASE OpenUdp
  <2>1. HeldInv'
    BY <1>4 DEF HeldInv, Stages, Needed, Extra, OfOne, OpenUdp, GivesUp, Proceeds, Ends, After, world, exit, notices, outcome
  <2>2. ToldInv'
    BY <1>4 DEF HeldInv, ToldInv, Stages, Needed, Extra, OfOne, Lives, NoStatus, OpenUdp, GivesUp, Proceeds, Ends, After, world, exit, notices, outcome
  <2>3. BestAddressLeads'
    BY <1>4, <1>b DEF OpenUdp, GivesUp, Proceeds, Ends, After, world, exit, notices, outcome
  <2> QED
    BY <2>1, <2>2, <2>3
<1>5. CASE TakeSubnets
  <2>1. HeldInv'
    BY <1>5 DEF HeldInv, Stages, Needed, Extra, OfOne, TakeSubnets, Proceeds, Ends, After, world, exit, notices, outcome
  <2>2. ToldInv'
    BY <1>5 DEF HeldInv, ToldInv, Stages, Needed, Extra, OfOne, Lives, NoStatus, TakeSubnets, Proceeds, Ends, After, world, exit, notices, outcome
  <2>3. BestAddressLeads'
    BY <1>5, <1>b DEF TakeSubnets, Proceeds, Ends, After, world, exit, notices, outcome
  <2> QED
    BY <2>1, <2>2, <2>3
<1>6. CASE CreateLibrary
  <2>1. HeldInv'
    BY <1>6 DEF HeldInv, Stages, Needed, Extra, OfOne, CreateLibrary, GivesUp, Proceeds, Ends, After, world, exit, notices, outcome
  <2>2. ToldInv'
    BY <1>6 DEF HeldInv, ToldInv, Stages, Needed, Extra, OfOne, Lives, NoStatus, CreateLibrary, GivesUp, Proceeds, Ends, After, world, exit, notices, outcome
  <2>3. BestAddressLeads'
    BY <1>6, <1>b DEF CreateLibrary, GivesUp, Proceeds, Ends, After, world, exit, notices, outcome
  <2> QED
    BY <2>1, <2>2, <2>3
<1>7. CASE TakeHandlers
  <2>1. HeldInv'
    BY <1>7 DEF HeldInv, Stages, Needed, Extra, OfOne, TakeHandlers, Proceeds, Ends, After, world, exit, notices, outcome
  <2>2. ToldInv'
    BY <1>7 DEF HeldInv, ToldInv, Stages, Needed, Extra, OfOne, Lives, NoStatus, TakeHandlers, Proceeds, Ends, After, world, exit, notices, outcome
  <2>3. BestAddressLeads'
    BY <1>7, <1>b DEF TakeHandlers, Proceeds, Ends, After, world, exit, notices, outcome
  <2> QED
    BY <2>1, <2>2, <2>3
<1>8. CASE ShowAddresses
  <2>1. HeldInv'
    BY <1>8 DEF HeldInv, Stages, Needed, Extra, OfOne, ShowAddresses, Proceeds, Ends, After, world, exit, notices, outcome
  <2>2. ToldInv'
    BY <1>8 DEF HeldInv, ToldInv, Stages, Needed, Extra, OfOne, Lives, NoStatus, ShowAddresses, Proceeds, Ends, After, world, exit, notices, outcome
  <2>3. BestAddressLeads'
    BY <1>8, BannerLeads DEF ShowAddresses, Proceeds, Ends, After, world, exit, notices, outcome
  <2> QED
    BY <2>1, <2>2, <2>3
<1>9. CASE OpenDiscovery
  <2>1. HeldInv'
    BY <1>9 DEF HeldInv, Stages, Needed, Extra, OfOne, OpenDiscovery, DoesWithout, Proceeds, Ends, After, world, exit, notices, outcome
  <2>2. ToldInv'
    BY <1>9 DEF HeldInv, ToldInv, Stages, Needed, Extra, OfOne, Lives, NoStatus, OpenDiscovery, DoesWithout, Proceeds, Ends, After, world, exit, notices, outcome
  <2>3. BestAddressLeads'
    BY <1>9, <1>b DEF OpenDiscovery, DoesWithout, Proceeds, Ends, After, world, exit, notices, outcome
  <2> QED
    BY <2>1, <2>2, <2>3
<1>10. CASE OpenUi
  <2>1. HeldInv'
    <3>1. CASE program = "linux"
      BY <1>10, <3>1 DEF HeldInv, Stages, Needed, Extra, OfOne, OpenUi, DoesWithout, Proceeds, Ends, After, world, exit, notices, outcome
    <3>2. CASE program = "windows"
      BY <1>10, <3>2 DEF HeldInv, Stages, Needed, Extra, OfOne, OpenUi, DoesWithout, Proceeds, Ends, After, world, exit, notices, outcome
    <3> QED
      BY <3>1, <3>2 DEF HeldInv
  <2>2. ToldInv'
    BY <1>10 DEF HeldInv, ToldInv, Stages, Needed, Extra, OfOne, Lives, NoStatus, OpenUi, DoesWithout, Proceeds, Ends, After, world, exit, notices, outcome
  <2>3. BestAddressLeads'
    BY <1>10, <1>b DEF OpenUi, DoesWithout, Proceeds, Ends, After, world, exit, notices, outcome
  <2> QED
    BY <2>1, <2>2, <2>3
<1>11. CASE AddTray
  <2>1. HeldInv'
    <3>1. step = "tray" /\ step' = "browser" /\ program = "windows" /\ program' = "windows" /\ options' = options
      BY <1>11 DEF AddTray, DoesWithout, Proceeds, After, HeldInv, OfOne, world
    <3>2. held' \in {held, held \cup {"class", "window", "icon"}}
      BY <1>11 DEF AddTray, DoesWithout, outcome
    <3> QED
      BY <3>1, <3>2 DEF HeldInv, Stages, Needed, Extra, OfOne
  <2>2. ToldInv'
    BY <1>11 DEF HeldInv, ToldInv, Stages, Needed, Extra, OfOne, Lives, NoStatus, AddTray, DoesWithout, Proceeds, Ends, After, world, exit, notices, outcome
  <2>3. BestAddressLeads'
    BY <1>11, <1>b DEF AddTray, DoesWithout, Proceeds, Ends, After, world, exit, notices, outcome
  <2> QED
    BY <2>1, <2>2, <2>3
<1>12. CASE OpenBrowser
  <2>1. HeldInv'
    BY <1>12 DEF HeldInv, Stages, Needed, Extra, OfOne, OpenBrowser, Proceeds, Ends, After, world, exit, notices, outcome
  <2>2. ToldInv'
    BY <1>12 DEF HeldInv, ToldInv, Stages, Needed, Extra, OfOne, Lives, NoStatus, OpenBrowser, Proceeds, Ends, After, world, exit, notices, outcome
  <2>3. BestAddressLeads'
    BY <1>12, <1>b DEF OpenBrowser, Proceeds, Ends, After, world, exit, notices, outcome
  <2> QED
    BY <2>1, <2>2, <2>3
<1>13. CASE Serve
  <2>1. HeldInv'
    <3>1. CASE program = "linux"
      BY <1>13, <3>1 DEF HeldInv, Stages, Needed, Extra, OfOne, Serve, Proceeds, Ends, After, world, exit, notices, outcome
    <3>2. CASE program = "windows"
      BY <1>13, <3>2 DEF HeldInv, Stages, Needed, Extra, OfOne, Serve, Proceeds, Ends, After, world, exit, notices, outcome
    <3> QED
      BY <3>1, <3>2 DEF HeldInv
  <2>2. ToldInv'
    BY <1>13 DEF HeldInv, ToldInv, Stages, Needed, Extra, OfOne, Lives, NoStatus, Serve, Proceeds, Ends, After, world, exit, notices, outcome
  <2>3. BestAddressLeads'
    BY <1>13, <1>b DEF Serve, Proceeds, Ends, After, world, exit, notices, outcome
  <2> QED
    BY <2>1, <2>2, <2>3
<1>14. CASE TearDown
  <2>1. HeldInv'
    <3>1. CASE Closes("mdns close", {"mdns"})
      BY <3>1 DEF HeldInv, Stages, Needed, Extra, OfOne, Closes, Proceeds, Ends, After, world, exit, notices, outcome
    <3>2. CASE Closes("tray close", {"icon", "window", "class"})
      BY <3>2 DEF HeldInv, Stages, Needed, Extra, OfOne, Closes, Proceeds, Ends, After, world, exit, notices, outcome
    <3>3. CASE Closes("ui close", {"ui"})
      BY <3>3 DEF HeldInv, Stages, Needed, Extra, OfOne, Closes, Proceeds, Ends, After, world, exit, notices, outcome
    <3>4. CASE Closes("destroy", {"library"})
      BY <3>4 DEF HeldInv, Stages, Needed, Extra, OfOne, Closes, Proceeds, Ends, After, world, exit, notices, outcome
    <3>5. CASE Closes("udp close", {"udp"})
      BY <3>5 DEF HeldInv, Stages, Needed, Extra, OfOne, Closes, Proceeds, Ends, After, world, exit, notices, outcome
    <3> QED
      BY <1>14, <3>1, <3>2, <3>3, <3>4, <3>5 DEF TearDown
  <2>2. ToldInv'
    BY <1>14 DEF HeldInv, ToldInv, Stages, Needed, Extra, OfOne, Lives, NoStatus, TearDown, Closes, Proceeds, Ends, After, world, exit, notices, outcome
  <2>3. BestAddressLeads'
    BY <1>14, <1>b DEF TearDown, Closes, Proceeds, Ends, After, world, exit, notices, outcome
  <2> QED
    BY <2>1, <2>2, <2>3
<1>15. CASE AskedToLeave
  <2>1. HeldInv'
    <3>1. CASE handlers
      BY <1>15, <3>1 DEF HeldInv, AskedToLeave, world, outcome
    <3>2. CASE ~handlers
      BY <1>15, <3>2, NothingWithoutServer DEF HeldInv, Stages, Needed, Extra, OfOne, AskedToLeave, world, outcome
    <3> QED
      BY <3>1, <3>2
  <2>2. ToldInv'
    BY <1>15 DEF HeldInv, ToldInv, Stages, Needed, Extra, OfOne, Lives, NoStatus, AskedToLeave, Proceeds, Ends, After, world, exit, notices, outcome
  <2>3. BestAddressLeads'
    BY <1>15, <1>b DEF AskedToLeave, Proceeds, Ends, After, world, exit, notices, outcome
  <2> QED
    BY <2>1, <2>2, <2>3
<1>16. CASE MenuExit
  <2>1. HeldInv'
    BY <1>16 DEF HeldInv, Stages, Needed, Extra, OfOne, MenuExit, Proceeds, Ends, After, world, exit, notices, outcome
  <2>2. ToldInv'
    BY <1>16 DEF HeldInv, ToldInv, Stages, Needed, Extra, OfOne, Lives, NoStatus, MenuExit, Proceeds, Ends, After, world, exit, notices, outcome
  <2>3. BestAddressLeads'
    BY <1>16, <1>b DEF MenuExit, Proceeds, Ends, After, world, exit, notices, outcome
  <2> QED
    BY <2>1, <2>2, <2>3
<1>17. CASE RunsOutOfTime
  <2>1. HeldInv'
    BY <1>17 DEF HeldInv, Stages, Needed, Extra, OfOne, RunsOutOfTime, Proceeds, Ends, After, world, exit, notices, outcome
  <2>2. ToldInv'
    BY <1>17 DEF HeldInv, ToldInv, Stages, Needed, Extra, OfOne, Lives, NoStatus, RunsOutOfTime, Proceeds, Ends, After, world, exit, notices, outcome
  <2>3. BestAddressLeads'
    BY <1>17, <1>b DEF RunsOutOfTime, Proceeds, Ends, After, world, exit, notices, outcome
  <2> QED
    BY <2>1, <2>2, <2>3
<1>18. CASE InterfacesChange
  <2>1. HeldInv'
    BY <1>18 DEF HeldInv, InterfacesChange, outcome
  <2>2. ToldInv'
    BY <1>18 DEF HeldInv, ToldInv, Stages, Needed, Extra, OfOne, Lives, NoStatus, InterfacesChange, Proceeds, Ends, After, world, exit, notices, outcome
  <2>3. BestAddressLeads'
    BY <1>18, <1>b DEF InterfacesChange, Proceeds, Ends, After, world, exit, notices, outcome
  <2> QED
    BY <2>1, <2>2, <2>3
<1>19. CASE UNCHANGED startVars
  <2>1. HeldInv'
    BY <1>19 DEF HeldInv, startVars
  <2>2. ToldInv'
    BY <1>19 DEF HeldInv, ToldInv, Stages, Needed, Extra, OfOne, Lives, NoStatus, startVars, Proceeds, Ends, After, world, exit, notices, outcome
  <2>3. BestAddressLeads'
    BY <1>19, <1>b DEF startVars, Proceeds, Ends, After, world, exit, notices, outcome
  <2> QED
    BY <2>1, <2>2, <2>3
<1> QED
  BY <1>1, <1>2, <1>3, <1>4, <1>5, <1>6, <1>7, <1>8, <1>9, <1>10, <1>11, <1>12, <1>13, <1>14, <1>15, <1>16, <1>17, <1>18, <1>19 DEF HostStartNext

\* A host that starts says what it lacks, ends for want of what it needs only and
\* with everything given back, and leads with its best address (main() of both).
THEOREM StartIsOrderly == HostStartSpec => []OrderlyStart
<1>1. StartInv => OrderlyStart
  <2> USE DEF StartInv, HeldInv, ToldInv, Stages, Needed, Extra, OfOne, Lives
  <2> QED
    BY DEF OrderlyStart, NothingOutlivesItsServer, OnlyTheNeededIsFatal
<1> QED
  BY <1>1, StartInitially, StartStep, PTL DEF HostStartSpec

-----------------------------------------------------------------------------
(* The web interface.                                                       *)

\* A request that may change something: it writes, and came whole from this PC.
Allowed(req) ==
  /\ IsWrite(req) /\ req.arrived = "whole" /\ req.host = "loopback" /\ req.origin # "other"

\* While a save or a deletion is carried out, it is one that may be, and it has
\* not been answered.
BusyInv == ~Idle => Allowed(served) /\ reply = Pending
WebInv  == BusyInv /\ own \in OwnLists /\ SecretsAreCurrent

\* What the action property says of one step.
Permitted ==
  served' # NoRequest /\ Changes =>
    /\ IsWrite(served') /\ served'.arrived = "whole" /\ served'.host = "loopback"
    /\ served'.origin # "other"
    /\ reply'.status >= 400 => served'.route = "begin"

LEMMA GateLets ==
  ASSUME NEW req \in WebRequests, Gate(req) = 200
  PROVE  req.arrived = "whole" /\ req.host = "loopback" /\ (IsWrite(req) => req.origin # "other")
<1>1. Arrival(req) = 200
  BY DEF Gate
<1>2. HostIsLoopback(req) /\ ~(IsWrite(req) /\ OriginIsElsewhere(req))
  BY <1>1 DEF Gate
<1>3. req.arrived = "whole"
  BY <1>1, WebUiAssumption DEF Arrival
<1> QED
  BY <1>2, <1>3 DEF HostIsLoopback, OriginIsElsewhere

LEMMA WritesAreAllowed ==
  ASSUME NEW req \in WebRequests, NEW method \in {"POST", "PUT", "DELETE"}, NEW route, Is(req, method, route)
  PROVE  Allowed(req)
BY GateLets DEF Is, Allowed, IsWrite

LEMMA PlainTells ==
  ASSUME NEW status
  PROVE  Plain(status).status = status /\ Plain(status).secret = NoSecret
BY DEF Plain

\* A reply without a secret, or one from a window that is not touched.
LEMMA Discreet ==
  ASSUME reply'.secret = NoSecret
  PROVE  SecretsAreCurrent'
BY DEF SecretsAreCurrent

LEMMA StaysIdle ==
  ASSUME UNCHANGED profileVars, Idle
  PROVE  BusyInv'
BY DEF profileVars, BusyInv, Idle

LEMMA RefusalKeeps ==
  ASSUME NEW req, NEW status, Refuses(req, status), Idle, WebInv
  PROVE  WebInv' /\ Permitted
<1>1. reply' = Plain(status) /\ UNCHANGED <<profileVars, offer, own>>
  BY DEF Refuses, Answers
<1>2. ~Changes
  BY <1>1 DEF Changes, Files, profileVars
<1> QED
  BY <1>1, <1>2, StaysIdle, Discreet, PlainTells DEF WebInv, Permitted

LEMMA ShowingKeeps ==
  ASSUME NEW req, NEW told, Shows(req, told), Idle, WebInv,
         told.secret # NoSecret => offer.open /\ told.secret = offer.secret /\ told.addresses \subseteq Range(own)
  PROVE  WebInv' /\ Permitted
<1>1. reply' = told /\ UNCHANGED <<profileVars, offer, own>>
  BY DEF Shows, Answers
<1>2. ~Changes
  BY <1>1 DEF Changes, Files, profileVars
<1>3. SecretsAreCurrent'
  BY <1>1 DEF SecretsAreCurrent
<1> QED
  BY <1>1, <1>2, <1>3, StaysIdle DEF WebInv, Permitted

\* A request that did something and says so, or has yet to say.
LEMMA DeedKeeps ==
  ASSUME NEW req, NEW status, Allowed(req), WebInv, Answers(req, Plain(status)), own' = own,
         status \in {0, 200} \/ (status \in Nat /\ req.route = "begin") \/ ~Changes,
         Idle' \/ status = 0
  PROVE  WebInv' /\ Permitted
<1>1. served' = req /\ reply' = Plain(status) /\ reply'.status = status /\ reply'.secret = NoSecret
  BY PlainTells DEF Answers
<1>2. BusyInv'
  BY <1>1 DEF BusyInv, Pending
<1> QED
  BY <1>1, <1>2, Discreet DEF WebInv, Permitted, Allowed

LEMMA RequestKeeps ==
  ASSUME WebInv, Idle, NEW req \in WebRequests, Serves(req)
  PROVE  WebInv' /\ Permitted
<1>1. CASE NotServed(req)
  BY <1>1, RefusalKeeps DEF NotServed
<1>2. CASE ShowPage(req) \/ ShowProfiles(req)
  BY <1>2, ShowingKeeps, PlainTells DEF ShowPage, ShowProfiles
<1>3. CASE ShowState(req)
  <2>1. OfferTold.secret # NoSecret =>
          offer.open /\ OfferTold.secret = offer.secret /\ OfferTold.addresses \subseteq Range(own)
    BY DEF OfferTold, Plain
  <2> QED
    BY <1>3, <2>1, ShowingKeeps DEF ShowState
<1>4. CASE ShowQr(req)
  <2>1. CASE Refuses(req, 404) \/ Refuses(req, 500)
    BY <2>1, RefusalKeeps
  <2> DEFINE told == [Plain(200) EXCEPT !.secret = offer.secret, !.addresses = {AddressFor(req)}]
  <2>2. CASE offer.open /\ own # << >> /\ Shows(req, told)
    <3>1. AddressFor(req) \in Range(own)
      <4>1. own \in Seq(Range(own))
        BY WebUiAssumption DEF WebInv
      <4>2. 1 \in DOMAIN own
        BY <4>1, <2>2
      <4> QED
        BY <4>2 DEF AddressFor, Range
    <3>2. told.secret = offer.secret /\ told.addresses = {AddressFor(req)}
      BY DEF Plain
    <3> HIDE DEF told
    <3>3. told.secret # NoSecret =>
            offer.open /\ told.secret = offer.secret /\ told.addresses \subseteq Range(own)
      BY <2>2, <3>1, <3>2
    <3> QED
      BY <2>2, <3>3, ShowingKeeps
  <2> QED
    BY <1>4, <2>1, <2>2 DEF ShowQr
<1>5. CASE BeginRequest(req)
  <2>1. Allowed(req) /\ req.route = "begin"
    BY <1>5, WritesAreAllowed DEF BeginRequest, Is
  <2>2. Idle' /\ own' = own
    BY <1>5 DEF BeginRequest, Idle
  <2>3. Answers(req, Plain(200)) \/ Answers(req, Plain(409))
    BY <1>5 DEF BeginRequest
  <2> QED
    BY <2>1, <2>2, <2>3, DeedKeeps
<1>6. CASE CancelRequest(req)
  <2>1. Allowed(req)
    BY <1>6, WritesAreAllowed DEF CancelRequest
  <2>2. Idle' /\ own' = own /\ Answers(req, Plain(200))
    BY <1>6 DEF CancelRequest, Idle
  <2> QED
    BY <2>1, <2>2, DeedKeeps
<1>7. CASE Reload(req)
  <2>1. Allowed(req)
    BY <1>7, WritesAreAllowed DEF Reload
  <2>2. Idle' /\ own' = own /\ Answers(req, Plain(200))
    BY <1>7 DEF Reload, ReloadRequest, Idle
  <2> QED
    BY <2>1, <2>2, DeedKeeps
<1>8. CASE ShowProfile(req)
  <2>1. CASE Refuses(req, 400) \/ Refuses(req, 404)
    BY <2>1, RefusalKeeps
  <2> DEFINE told == [Plain(200) EXCEPT !.profile = At(table, FindIn(table, loaded, req.name))]
  <2>2. CASE Shows(req, told)
    <3>1. told.secret = NoSecret
      BY DEF Plain
    <3> QED
      BY <2>2, <3>1, ShowingKeeps
  <2> QED
    BY <1>8, <2>1, <2>2 DEF ShowProfile
<1>9. CASE PutRequest(req)
  <2>1. CASE Refuses(req, 400) \/ Refuses(req, 409)
    BY <2>1, RefusalKeeps
  <2>2. CASE Answers(req, Pending) /\ UNCHANGED <<offer, own>>
    <3>1. Allowed(req)
      BY <1>9, WritesAreAllowed DEF PutRequest
    <3> QED
      BY <2>2, <3>1, DeedKeeps DEF Pending
  <2> QED
    BY <1>9, <2>1, <2>2 DEF PutRequest
<1>10. CASE DeleteAsked(req)
  <2>1. CASE Refuses(req, 400) \/ Refuses(req, 404) \/ Refuses(req, 409)
    BY <2>1, RefusalKeeps
  <2>2. CASE Answers(req, Pending) /\ UNCHANGED <<offer, own>>
    <3>1. Allowed(req)
      BY <1>10, WritesAreAllowed DEF DeleteAsked
    <3> QED
      BY <2>2, <3>1, DeedKeeps DEF Pending
  <2> QED
    BY <1>10, <2>1, <2>2 DEF DeleteAsked
<1>11. CASE Assign(req)
  <2>1. CASE Refuses(req, 400)
    BY <2>1, RefusalKeeps
  <2> DEFINE status == IF ~seats[req.slot].in_use THEN 409
                       ELSE IF ~KnownIn(table, loaded, req.name) THEN 400 ELSE 200
  <2>2. CASE ChooseProfile(req.slot, req.name) /\ Answers(req, Plain(status)) /\ UNCHANGED <<offer, own>>
    <3>1. Allowed(req)
      BY <1>11, WritesAreAllowed DEF Assign
    <3>2. Idle' /\ (status = 200 \/ UNCHANGED profileVars)
      BY <2>2 DEF ChooseProfile, Refused, Idle, profileVars
    <3>3. status = 200 \/ ~Changes
      BY <2>2, <3>2 DEF Changes, Files, profileVars
    <3> HIDE DEF status
    <3> QED
      BY <2>2, <3>1, <3>2, <3>3, DeedKeeps
  <2> QED
    BY <1>11, <2>1, <2>2 DEF Assign
<1>12. CASE ShowInput(req)
  BY <1>12, RefusalKeeps, ShowingKeeps, PlainTells DEF ShowInput
<1> QED
  BY <1>1, <1>2, <1>3, <1>4, <1>5, <1>6, <1>7, <1>8, <1>9, <1>10, <1>11, <1>12 DEF Serves

\* A temporary file that goes is none of the profiles' files.
LEMMA TempIsNoFile ==
  ASSUME NEW stem, folder' = Without(folder, TempPath(stem))
  PROVE  Files' = Files
<1>1. TempPath(stem)[2] # "jsonc"
  BY DEF TempPath
<1>2. {f \in DOMAIN folder' : f[2] = "jsonc"} = {f \in DOMAIN folder : f[2] = "jsonc"}
  BY <1>1 DEF Without
<1>3. \A f \in DOMAIN folder' : folder'[f] = folder[f]
  BY DEF Without
<1> QED
  BY <1>2, <1>3 DEF Files

LEMMA SavingKeeps ==
  ASSUME WebInv, GoOn \/ SaveFails \/ Completes
  PROVE  WebInv' /\ Permitted
<1>1. ~Idle /\ Allowed(served) /\ reply = Pending
  <2>1. saving.step # "none"
    BY DEF GoOn, SaveFails, Completes, PutWrites, PutRenames, PutFails, PutReloads
  <2>2. NotSaving.step = "none"
    BY DEF NotSaving
  <2> QED
    BY <2>1, <2>2 DEF WebInv, BusyInv, Idle
<1>2. CASE GoOn
  <2>1. Answers(served, Plain(0)) /\ own' = own
    BY <1>1, <1>2 DEF GoOn, webOnly, Answers, Pending
  <2> QED
    BY <1>1, <2>1, DeedKeeps
<1>3. CASE SaveFails
  <2>1. Answers(served, Plain(500)) /\ UNCHANGED <<own, offer>> /\ Idle'
    BY <1>3 DEF SaveFails, SaveFailed, PutFails, Idle
  <2>2. ~Changes
    BY <1>3, TempIsNoFile DEF SaveFails, PutFails, Changes
  <2> QED
    BY <1>1, <2>1, <2>2, DeedKeeps
<1>4. CASE Completes
  <2>1. Answers(served, Plain(200)) /\ own' = own /\ Idle'
    BY <1>4 DEF Completes, PutReloads, Idle
  <2> QED
    BY <1>1, <2>1, DeedKeeps
<1> QED
  BY <1>2, <1>3, <1>4

LEMMA MeanwhileKeeps ==
  ASSUME WebInv, Meanwhile
  PROVE  WebInv' /\ Permitted
<1>1. served' = NoRequest /\ reply' = Pending
  BY DEF Meanwhile, Unasked
<1>2. own' \in OwnLists
  BY DEF Meanwhile, OfferMoves, AddressesMove, WebInv
<1>3. Idle'
  BY DEF Meanwhile, OfferMoves, AddressesMove, SeatTaken, SeatAcked, SeatFreed, HandEdit, profileVars, Idle
<1> QED
  BY <1>1, <1>2, <1>3, Discreet, PlainTells DEF WebInv, BusyInv, Permitted, Pending

LEMMA WebStep ==
  ASSUME WebInv, [WebNext]_webVars
  PROVE  WebInv' /\ [Permitted]_webVars
<1>1. CASE UNCHANGED webVars
  BY <1>1 DEF webVars, webOnly, profileVars, WebInv, BusyInv, Idle, SecretsAreCurrent
<1>2. CASE Idle /\ \E req \in WebRequests : Serves(req)
  BY <1>2, RequestKeeps
<1> QED
  BY <1>1, <1>2, SavingKeeps, MeanwhileKeeps DEF WebNext

LEMMA WebInitially == ASSUME WebInit PROVE WebInv
BY PlainTells DEF WebInit, ProfilesInit, WebInv, BusyInv, Idle, SecretsAreCurrent, Pending

\* Only a request that writes and came whole from this PC changes a window, a file,
\* the loaded profiles or a session, and one that is told no has changed nothing
\* (webui_poll, ui_dispatch).
THEOREM OnlyTheAllowedChange == WebSpec => OnlyAllowedChanges
<1>1. WebInv /\ [WebNext]_webVars => WebInv' /\ [Permitted]_webVars
  BY WebStep
<1> QED
  BY <1>1, WebInitially, PTL DEF WebSpec, OnlyAllowedChanges, Permitted

-----------------------------------------------------------------------------
(* What the web interface answers: picking from a sequence, then the table a *)
(* load makes of the files, then the requests.                               *)

\* The ranks of a sequence's places: each has one, in their order.
LEMMA RanksCount ==
  ASSUME NEW m \in Nat, NEW places \in SUBSET (1..m)
  PROVE  /\ IsFiniteSet(places) /\ Cardinality(places) \in 0..m
         /\ \A i \in places : Rank(places, i) \in 1..Cardinality(places)
         /\ \A i, j \in places : i < j => Rank(places, i) < Rank(places, j)
<1>1. IsFiniteSet(places) /\ Cardinality(places) <= m
  <2>1. IsFiniteSet(1..m) /\ Cardinality(1..m) = m
    BY FS_Interval
  <2> QED
    BY <2>1, FS_Subset
<1>2. Cardinality(places) \in 0..m
  BY <1>1, FS_CardinalityType
<1>3. ASSUME NEW i \in places
      PROVE  /\ i \in {j \in places : j <= i} /\ IsFiniteSet({j \in places : j <= i})
             /\ Rank(places, i) \in Nat /\ Rank(places, i) <= Cardinality(places)
  <2> DEFINE upto == {j \in places : j <= i}
  <2>1. upto \subseteq places /\ i \in upto
    OBVIOUS
  <2> HIDE DEF upto
  <2>2. IsFiniteSet(upto) /\ Cardinality(upto) \in Nat /\ Cardinality(upto) <= Cardinality(places)
    BY <1>1, <2>1, FS_Subset, FS_CardinalityType
  <2> QED
    BY <2>1, <2>2 DEF upto, Rank
<1>4. ASSUME NEW i \in places PROVE Rank(places, i) \in 1..Cardinality(places)
  <2>1. {j \in places : j <= i} # {}
    BY <1>3
  <2>2. Rank(places, i) # 0
    BY <1>3, <2>1, FS_EmptySet DEF Rank
  <2>3. Rank(places, i) \in Nat /\ Rank(places, i) <= Cardinality(places)
    BY <1>3
  <2>4. Cardinality(places) \in Nat
    BY <1>2
  <2> QED
    BY <2>2, <2>3, <2>4
<1>5. ASSUME NEW i \in places, NEW j \in places, i < j
      PROVE  Rank(places, i) < Rank(places, j)
  <2> DEFINE low == {k \in places : k <= i}
             high == {k \in places : k <= j}
  <2>1. \A k \in places : k \in Int
    OBVIOUS
  <2>2. low \subseteq high /\ j \in high /\ j \notin low
    <3>1. \A k \in places : k <= i => k <= j
      BY <1>5, <2>1
    <3>2. j <= j /\ ~(j <= i)
      BY <1>5, <2>1
    <3> QED
      BY <3>1, <3>2
  <2>3. IsFiniteSet(high) /\ Cardinality(high) \in Nat /\ Cardinality(low) \in Nat
    BY <1>3 DEF Rank
  <2> HIDE DEF low, high
  <2>4. Cardinality(low) <= Cardinality(high) /\ Cardinality(low) # Cardinality(high)
    BY <2>2, <2>3, FS_Subset
  <2> QED
    BY <2>3, <2>4 DEF low, high, Rank
<1> QED
  BY <1>1, <1>2, <1>4, <1>5

\* What is picked from a sequence: at the rank of each place what is there.
IsPick(p, seq, places) ==
  /\ DOMAIN p = 1..Cardinality(places) /\ Len(p) = Cardinality(places)
  /\ \A i \in places : Rank(places, i) \in 1..Cardinality(places) /\ p[Rank(places, i)] = seq[i]
  /\ \A n \in 1..Cardinality(places) : \E i \in places : Rank(places, i) = n /\ p[n] = seq[i]
  /\ \A i, j \in places : i < j => Rank(places, i) < Rank(places, j)

LEMMA PickedKeeps ==
  ASSUME NEW m \in Nat, NEW places \in SUBSET (1..m), NEW seq
  PROVE  IsPick(PickedFrom(seq, places), seq, places)
<1> DEFINE card == Cardinality(places)
           rank == [i \in places |-> Rank(places, i)]
<1>1. /\ IsFiniteSet(places) /\ card \in 0..m
      /\ \A i \in places : Rank(places, i) \in 1..card
      /\ \A i, j \in places : i < j => Rank(places, i) < Rank(places, j)
  BY RanksCount
<1> HIDE DEF card
<1>2. ASSUME NEW i \in places, NEW j \in places, Rank(places, i) = Rank(places, j) PROVE i = j
  <2>1. i \in Int /\ j \in Int /\ Rank(places, i) \in Int /\ Rank(places, j) \in Int
    BY <1>1
  <2>2. ~(i < j) /\ ~(j < i)
    BY <1>1, <1>2, <2>1
  <2> QED
    BY <2>1, <2>2
<1>3. rank \in Injection(places, 1..card)
  <2>1. rank \in [places -> 1..card]
    BY <1>1
  <2>2. \A i, j \in places : rank[i] = rank[j] => i = j
    BY <1>2
  <2> HIDE DEF rank
  <2> QED
    BY <2>1, <2>2 DEF Injection, IsInjective
<1>4. IsFiniteSet(1..card) /\ Cardinality(1..card) = card
  BY <1>1, FS_Interval
<1>5. rank \in Surjection(places, 1..card)
  <2> HIDE DEF rank
  <2> QED
    BY <1>3, <1>4, FS_Injection DEF card
<1>6. \A n \in 1..card : \E i \in places : rank[i] = n
  <2> HIDE DEF rank
  <2> QED
    BY <1>5 DEF Surjection
<1>7. ASSUME NEW i \in places PROVE (CHOOSE j \in places : Rank(places, j) = Rank(places, i)) = i
  BY <1>2
<1>8. PickedFrom(seq, places) = [n \in 1..card |-> seq[CHOOSE i \in places : Rank(places, i) = n]]
  BY DEF PickedFrom, card
<1>9. ASSUME NEW i \in places PROVE PickedFrom(seq, places)[Rank(places, i)] = seq[i]
  <2>1. Rank(places, i) \in 1..card
    BY <1>1
  <2>2. PickedFrom(seq, places)[Rank(places, i)] = seq[CHOOSE j \in places : Rank(places, j) = Rank(places, i)]
    BY <1>8, <2>1
  <2> QED
    BY <1>7, <2>2
<1>10. ASSUME NEW n \in 1..card
       PROVE  \E i \in places : Rank(places, i) = n /\ PickedFrom(seq, places)[n] = seq[i]
  BY <1>6, <1>9
<1>11. Len(PickedFrom(seq, places)) = card
  BY <1>1, <1>8
<1> QED
  BY <1>1, <1>8, <1>9, <1>10, <1>11 DEF card, IsPick

LEMMA IsSequence ==
  ASSUME NEW n \in Nat, NEW f, f = [i \in 1..n |-> f[i]]
  PROVE  f \in Seq(Range(f)) /\ Len(f) = n /\ DOMAIN f = 1..n
<1>1. DOMAIN f = 1..n
  OBVIOUS
<1>2. \A i \in 1..n : f[i] \in Range(f)
  BY <1>1 DEF Range
<1>3. f \in [1..n -> Range(f)]
  BY <1>2
<1> QED
  BY <1>1, <1>3

\* As many places as there are stems: none stands twice in the order.
LEMMA PlacesOfStems ==
  ASSUME NEW stems \in SUBSET Range(StemOrder)
  PROVE  LET places == {i \in DOMAIN StemOrder : StemOrder[i] \in stems}
         IN  /\ Len(StemOrder) \in Nat /\ places \in SUBSET (1..Len(StemOrder))
             /\ Cardinality(places) \in Nat /\ Cardinality(stems) \in Nat
             /\ Cardinality(places) <= Cardinality(stems)
<1> DEFINE places == {i \in DOMAIN StemOrder : StemOrder[i] \in stems}
           f == [i \in places |-> StemOrder[i]]
<1>1. DOMAIN StemOrder = 1..Len(StemOrder) /\ Len(StemOrder) \in Nat
  BY ProfilesAssumption
<1>2. places \in SUBSET (1..Len(StemOrder))
  BY <1>1
<1>3. IsFiniteSet(places) /\ Cardinality(places) \in Nat
  <2> HIDE DEF places
  <2> QED
    BY <1>1, <1>2, RanksCount
<1>4. f \in [places -> stems] /\ \A i \in places : f[i] = StemOrder[i]
  OBVIOUS
<1>5. \A i, j \in places : f[i] = f[j] => i = j
  BY ProfilesAssumption, <1>4
<1>6. \A stem \in stems : \E i \in places : f[i] = stem
  BY DEF Range
<1> HIDE DEF places, f
<1>7. f \in Injection(places, stems) /\ f \in Surjection(places, stems)
  BY <1>4, <1>5, <1>6 DEF Injection, IsInjective, Surjection
<1>8. IsFiniteSet(stems)
  BY <1>3, <1>7, FS_Surjection
<1>9. Cardinality(stems) \in Nat /\ Cardinality(places) <= Cardinality(stems)
  BY <1>7, <1>8, FS_Injection, FS_CardinalityType
<1> QED
  BY <1>1, <1>2, <1>3, <1>9 DEF places

\* A whole file that the directory does not shadow is what its name finds.
LEMMA FileIsFound ==
  ASSUME NEW stems \in SUBSET Range(StemOrder), Cardinality(stems) <= TableSize,
         NEW j \in DOMAIN StemOrder, StemOrder[j] \in stems,
         NEW text, text = folder[FinalPath(StemOrder[j])], text.whole,
         NEW profiles, profiles = Parsed(Sources(stems)), NEW tbl, tbl = Overwritten(profiles),
         \A i \in DOMAIN StemOrder : i < j /\ StemOrder[i] \in stems =>
           folder[FinalPath(StemOrder[i])].name # text.name
  PROVE  At(tbl, FindIn(tbl, Len(profiles), text.name)) = text
<1> DEFINE places  == {i \in DOMAIN StemOrder : StemOrder[i] \in stems}
           kept    == PickedFrom(StemOrder, places)
           unmet   == {i \in DOMAIN Shipped : Shipped[i].name \notin stems}
           builtin == PickedFrom(Shipped, unmet)
           files   == [i \in DOMAIN kept |-> folder[FinalPath(kept[i])]]
           all     == files \o builtin
           src     == SubSeq(all, 1, IF Len(all) < TableSize THEN Len(all) ELSE TableSize)
           good    == {i \in DOMAIN src : src[i].whole}
           k       == Rank(places, j)
           card    == Cardinality(places)
<1>1. /\ Len(StemOrder) \in Nat /\ places \in SUBSET (1..Len(StemOrder))
      /\ card \in Nat /\ card <= TableSize
  <2>1. Cardinality(stems) \in Nat /\ TableSize \in Nat
    BY PlacesOfStems, ProfilesAssumption
  <2>2. /\ Len(StemOrder) \in Nat /\ places \in SUBSET (1..Len(StemOrder))
        /\ card \in Nat /\ card <= Cardinality(stems)
    BY PlacesOfStems
  <2> HIDE DEF card, places
  <2> QED
    BY <2>1, <2>2
<1>2. /\ DOMAIN kept = 1..card
      /\ \A i \in places : kept[Rank(places, i)] = StemOrder[i] /\ Rank(places, i) \in 1..card
      /\ \A n \in 1..card : \E i \in places : Rank(places, i) = n /\ kept[n] = StemOrder[i]
      /\ \A i, h \in places : i < h => Rank(places, i) < Rank(places, h)
  <2> HIDE DEF places
  <2>1. IsPick(kept, StemOrder, places)
    BY <1>1, PickedKeeps
  <2> HIDE DEF kept
  <2> QED
    BY <2>1 DEF IsPick
<1>3. j \in places /\ k \in 1..card /\ kept[k] = StemOrder[j]
  <2>1. j \in places
    OBVIOUS
  <2> HIDE DEF places, kept, card
  <2> QED
    BY <1>2, <2>1
<1>4. ASSUME NEW n \in 1..card, n < k
      PROVE  folder[FinalPath(kept[n])].name # text.name
  <2>1. PICK i \in places : Rank(places, i) = n /\ kept[n] = StemOrder[i]
    BY <1>2
  <2>2. i \in Int /\ j \in Int /\ n \in Int /\ k \in Int
    BY <1>1, <1>3
  <2>3. i \in DOMAIN StemOrder /\ StemOrder[i] \in stems
    OBVIOUS
  <2>4. ~(j < i) /\ i # j
    <3> HIDE DEF places, kept
    <3> QED
      BY <1>2, <1>3, <1>4, <2>1, <2>2
  <2>5. i < j
    BY <2>2, <2>4
  <2> HIDE DEF kept
  <2> QED
    BY <2>1, <2>3, <2>5
<1>5. /\ all \in Seq(UNION {Range(files), Range(builtin)}) /\ Len(all) \in Nat
      /\ card <= Len(all) /\ \A n \in 1..card : all[n] = folder[FinalPath(kept[n])]
  <2>1. DOMAIN files = 1..card /\ \A n \in 1..card : files[n] = folder[FinalPath(kept[n])]
    <3> HIDE DEF kept, card
    <3> QED
      BY <1>2
  <2>2. files \in Seq(Range(files)) /\ Len(files) = card
    <3>1. files = [n \in 1..card |-> files[n]]
      BY <2>1
    <3> HIDE DEF files, card
    <3> QED
      BY <1>1, <3>1, IsSequence
  <2>3. builtin \in Seq(Range(builtin))
    <3>1. Len(Shipped) \in Nat /\ unmet \in SUBSET (1..Len(Shipped))
      BY ProfilesAssumption
    <3> HIDE DEF unmet
    <3>2. Cardinality(unmet) \in Nat
      BY <3>1, RanksCount
    <3>3. builtin = [n \in 1..Cardinality(unmet) |-> builtin[n]]
      BY DEF PickedFrom
    <3> HIDE DEF builtin
    <3> QED
      BY <3>2, <3>3, IsSequence
  <2> HIDE DEF files, builtin, card, kept
  <2>4. files \in Seq(UNION {Range(files), Range(builtin)}) /\ builtin \in Seq(UNION {Range(files), Range(builtin)})
    BY <2>2, <2>3
  <2>5. /\ all \in Seq(UNION {Range(files), Range(builtin)}) /\ Len(all) = Len(files) + Len(builtin)
        /\ \A n \in 1..Len(files) : all[n] = files[n]
    BY <2>4
  <2>6. Len(builtin) \in Nat
    BY <2>3
  <2> HIDE DEF all
  <2> QED
    BY <1>1, <2>1, <2>2, <2>5, <2>6
<1>6. /\ Len(src) \in Nat /\ Len(src) <= TableSize /\ DOMAIN src = 1..Len(src)
      /\ card <= Len(src) /\ \A n \in 1..card : src[n] = folder[FinalPath(kept[n])]
  <2> HIDE DEF all, kept, card
  <2>1. TableSize \in Nat
    BY ProfilesAssumption
  <2> DEFINE size == IF Len(all) < TableSize THEN Len(all) ELSE TableSize
  <2>2. size \in Nat /\ size <= Len(all) /\ size <= TableSize /\ card <= size
    BY <1>1, <1>5, <2>1
  <2>3. src = SubSeq(all, 1, size)
    OBVIOUS
  <2> HIDE DEF size, src
  <2>4. Len(src) = size /\ DOMAIN src = 1..size /\ \A n \in 1..size : src[n] = all[n]
    BY <1>5, <2>2, <2>3
  <2> QED
    BY <1>1, <1>5, <2>2, <2>4
<1>7. src[k] = text /\ k \in good
  <2> HIDE DEF src, kept, card, k
  <2>1. src[k] = text /\ k \in 1..Len(src)
    BY <1>1, <1>3, <1>6
  <2> QED
    BY <1>6, <2>1
<1>8. ASSUME NEW n \in DOMAIN src, n < k PROVE src[n].name # text.name
  <2> HIDE DEF src, kept, card, k
  <2>1. n \in 1..card
    BY <1>1, <1>3, <1>6, <1>8
  <2> QED
    BY <1>4, <1>6, <1>8, <2>1
<1>9. profiles = PickedFrom(src, good)
  BY DEF Parsed, Sources
<1> DEFINE count == Cardinality(good)
           first == Rank(good, k)
<1>10. /\ Len(profiles) = count /\ count \in 0..TableSize
       /\ first \in 1..count /\ profiles[first] = text
       /\ \A n \in 1..count : \E i \in good : Rank(good, i) = n /\ profiles[n] = src[i]
       /\ \A i, h \in good : i < h => Rank(good, i) < Rank(good, h)
  <2>1. good \in SUBSET (1..Len(src))
    BY <1>6
  <2>2. TableSize \in Nat
    BY ProfilesAssumption
  <2> HIDE DEF good, src, k
  <2>3. count \in 0..Len(src)
    BY <1>6, <2>1, RanksCount
  <2>4. count \in 0..TableSize
    <3> HIDE DEF count
    <3> QED
      BY <1>6, <2>2, <2>3
  <2>5. IsPick(profiles, src, good)
    BY <1>6, <1>9, <2>1, PickedKeeps
  <2>6. /\ Len(profiles) = count /\ first \in 1..count /\ profiles[first] = src[k]
        /\ \A n \in 1..count : \E i \in good : Rank(good, i) = n /\ profiles[n] = src[i]
        /\ \A i, h \in good : i < h => Rank(good, i) < Rank(good, h)
    BY <1>7, <2>5 DEF IsPick
  <2> HIDE DEF count, first
  <2> QED
    BY <1>7, <2>4, <2>6
<1> HIDE DEF count
<1>11. ASSUME NEW n \in 1..count, n < first PROVE profiles[n].name # text.name
  <2>1. PICK i \in good : Rank(good, i) = n /\ profiles[n] = src[i]
    BY <1>10
  <2>2. i \in DOMAIN src /\ i \in Int /\ k \in Int
    <3>1. i \in DOMAIN src
      BY DEF good
    <3> HIDE DEF src, good, k
    <3> QED
      BY <1>1, <1>3, <1>6, <3>1
  <2>3. ~(k < i) /\ i # k
    <3>1. first \in Int /\ n \in Int
      <4> HIDE DEF first, good, src, k
      <4> QED
        BY <1>10
    <3>2. Rank(good, i) < first
      <4> HIDE DEF good
      <4> QED
        BY <1>11, <2>1
    <3>3. k < i => first < Rank(good, i)
      <4> HIDE DEF good
      <4> QED
        BY <1>7, <1>10
    <3> HIDE DEF good
    <3> QED
      BY <2>1, <3>1, <3>2, <3>3
  <2> HIDE DEF src, good, k
  <2>4. i < k
    BY <2>2, <2>3
  <2> QED
    BY <1>8, <2>1, <2>2, <2>4
<1> HIDE DEF src, good, k, first
<1>12. \A n \in 1..count : tbl[n] = profiles[n]
  <2>1. TableSize \in Nat
    BY ProfilesAssumption
  <2>2. \A n \in 1..count : n \in 1..TableSize /\ n <= Len(profiles)
    BY <1>10, <2>1
  <2> QED
    BY <2>2 DEF Overwritten
<1>13. FindIn(tbl, Len(profiles), text.name) = first
  <2> DEFINE hits == {n \in 1..count : tbl[n].name = text.name}
  <2>1. first \in hits
    BY <1>10, <1>12
  <2>2. ASSUME NEW n \in hits PROVE first <= n
    <3>1. n \in Int /\ first \in Int
      BY <1>10
    <3>2. ~(n < first)
      BY <1>11, <1>12
    <3> QED
      BY <3>1, <3>2
  <2>3. \A n \in hits : n \in Int
    OBVIOUS
  <2>4. FindIn(tbl, Len(profiles), text.name) =
          IF hits = {} THEN 0 ELSE CHOOSE i \in hits : \A h \in hits : i <= h
    BY <1>10 DEF FindIn, FirstIn
  <2> HIDE DEF hits
  <2>5. ASSUME NEW i \in hits, \A h \in hits : i <= h PROVE i = first
    BY <2>1, <2>2, <2>3, <2>5
  <2>6. (CHOOSE i \in hits : \A h \in hits : i <= h) = first
    BY <2>1, <2>2, <2>5
  <2> QED
    BY <2>1, <2>4, <2>6
<1> QED
  BY <1>10, <1>12, <1>13 DEF At

\* What a save or a deletion has come to.
SeatsShaped == DOMAIN seats = Seats /\ \A i \in Seats : DOMAIN seats[i] = SeatFields
StemsOnly ==
  \A file \in DOMAIN folder : file[2] = "jsonc" =>
    file[1] \in Range(StemOrder) /\ file = FinalPath(file[1])
InPlace(stem) ==
  /\ FinalPath(stem) \in DOMAIN folder
  /\ folder[FinalPath(stem)].whole /\ folder[FinalPath(stem)].name = stem
UnderWay ==
  /\ served.method = "PUT" /\ saving.step \in {"open", "written"}
  /\ saving.stem = served.name /\ saving.text.whole /\ saving.text.name = served.name
Ready ==
  /\ saving.step = "renamed"
  /\ \/ served.method = "PUT" /\ InPlace(served.name)
     \/ served.method = "DELETE" /\ FinalPath(served.name) \notin DOMAIN folder
WorkInv ==
  ~Idle => /\ DOMAIN saving = {"stem", "text", "step"} /\ served.name \in UserStems
           /\ UnderWay \/ Ready
DoneInv == SeatsShaped /\ StemsOnly /\ WorkInv /\ DoneMeansDone

\* A reply that does not say that anything of DoneMeansDone was done.
Silent(req, status) ==
  \/ status # 200 \/ req.method = "GET"
  \/ req.method = "POST" /\ req.route # "client"

LEMMA NothingSaid ==
  ASSUME NEW req, NEW told, Answers(req, told), Silent(req, told.status)
  PROVE  DoneMeansDone'
BY DEF Answers, Silent, DoneMeansDone

LEMMA UntoldKeeps ==
  ASSUME DoneInv, Idle, UNCHANGED <<folder, saving>>, SeatsShaped',
         NEW req, NEW told, Answers(req, told), Silent(req, told.status)
  PROVE  DoneInv'
<1>1. StemsOnly'
  BY DEF DoneInv, StemsOnly
<1>2. WorkInv'
  BY DEF WorkInv, Idle
<1> QED
  BY <1>1, <1>2, NothingSaid DEF DoneInv

LEMMA ShapesKept ==
  ASSUME DoneInv
  PROVE  /\ UNCHANGED seats => SeatsShaped'
         /\ Drops => SeatsShaped'
         /\ \A scan : ReloadFrom(scan) => SeatsShaped'
         /\ \A i, name : ChooseProfile(i, name) => SeatsShaped'
         /\ \A i \in Seats :
              /\ \A device : SeatTaken(i, device) => SeatsShaped'
              /\ SeatAcked(i) \/ SeatFreed(i) => SeatsShaped'
<1>1. DOMAIN EmptySeat = SeatFields
  BY DEF EmptySeat, SeatFields
<1>2. SeatsShaped
  BY DEF DoneInv
<1>3. UNCHANGED seats => SeatsShaped'
  BY <1>2 DEF SeatsShaped
<1>4. Drops => SeatsShaped'
  BY <1>1, <1>2 DEF Drops, SeatsShaped
<1>5. ASSUME NEW scan, ReloadFrom(scan) PROVE SeatsShaped'
  <2> DEFINE profiles == Parsed(Sources(scan))
             new == Overwritten(profiles)
             old == OldNames(table, new)
  <2>1. seats' = [i \in Seats |-> IF ~seats[i].in_use THEN seats[i]
                                 ELSE Reseated(seats[i], old[i], new, Len(profiles))]
    BY <1>5 DEF ReloadFrom
  <2> HIDE DEF profiles, new, old
  <2>2. \A i \in Seats : DOMAIN Reseated(seats[i], old[i], new, Len(profiles)) = SeatFields
    BY <1>2 DEF SeatsShaped, Reseated
  <2> QED
    BY <1>2, <2>1, <2>2 DEF SeatsShaped
<1>6. ASSUME NEW i, NEW name, ChooseProfile(i, name) PROVE SeatsShaped'
  <2>1. CASE UNCHANGED seats
    BY <1>3, <2>1
  <2>2. CASE seats' = [seats EXCEPT ![i] = Chosen(@, FindIn(table, loaded, name), name)]
    BY <1>2, <2>2 DEF SeatsShaped, Chosen
  <2> QED
    BY <1>6, <2>1, <2>2 DEF ChooseProfile, Refused, profileVars
<1>7. ASSUME NEW i \in Seats, NEW device, SeatTaken(i, device) PROVE SeatsShaped'
  BY <1>1, <1>2, <1>7 DEF SeatTaken, SeatsShaped
<1>8. ASSUME NEW i \in Seats, SeatAcked(i) \/ SeatFreed(i) PROVE SeatsShaped'
  BY <1>1, <1>2, <1>8 DEF SeatAcked, SeatFreed, SeatsShaped
<1> QED
  BY <1>3, <1>4, <1>5, <1>6, <1>7, <1>8

\* A client has what was picked for it.
LEMMA AssignedIsSo ==
  ASSUME DoneInv, Idle, NEW req, Assign(req)
  PROVE  DoneInv'
<1>1. req.method = "POST"
  BY DEF Assign, Is
<1>2. CASE Refuses(req, 400)
  <2>1. SeatsShaped' /\ UNCHANGED <<folder, saving>>
    BY <1>2, ShapesKept DEF Refuses, profileVars
  <2>2. Answers(req, Plain(400)) /\ Silent(req, Plain(400).status)
    BY <1>2, PlainTells DEF Refuses, Silent
  <2> QED
    BY <2>1, <2>2, UntoldKeeps
<1> DEFINE status == IF ~seats[req.slot].in_use THEN 409
                     ELSE IF ~KnownIn(table, loaded, req.name) THEN 400 ELSE 200
<1>3. CASE req.slot \in Seats /\ ChooseProfile(req.slot, req.name) /\ Answers(req, Plain(status))
  <2>1. SeatsShaped' /\ UNCHANGED <<folder, saving>>
    BY <1>3, ShapesKept DEF ChooseProfile, Refused, profileVars
  <2>2. CASE status # 200
    <3>1. Silent(req, Plain(status).status)
      <4> HIDE DEF status
      <4> QED
        BY <2>2, PlainTells DEF Silent
    <3> HIDE DEF status
    <3> QED
      BY <1>3, <2>1, <3>1, UntoldKeeps
  <2>3. CASE status = 200
    <3>1. seats[req.slot].in_use /\ KnownIn(table, loaded, req.name)
      BY <2>3
    <3> DEFINE index == FindIn(table, loaded, req.name)
    <3>2. /\ seats' = [seats EXCEPT ![req.slot] = Chosen(@, index, req.name)]
          /\ UNCHANGED <<table, loaded>>
      BY <1>3, <3>1 DEF ChooseProfile
    <3>3. At(table, index).name = req.name
      BY <3>1, FindLands
    <3> HIDE DEF index
    <3>4. seats'[req.slot].in_use /\ seats'[req.slot].at = index
      BY <1>3, <3>1, <3>2 DEF DoneInv, SeatsShaped, SeatFields, Chosen
    <3>5. served' = req
      BY <1>3 DEF Answers
    <3>6. DoneMeansDone'
      BY <1>1, <3>2, <3>3, <3>4, <3>5 DEF DoneMeansDone, At
    <3>7. StemsOnly' /\ WorkInv'
      BY <2>1 DEF DoneInv, StemsOnly, WorkInv, Idle
    <3> QED
      BY <2>1, <3>6, <3>7 DEF DoneInv
  <2> QED
    BY <2>2, <2>3
<1> QED
  BY <1>2, <1>3 DEF Assign

LEMMA NamesOfFiles ==
  ASSUME NEW stem, NEW other
  PROVE  /\ FinalPath(stem)[1] = stem /\ FinalPath(stem)[2] = "jsonc"
         /\ TempPath(stem)[2] = "tmp" /\ FinalPath(stem) # TempPath(other)
BY DEF FinalPath, TempPath

LEMMA SaveBegun ==
  ASSUME DoneInv, Idle, NEW req, req.method = "PUT", NEW match, NEW rev,
         PutBegins(req.name, match, rev), Answers(req, Pending)
  PROVE  DoneInv'
<1> DEFINE text == Profile(req.name, match, rev)
<1>1. /\ saving' = [stem |-> req.name, text |-> text, step |-> "open"] /\ req.name \in UserStems
      /\ folder' = With(folder, TempPath(req.name), Torn) /\ UNCHANGED seats
  BY DEF PutBegins
<1>2. text.whole /\ text.name = req.name
  BY DEF Profile
<1> HIDE DEF text
<1>3. served' = req /\ reply'.status = 0
  BY PlainTells DEF Answers, Pending
<1>4. WorkInv'
  BY <1>1, <1>2, <1>3 DEF WorkInv, UnderWay
<1>5. StemsOnly'
  BY <1>1, NamesOfFiles DEF DoneInv, StemsOnly, With
<1>6. DoneMeansDone'
  BY <1>3 DEF DoneMeansDone
<1> QED
  BY <1>1, <1>4, <1>5, <1>6, ShapesKept DEF DoneInv

LEMMA DeletionBegun ==
  ASSUME DoneInv, NEW req, req.method = "DELETE", DeleteRequest(req.name), Answers(req, Pending)
  PROVE  DoneInv'
<1>1. /\ saving' = [NotSaving EXCEPT !.step = "renamed"] /\ req.name \in UserStems
      /\ folder' = Without(folder, FinalPath(req.name)) /\ UNCHANGED seats
  BY DEF DeleteRequest
<1>2. saving'.step = "renamed" /\ DOMAIN saving' = {"stem", "text", "step"}
  BY <1>1 DEF NotSaving
<1>3. served' = req /\ reply'.status = 0
  BY PlainTells DEF Answers, Pending
<1>4. DOMAIN folder' = DOMAIN folder \ {FinalPath(req.name)}
  BY <1>1 DEF Without
<1>5. WorkInv'
  BY <1>1, <1>2, <1>3, <1>4 DEF WorkInv, Ready
<1>6. StemsOnly'
  BY <1>4 DEF DoneInv, StemsOnly
<1>7. DoneMeansDone'
  BY <1>3 DEF DoneMeansDone
<1> QED
  BY <1>1, <1>5, <1>6, <1>7, ShapesKept DEF DoneInv

LEMMA IdleIsNoStep == ASSUME Idle PROVE saving.step = "none"
<1>1. NotSaving.step = "none"
  BY DEF NotSaving
<1> QED
  BY <1>1 DEF Idle

LEMMA SaveGoesOn ==
  ASSUME DoneInv, GoOn, reply = Pending
  PROVE  DoneInv'
<1>1. UNCHANGED <<served, reply, seats>> /\ saving.step \in {"open", "written"}
  BY DEF GoOn, webOnly, PutWrites, PutRenames
<1>2. ~Idle
  BY <1>1, IdleIsNoStep
<1>3. /\ DOMAIN saving = {"stem", "text", "step"} /\ served.name \in UserStems /\ UnderWay
  BY <1>1, <1>2 DEF DoneInv, WorkInv, Ready
<1>4. DoneMeansDone'
  BY <1>1, PlainTells DEF DoneMeansDone, Pending
<1>5. CASE PutWrites
  <2>1. /\ saving'.step = "written" /\ saving'.stem = saving.stem /\ saving'.text = saving.text
        /\ DOMAIN saving' = {"stem", "text", "step"}
    BY <1>3, <1>5 DEF PutWrites
  <2>2. WorkInv'
    BY <1>1, <1>3, <2>1 DEF WorkInv, UnderWay
  <2>3. StemsOnly'
    BY <1>5 DEF PutWrites, DoneInv, StemsOnly
  <2> QED
    BY <1>1, <1>4, <2>2, <2>3, ShapesKept DEF DoneInv
<1>6. CASE PutRenames
  <2>1. saving'.step = "renamed" /\ DOMAIN saving' = {"stem", "text", "step"}
    BY <1>3, <1>6 DEF PutRenames
  <2> DEFINE final == FinalPath(served.name)
             rest == Without(folder, TempPath(served.name))
  <2>2. folder' = With(rest, final, saving.text)
    BY <1>3, <1>6 DEF PutRenames, UnderWay
  <2>3. DOMAIN rest \subseteq DOMAIN folder
    BY DEF Without
  <2> HIDE DEF rest, final
  <2>4. DOMAIN folder' = DOMAIN rest \cup {final} /\ folder'[final] = saving.text
    BY <2>2 DEF With
  <2>5. InPlace(served.name)'
    BY <1>1, <1>3, <2>4 DEF InPlace, UnderWay, final
  <2>6. WorkInv'
    BY <1>1, <1>3, <2>1, <2>5 DEF WorkInv, Ready, UnderWay
  <2>7. StemsOnly'
    <3>1. final = FinalPath(final[1]) /\ final[1] \in Range(StemOrder)
      BY <1>3, NamesOfFiles, ProfilesAssumption DEF final
    <3> QED
      BY <2>3, <2>4, <3>1 DEF DoneInv, StemsOnly
  <2> QED
    BY <1>1, <1>4, <2>6, <2>7, ShapesKept DEF DoneInv
<1> QED
  BY <1>5, <1>6 DEF GoOn

LEMMA SaveGivenUp ==
  ASSUME DoneInv, SaveFails
  PROVE  DoneInv'
<1>1. Idle' /\ UNCHANGED seats /\ folder' = Without(folder, TempPath(saving.stem))
  BY DEF SaveFails, PutFails, Idle
<1>2. reply'.status = 500
  BY PlainTells DEF SaveFails, Answers, SaveFailed
<1>3. DoneMeansDone' /\ WorkInv'
  BY <1>1, <1>2 DEF DoneMeansDone, WorkInv
<1>4. StemsOnly'
  BY <1>1 DEF Without, DoneInv, StemsOnly
<1> QED
  BY <1>1, <1>3, <1>4, ShapesKept DEF DoneInv

\* The names the directory holds are those of the profiles' files.
LEMMA IntactScanned ==
  ASSUME StemsOnly, NEW scan \in Scans
  PROVE  /\ Intact \subseteq Range(StemOrder)
         /\ Cardinality(Intact) <= TableSize => scan = Intact
<1> DEFINE stems == {file[1] : file \in {f \in DOMAIN folder : f[2] = "jsonc"}}
<1>1. ASSUME NEW stem PROVE stem \in stems <=> stem \in Intact
  <2>1. ASSUME stem \in stems PROVE stem \in Intact
    BY <2>1 DEF StemsOnly, Intact
  <2>2. ASSUME stem \in Intact PROVE stem \in stems
    BY <2>2, NamesOfFiles DEF Intact
  <2> QED
    BY <2>1, <2>2
<1>2. stems = Intact
  BY <1>1
<1>3. scan \in IF Cardinality(stems) <= TableSize THEN {stems}
              ELSE {taken \in SUBSET stems : Cardinality(taken) = TableSize}
  BY DEF Scans
<1> HIDE DEF stems
<1>4. Cardinality(Intact) <= TableSize => scan = Intact
  BY <1>2, <1>3
<1> QED
  BY <1>4 DEF Intact

\* After the last step of a save its profile is what its name finds.
LEMMA SavedIsSo ==
  ASSUME StemsOnly, InPlace(served.name), served.name \in UserStems,
         NEW scan \in Scans, ReloadFrom(scan), UNCHANGED <<folder, served>>
  PROVE  Saved(served)'
<1> DEFINE stem == served.name
           profiles == Parsed(Sources(scan))
           tbl == Overwritten(profiles)
           text == folder[FinalPath(stem)]
<1>1. table' = tbl /\ loaded' = Len(profiles)
  BY DEF ReloadFrom
<1>2. Intact' = Intact /\ \A s : Shadowed(s)' <=> Shadowed(s)
  BY DEF Intact, Shadowed
<1>3. stem \in Range(StemOrder) /\ stem \in Intact
  BY ProfilesAssumption DEF InPlace, Intact
<1>4. ASSUME Cardinality(Intact) <= TableSize, ~Shadowed(stem)
      PROVE  At(tbl, FindIn(tbl, Len(profiles), stem)) = text
  <2>1. scan = Intact /\ Intact \subseteq Range(StemOrder)
    BY <1>4, IntactScanned
  <2>2. PICK j \in DOMAIN StemOrder : StemOrder[j] = stem
    BY <1>3 DEF Range
  <2>3. text.whole /\ text.name = stem
    BY DEF InPlace
  <2>4. \A i \in DOMAIN StemOrder : i < j /\ StemOrder[i] \in Intact =>
           folder[FinalPath(StemOrder[i])].name # text.name
    BY <1>4, <2>2, <2>3 DEF Shadowed
  <2> HIDE DEF text, profiles, tbl, stem
  <2>5. text = folder[FinalPath(StemOrder[j])]
    BY <2>2 DEF text
  <2>6. profiles = Parsed(Sources(Intact))
    BY <2>1 DEF profiles
  <2>7. tbl = Overwritten(profiles)
    BY DEF tbl
  <2>8. At(tbl, FindIn(tbl, Len(profiles), text.name)) = text
    BY <1>3, <1>4, <2>1, <2>2, <2>3, <2>4, <2>5, <2>6, <2>7, FileIsFound
  <2> QED
    BY <2>3, <2>8
<1> HIDE DEF profiles, tbl
<1> QED
  BY <1>1, <1>2, <1>3, <1>4 DEF Saved, InPlace

\* After a deletion nobody is left with the deleted.
LEMMA DeletedIsSo ==
  ASSUME SeatsShaped, FinalPath(served.name) \notin DOMAIN folder,
         NEW scan, ReloadFrom(scan), UNCHANGED <<folder, served>>
  PROVE  Deleted(served)'
<1> DEFINE name == served.name
           profiles == Parsed(Sources(scan))
           count == Len(profiles)
           tbl == Overwritten(profiles)
           old == OldNames(table, tbl)
<1>1. /\ table' = tbl /\ loaded' = count
      /\ seats' = [i \in Seats |-> IF ~seats[i].in_use THEN seats[i]
                                  ELSE Reseated(seats[i], old[i], tbl, count)]
  BY DEF ReloadFrom
<1> HIDE DEF profiles, count, tbl, old
<1>2. name \notin Intact'
  BY DEF Intact
<1>3. ASSUME NEW i \in Seats, seats'[i].in_use, ~KnownIn(tbl, count, name)
      PROVE  At(tbl, seats'[i].at).name # name
  <2>1. seats[i].in_use /\ seats'[i].at = Landed(seats[i], old[i], tbl, count)
    BY <1>1, <1>3 DEF Reseated, SeatsShaped, SeatFields
  <2>2. CASE KnownIn(tbl, count, old[i]) /\ seats'[i].at = FindIn(tbl, count, old[i])
    <3>1. At(tbl, seats'[i].at).name = old[i]
      BY <2>2, FindLands
    <3> QED
      BY <1>3, <2>2, <3>1
  <2>3. CASE seats'[i].at = MatchIn(tbl, count, seats[i].device)
    <3> DEFINE hits == {h \in 1..count : Fits(tbl[h].match, seats[i].device)}
    <3>1. seats'[i].at = IF hits = {} THEN 0 ELSE CHOOSE h \in hits : \A g \in hits : h <= g
      BY <2>3 DEF MatchIn, FirstIn
    <3>2. CASE hits = {}
      <4>1. At(tbl, seats'[i].at) = BuiltinProfile
        BY <3>1, <3>2 DEF At
      <4> QED
        BY <1>3, <4>1 DEF KnownIn
    <3>3. CASE hits # {}
      <4>1. hits \in SUBSET Nat
        OBVIOUS
      <4> HIDE DEF hits
      <4>2. seats'[i].at \in hits
        BY <3>1, <3>3, <4>1, LeastExists
      <4>3. seats'[i].at \in 1..count /\ seats'[i].at # 0
        BY <4>2 DEF hits
      <4> QED
        BY <1>3, <4>3 DEF At, KnownIn
    <3> QED
      BY <3>2, <3>3
  <2> QED
    BY <2>1, <2>2, <2>3 DEF Landed
<1> QED
  BY <1>1, <1>2, <1>3 DEF Deleted

LEMMA CompletedIsSo ==
  ASSUME DoneInv, Completes
  PROVE  DoneInv'
<1>1. saving.step = "renamed" /\ UNCHANGED <<folder, served>> /\ saving' = NotSaving
  BY DEF Completes, PutReloads, Answers
<1>2. PICK scan \in Scans : ReloadFrom(scan)
  BY DEF Completes, PutReloads
<1>3. served.name \in UserStems /\ Ready
  <2>1. ~Idle
    BY <1>1, IdleIsNoStep
  <2> QED
    BY <1>1, <2>1 DEF DoneInv, WorkInv, UnderWay
<1>4. SeatsShaped'
  BY <1>2, ShapesKept
<1>5. StemsOnly' /\ WorkInv'
  BY <1>1 DEF DoneInv, StemsOnly, WorkInv, Idle
<1>6. DoneMeansDone'
  <2>1. CASE served.method = "PUT" /\ InPlace(served.name)
    <3>1. Saved(served)'
      BY <1>1, <1>2, <1>3, <2>1, SavedIsSo DEF DoneInv
    <3> QED
      BY <1>1, <2>1, <3>1 DEF DoneMeansDone
  <2>2. CASE served.method = "DELETE" /\ FinalPath(served.name) \notin DOMAIN folder
    <3>1. Deleted(served)'
      BY <1>1, <1>2, <2>2, DeletedIsSo DEF DoneInv
    <3> QED
      BY <1>1, <2>2, <3>1 DEF DoneMeansDone
  <2> QED
    BY <1>3, <2>1, <2>2 DEF Ready
<1> QED
  BY <1>4, <1>5, <1>6 DEF DoneInv

LEMMA MeanwhileIsQuiet ==
  ASSUME DoneInv, Meanwhile
  PROVE  DoneInv'
<1>1. served' = NoRequest /\ reply'.status # 200
  BY PlainTells DEF Meanwhile, Unasked, Pending
<1>2. DoneMeansDone'
  BY <1>1 DEF DoneMeansDone
<1>3. Idle /\ saving' = saving
  BY DEF Meanwhile, OfferMoves, AddressesMove, SeatTaken, SeatAcked, SeatFreed, HandEdit, profileVars
<1>4. WorkInv'
  BY <1>3 DEF WorkInv, Idle
<1>5. CASE OfferMoves \/ AddressesMove
  <2>1. UNCHANGED <<folder, seats>>
    BY <1>5 DEF OfferMoves, AddressesMove, profileVars
  <2> QED
    BY <1>2, <1>4, <2>1, ShapesKept DEF DoneInv, StemsOnly
<1>6. ASSUME NEW i \in Seats, NEW device, SeatTaken(i, device) \/ SeatAcked(i) \/ SeatFreed(i)
      PROVE  DoneInv'
  <2>1. UNCHANGED folder
    BY <1>6 DEF SeatTaken, SeatAcked, SeatFreed
  <2>2. SeatsShaped'
    BY <1>6, ShapesKept
  <2> QED
    BY <1>2, <1>4, <2>1, <2>2 DEF DoneInv, StemsOnly
<1>7. ASSUME NEW stem \in UserStems, NEW text, HandEdit(stem, text)
      PROVE  DoneInv'
  <2>1. folder' = With(folder, FinalPath(stem), text) /\ UNCHANGED seats
    BY <1>7 DEF HandEdit
  <2>2. stem \in Range(StemOrder)
    BY ProfilesAssumption
  <2>3. StemsOnly'
    BY <2>1, <2>2, NamesOfFiles DEF DoneInv, StemsOnly, With
  <2> QED
    BY <1>2, <1>4, <2>1, <2>3, ShapesKept DEF DoneInv
<1> QED
  BY <1>5, <1>6, <1>7 DEF Meanwhile

LEMMA RefusalIsQuiet ==
  ASSUME DoneInv, Idle, NEW req, NEW status, Refuses(req, status), status # 200
  PROVE  DoneInv'
<1>1. UNCHANGED <<folder, saving>> /\ SeatsShaped'
  BY ShapesKept DEF Refuses, profileVars
<1>2. Answers(req, Plain(status)) /\ Silent(req, Plain(status).status)
  BY PlainTells DEF Refuses, Silent
<1> QED
  BY <1>1, <1>2, UntoldKeeps

LEMMA ShowingIsQuiet ==
  ASSUME DoneInv, Idle, NEW req, NEW told, Shows(req, told), req.method = "GET"
  PROVE  DoneInv'
<1>1. UNCHANGED <<folder, saving>> /\ SeatsShaped'
  BY ShapesKept DEF Shows, profileVars
<1>2. Answers(req, told) /\ Silent(req, told.status)
  BY DEF Shows, Silent
<1> QED
  BY <1>1, <1>2, UntoldKeeps

LEMMA ServedAndDone ==
  ASSUME DoneInv, Idle, NEW req, Serves(req)
  PROVE  DoneInv'
<1>1. CASE NotServed(req)
  BY <1>1, RefusalIsQuiet DEF NotServed
<1>2. CASE ShowPage(req) \/ ShowProfiles(req) \/ ShowState(req)
  BY <1>2, ShowingIsQuiet DEF ShowPage, ShowProfiles, ShowState, Is
<1>3. CASE ShowQr(req)
  BY <1>3, RefusalIsQuiet, ShowingIsQuiet DEF ShowQr, Is
<1>4. CASE ShowProfile(req)
  BY <1>4, RefusalIsQuiet, ShowingIsQuiet DEF ShowProfile, Is
<1>5. CASE ShowInput(req)
  BY <1>5, RefusalIsQuiet, ShowingIsQuiet DEF ShowInput, Is
<1>6. CASE BeginRequest(req) \/ CancelRequest(req)
  <2>1. UNCHANGED <<folder, saving>> /\ (Drops \/ UNCHANGED seats)
    BY <1>6 DEF BeginRequest, CancelRequest
  <2>2. req.method = "POST" /\ req.route # "client"
    BY <1>6 DEF BeginRequest, CancelRequest, Is
  <2>3. Answers(req, Plain(200)) \/ Answers(req, Plain(409))
    BY <1>6 DEF BeginRequest, CancelRequest
  <2> QED
    BY <2>1, <2>2, <2>3, ShapesKept, UntoldKeeps DEF Silent
<1>7. CASE Reload(req)
  <2>1. UNCHANGED <<folder, saving>> /\ SeatsShaped'
    BY <1>7, ShapesKept DEF Reload, ReloadRequest
  <2>2. Answers(req, Plain(200)) /\ Silent(req, Plain(200).status)
    BY <1>7 DEF Reload, Is, Silent
  <2> QED
    BY <2>1, <2>2, UntoldKeeps
<1>8. CASE PutRequest(req)
  <2>1. req.method = "PUT"
    BY <1>8 DEF PutRequest, Is
  <2> QED
    BY <1>8, <2>1, RefusalIsQuiet, SaveBegun DEF PutRequest
<1>9. CASE DeleteAsked(req)
  <2>1. req.method = "DELETE"
    BY <1>9 DEF DeleteAsked, Is
  <2> QED
    BY <1>9, <2>1, RefusalIsQuiet, DeletionBegun DEF DeleteAsked
<1>10. CASE Assign(req)
  BY <1>10, AssignedIsSo
<1> QED
  BY <1>1, <1>2, <1>3, <1>4, <1>5, <1>6, <1>7, <1>8, <1>9, <1>10 DEF Serves

LEMMA DoneStep ==
  ASSUME DoneInv, WebInv, [WebNext]_webVars
  PROVE  DoneInv'
<1>1. CASE UNCHANGED webVars
  <2>1. UNCHANGED <<folder, table, loaded, seats, saving, served, reply>>
    BY <1>1 DEF webVars, webOnly, profileVars
  <2>2. SeatsShaped' /\ StemsOnly' /\ WorkInv'
    BY <2>1 DEF DoneInv, SeatsShaped, StemsOnly, WorkInv, Idle, UnderWay, Ready, InPlace
  <2>3. Intact' = Intact
    BY <2>1 DEF Intact
  <2>4. /\ Saved(served)' <=> Saved(served)
        /\ Deleted(served)' <=> Deleted(served)
    BY <2>1, <2>3 DEF Saved, Deleted, Shadowed
  <2>5. DoneMeansDone'
    BY <2>1, <2>4 DEF DoneInv, DoneMeansDone
  <2> QED
    BY <2>2, <2>5 DEF DoneInv
<1>2. CASE Idle /\ \E req \in WebRequests : Serves(req)
  BY <1>2, ServedAndDone
<1>3. CASE GoOn
  <2>1. ~Idle
    BY <1>3, IdleIsNoStep DEF GoOn, PutWrites, PutRenames
  <2> QED
    BY <1>3, <2>1, SaveGoesOn DEF WebInv, BusyInv
<1> QED
  BY <1>1, <1>2, <1>3, SaveGivenUp, CompletedIsSo, MeanwhileIsQuiet DEF WebNext

LEMMA DoneInitially == ASSUME WebInit PROVE DoneInv
<1>1. /\ folder = << >> /\ seats = [i \in Seats |-> EmptySeat] /\ saving = NotSaving
      /\ served = NoRequest /\ reply.status = 0
  BY PlainTells DEF WebInit, ProfilesInit, Pending
<1>2. SeatsShaped
  BY <1>1 DEF SeatsShaped, EmptySeat, SeatFields
<1>3. StemsOnly
  <2>1. DOMAIN folder = {}
    BY <1>1
  <2> QED
    BY <2>1 DEF StemsOnly
<1> QED
  BY <1>1, <1>2, <1>3 DEF DoneInv, WorkInv, Idle, DoneMeansDone

\* What the page is told is so: a secret it is shown is the one that counts now, and
\* of what is answered with 200 a saved profile is in its file and is what sessions
\* and the editor find under its name, a deleted one is gone from the directory and
\* from every session, and a client plays what was picked for it (ui_dispatch,
\* profile_store_save, apad_server_reload_profiles, apad_server_set_profile).
THEOREM AnswersStayTrue == WebSpec => []AnswersAreTrue
<1>1. WebInit => WebInv /\ DoneInv
  BY WebInitially, DoneInitially
<1>2. (WebInv /\ DoneInv) /\ [WebNext]_webVars => (WebInv /\ DoneInv)'
  BY WebStep, DoneStep
<1>3. WebInv /\ DoneInv => AnswersAreTrue
  BY DEF WebInv, DoneInv, AnswersAreTrue
<1> QED
  BY <1>1, <1>2, <1>3, PTL DEF WebSpec
=============================================================================
