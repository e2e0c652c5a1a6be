--------------------------------- MODULE Mdns ----------------------------------
(***************************************************************************)
(* server/host/linux/mdns.h: the advertise-only multicast DNS responder of  *)
(* the Linux host.  Once per lap of the host's loop mdns_poll re-reads the  *)
(* facts it advertises, follows its announcement schedule and answers a few *)
(* queries; nothing in it may block.                                        *)
(*                                                                         *)
(* A packet is what a browser can tell: the records it answers and adds,    *)
(* the networks its A records name, the facts in its TXT, how long all that *)
(* may be kept, and the network it left on.  A network has one address, and *)
(* the default route goes to the first one.  The clock ticks; a stored time *)
(* is kept as the time since it, or until it.                               *)
(***************************************************************************)
EXTENDS Naturals, Sequences, FiniteSetsExt

CONSTANTS
  Networks,       \* the interfaces an address can be on
  AddressLists,   \* what host_enumerate_own_ipv4 may return
  FreeCounts,     \* APAD_MAX_SESSIONS less the connected clients
  FactsPoll,      \* MDNS_FACTS_POLL_MS
  AnnounceGap,    \* MDNS_ANNOUNCE_GAP_MS, and the second of RFC 6762 section 6
  AnnounceCount,  \* MDNS_ANNOUNCE_COUNT
  UnicastBurst,   \* MDNS_UNICAST_BURST
  UnicastRate,    \* MDNS_UNICAST_RATE, per tick
  Questions,      \* the questions asked
  MaxChanges      \* bound: how often the facts change

VARIABLES
  responder,  \* struct mdns_responder
  truth,      \* what the library and the kernel would say now
  heard,      \* the packets of the last step
  lap,        \* whether the host's loop has come by since the last tick
  changes,    \* bound: changes of the truth so far
  ears        \* history: what the networks heard, for the properties

mdnsVars == <<responder, truth, heard, lap, changes, ears>>

Nowhere == "NOWHERE"
Loopback == "LO"

\* No two interfaces share an address, and the second of an answer is not zero.
ASSUME MdnsAssumption ==
  /\ IsFiniteSet(Networks) /\ Nowhere \notin Networks
  /\ AddressLists \subseteq Seq(Networks)
  /\ \A list \in AddressLists : \A i, j \in DOMAIN list : list[i] = list[j] => i = j
  /\ {FactsPoll, AnnounceGap, UnicastBurst} \subseteq Nat /\ UnicastRate \in Nat \ {0}

On(list) == {list[k] : k \in DOMAIN list}
Grown(age, top) == IF age < top THEN age + 1 ELSE top

\* One more than the second an answer has to wait, and enough to fill a bucket.
Longest == AnnounceGap + 1
Refilled == (UnicastBurst + UnicastRate - 1) \div UnicastRate

-----------------------------------------------------------------------------
(* Questions and packets.                                                   *)

Owns == [service |-> {"PTR"}, instance |-> {"SRV", "TXT"}, hostname |-> {"A"},
         meta |-> {"META_PTR"}, other |-> {}]

TypeOf(record) == IF record = "META_PTR" THEN "PTR" ELSE record

\* mdns_match_question.
Matched(q) == {r \in Owns[q.name] : q.class \in {"IN", "ANY"} /\ q.type \in {"ANY", TypeOf(r)}}

\* A PTR brings along what a resolver asks for next, a SRV its addresses.
Additional(records) ==
  CASE "PTR" \in records -> {"SRV", "TXT", "A"} \ records
    [] "PTR" \notin records /\ "SRV" \in records -> {"A"} \ records
    [] OTHER -> {}

\* Mutant: one host name carries all addresses, whatever network it goes to.
AddressesAll(list, index) == On(list)

\* The address of the interface the packet is for; every one if that is unknown.
Addresses(list, index) == IF index = 0 THEN On(list) ELSE {list[index]}

TimeToLive == [ANSWER |-> 120, LEGACY |-> 10, GOODBYE |-> 0]

\* mdns_build_packet; nothing is sent that answers and adds nothing.
Packet(m, records, kind, by, index, on) ==
  LET names == "A" \in records \cup Additional(records)
      addresses == IF names THEN Addresses(m.facts.addrs, index) ELSE {}
  IN  {p \in {[records |-> records, adds |-> Additional(records), addresses |-> addresses,
               free |-> m.facts.free, open |-> m.facts.open, flush |-> kind # "LEGACY",
               ttl |-> TimeToLive[kind], by |-> by, on |-> on]} :
         p.records # {"A"} \/ addresses # {}}

-----------------------------------------------------------------------------
(* Sending.                                                                 *)

\* IP_MULTICAST_IF fails for an address that is gone, and its result is not
\* read: the packet leaves where the last one that worked pointed.
Pointed(m, chosen) ==
  LET worked == {k \in chosen : m.facts.addrs[k] \in On(truth.addrs)}
  IN  IF worked = {} THEN m.out_if ELSE m.facts.addrs[Max(worked)]

Leaving(interface) ==
  CASE interface \in On(truth.addrs) -> interface
    [] interface = Nowhere /\ truth.addrs # <<>> -> truth.addrs[1]
    [] OTHER -> Nowhere

Unlimited(m, k) == TRUE
Waited(m, k) == m.mcast[k] = Longest

\* mdns_emit_multicast: one packet for each interface chosen, or one without
\* an address if there is none.
Picked(m, only, limited) ==
  {k \in DOMAIN m.facts.addrs : only \in {0, k} /\ (limited => Waited(m, k))}

Multicast(m, records, kind, by, only) ==
  LET chosen == Picked(m, only, by = "ANSWER")
  IN  [m |-> [m EXCEPT !.out_if = Pointed(m, chosen),
                       !.mcast = [k \in DOMAIN @ |-> IF k \in chosen THEN 0 ELSE @[k]]],
       packets |->
         IF m.facts.addrs = <<>>
           THEN Packet(m, records, kind, by, 0, Leaving(m.out_if))
           ELSE UNION {Packet(m, records, kind, by, k,
                              Leaving(Pointed(m, {j \in chosen : j <= k}))) : k \in chosen}]

Announcement(m, kind) ==
  LET said == Multicast(m, {"PTR", "SRV", "TXT", "A"}, kind, "ANNOUNCEMENT", 0)
  IN  [said EXCEPT !.m.ever = TRUE, !.m.since = 0]

-----------------------------------------------------------------------------
(* The schedule.                                                            *)

\* mdns_refresh_facts, every FactsPoll; a change is worth announcing unless an
\* announcement is pending or less than a second old.
Refreshed(m) ==
  IF m.facts_age <= FactsPoll THEN m
  ELSE LET again == /\ truth # m.facts /\ m.ever /\ m.left = 0
                    /\ m.since > AnnounceGap
           fresher == [m EXCEPT !.facts = truth, !.facts_age = 0]
       IN  IF again THEN [fresher EXCEPT !.left = 1, !.due = 0] ELSE fresher

AnnounceDue(m) == m.left > 0 /\ m.due = 0

Scheduled(m) ==
  IF AnnounceDue(m)
    THEN LET said == Announcement(m, "ANSWER")
         IN  [said EXCEPT !.m.left = @ - 1, !.m.due = AnnounceGap]
    ELSE [m |-> m, packets |-> {}]

-----------------------------------------------------------------------------
(* Answering.                                                               *)

\* mdns_unicast_allowed: the bucket is refilled first, then one token taken.
Bucket(m) ==
  LET tokens == m.tokens + m.refill_age * UnicastRate
  IN  [m EXCEPT !.tokens = IF tokens > UnicastBurst THEN UnicastBurst ELSE tokens,
                !.refill_age = 0]

IndexOf(m, network) ==
  LET at == {k \in DOMAIN m.facts.addrs : m.facts.addrs[k] = network}
  IN  IF at = {} THEN 0 ELSE Max(at)

Unicast(m, records, kind, network) ==
  LET full == Bucket(m)
  IN  IF full.tokens = 0 THEN [m |-> full, packets |-> {}]
      ELSE [m |-> [full EXCEPT !.tokens = @ - 1],
            packets |-> Packet(m, records, kind, "UNICAST", IndexOf(m, network), network)]

\* mdns_handle: a legacy querier and a question with the QU bit are answered
\* alone, any other on the network that asked, or on all if that is unknown.
Handled(m, q) ==
  CASE Matched(q) = {} -> [m |-> m, packets |-> {}]
    [] Matched(q) # {} /\ q.legacy -> Unicast(m, Matched(q), "LEGACY", q.from)
    [] Matched(q) # {} /\ ~q.legacy /\ q.unicast -> Unicast(m, Matched(q), "ANSWER", q.from)
    [] OTHER -> Multicast(m, Matched(q), "ANSWER", "ANSWER", IndexOf(m, q.from))

Running(m) == m.state = "RUNNING" /\ m.fd

-----------------------------------------------------------------------------
(* The responder's life.                                                    *)

Never == FactsPoll + 1

\* mdns_open: which failure it ends in is the environment's choice.  The group
\* is joined here, on the networks there are now, and never again.
Opened(state) ==
  [state |-> state, fd |-> state = "RUNNING",
   joined |-> IF state # "RUNNING" THEN {} ELSE On(truth.addrs) \cup {Loopback},
   left |-> IF state = "RUNNING" THEN AnnounceCount ELSE 0, due |-> 0,
   ever |-> FALSE, since |-> Longest,
   facts |-> [free |-> Max(FreeCounts), open |-> FALSE, addrs |-> truth.addrs],
   facts_age |-> Never, out_if |-> Nowhere,
   mcast |-> [k \in 1 .. Cardinality(Networks) |-> Longest],
   tokens |-> UnicastBurst, refill_age |-> 0]

MdnsInit ==
  /\ truth \in [free : FreeCounts, open : {FALSE}, addrs : AddressLists]
  /\ \E state \in {"RUNNING", "DISABLED", "BIND_FAILED", "SOCKET_FAILED"} :
       responder = Opened(state)
  /\ heard = {} /\ lap = FALSE /\ changes = 0
  /\ ears = [quiet |-> [n \in Networks |-> Longest], settled |-> Longest,
             drawn |-> 0, told |-> truth, untold |-> 0]

\* What the networks heard of a step: how long each has been quiet, how long
\* the responder has known the right addresses, how many unicast replies a
\* reader of the rate would still count, what browsers were told and for how
\* long that has been wrong.
Overheard(m, packets) ==
  LET announced == \E p \in packets : p.by = "ANNOUNCEMENT"
  IN  [ears EXCEPT
         !.quiet = [n \in Networks |->
                      IF \E p \in packets : p.on = n /\ p.by # "UNICAST" THEN 0 ELSE @[n]],
         !.drawn = @ + Cardinality({p \in packets : p.by = "UNICAST"}),
         !.told = IF announced THEN m.facts ELSE @,
         !.untold = IF announced THEN 0 ELSE @]

\* mdns_poll, with a question in the socket or none.  A question is heard on a
\* network the group was joined on.
PollMdns ==
  /\ Running(responder)
  /\ \E question \in {{}} \cup {{q} : q \in {q \in Questions : q.from \in responder.joined}} :
       LET spoke == Scheduled(Refreshed(responder))
           answered == IF question = {} THEN [m |-> spoke.m, packets |-> {}]
                       ELSE Handled(spoke.m, CHOOSE q \in question : TRUE)
           packets == spoke.packets \cup answered.packets
       IN  /\ responder' = answered.m
           /\ heard' = packets
           /\ ears' = Overheard(spoke.m, packets)
  /\ lap' = TRUE
  /\ UNCHANGED <<truth, changes>>

\* mdns_close: everything said is taken back.
CloseMdns ==
  /\ Running(responder)
  /\ heard' = Announcement(responder, "GOODBYE").packets
  /\ responder' = [responder EXCEPT !.fd = FALSE]
  /\ UNCHANGED <<truth, lap, changes, ears>>

\* A client comes or goes, a window opens or closes, an address is gained or lost.
FactsChange ==
  /\ changes < MaxChanges /\ changes' = changes + 1
  /\ truth' \in [free : FreeCounts, open : BOOLEAN, addrs : AddressLists]
  /\ truth' # truth
  /\ heard' = {}
  /\ ears' = [ears EXCEPT !.settled = IF truth'.addrs = truth.addrs THEN @ ELSE 0]
  /\ UNCHANGED <<responder, lap>>

Older(m) ==
  [m EXCEPT !.due = IF @ > 0 THEN @ - 1 ELSE 0, !.since = Grown(@, Longest),
            !.facts_age = Grown(@, Never), !.refill_age = Grown(@, Refilled),
            !.mcast = [k \in DOMAIN @ |-> Grown(@[k], Longest)]]

MdnsElapse ==
  /\ lap \/ ~Running(responder)
  /\ lap' = FALSE
  /\ responder' = Older(responder)
  /\ heard' = {}
  /\ ears' = [ears EXCEPT
        !.quiet = [n \in Networks |-> Grown(@[n], Longest)],
        !.settled = IF responder.facts.addrs = truth.addrs THEN Grown(@, Longest) ELSE 0,
        !.drawn = IF @ > UnicastRate THEN @ - UnicastRate ELSE 0,
        !.untold = IF Running(responder) /\ ears.told # truth THEN Grown(@, Longest + FactsPoll + 1) ELSE 0]
  /\ UNCHANGED <<truth, changes>>

MdnsNext == PollMdns \/ CloseMdns \/ FactsChange \/ MdnsElapse

MdnsSpec == MdnsInit /\ [][MdnsNext]_mdnsVars

-----------------------------------------------------------------------------

\* The A record a browser gets is the address of the network it gets it on, so
\* that a phone never connects to an address it cannot reach; announcements,
\* answers and unicast replies alike, as long as the cached addresses are those
\* of the host (mdns_put_record, mdns_emit_multicast; mdns.h 466-499, 768-836).
AddressOfItsNetwork ==
  responder.facts.addrs = truth.addrs =>
    \A p \in heard : p.on \in On(truth.addrs) => p.addresses \subseteq {p.on}

\* However it is asked, the responder amplifies nothing: an answer is multicast
\* on a network that heard nothing from it for a second, unless the interfaces
\* have just been renumbered, and unicast replies stay within the bucket over
\* every stretch of time (mdns_emit_multicast, mdns_unicast_allowed; mdns.h
\* 768-836, 948-971).
NoAmplifier ==
  [][ /\ \A p \in heard' :
           p.by = "ANSWER" /\ p.on \in Networks /\ ears.settled = Longest
             => ears.quiet[p.on] = Longest
      /\ ears'.drawn <= UnicastBurst ]_mdnsVars

\* mdns.h 128-131: "the change-triggered re-announce below (mdns_poll) closes
\* the window to about a second in practice".
ChangeIsAnnounced == ears.untold <= AnnounceGap + FactsPoll + 1
=============================================================================
