------------------------------ MODULE HostStart ------------------------------
(***************************************************************************)
(* What main() of either host does around the loop that HostLoop models:   *)
(* the options, the resources it opens one after the other, what a failure *)
(* of each of them means, and the way out (linux/main.c, windows/main.c).  *)
(* The addresses it shows and hands to the library come from ipaddr.h.     *)
(*                                                                         *)
(* A resource is a name in held.  What the kernel takes back from a process*)
(* that is killed is not counted.                                          *)
(***************************************************************************)
EXTENDS Naturals, Sequences

CONSTANTS
  Programs,         \* the programs examined: "linux", "windows"
  InterfaceLists,   \* what the machine's list of interfaces may be
  MaxOwn,           \* HOST_MAX_OWN_ADDRS
  MaxMoves          \* bound: changes of that list

ASSUME HostStartAssumption ==
  /\ Programs \subseteq {"linux", "windows"}
  /\ MaxOwn \in Nat \ {0} /\ MaxMoves \in Nat

VARIABLES
  program,    \* which of the two programs this is
  options,    \* what the command line and the environment ask for
  step,       \* where main() is
  held,       \* what the program has opened and not yet closed
  failed,     \* history: what did not open
  handlers,   \* whether the signal handlers, or the console handler, are in place
  leaving,    \* g_should_exit
  code,       \* the exit status
  discovery,  \* what the operator was told about automatic discovery
  browsed,    \* whether a browser was sent to the page
  nics,       \* the interfaces as they are now
  moves,      \* counts their changes
  subnets,    \* cfg.broadcast_addrs
  banner      \* the addresses printed at startup and the one it leads with

startVars == <<program, options, step, held, failed, handlers, leaving, code, discovery,
               browsed, nics, moves, subnets, banner>>

world   == <<program, options, nics, moves>>
outcome == <<held, failed, code>>
exit    == <<handlers, leaving>>
notices == <<discovery, browsed, subnets, banner>>

-----------------------------------------------------------------------------
(* ipaddr.h                                                                *)

\* Windows sees an interface by the type of its adapter, Linux by its name: a
\* bridge is an Ethernet adapter for the one and "docker0" for the other.
\* Tailscale's range of addresses is the same everywhere.
KindLinux(nic) ==
  IF nic.cgnat \/ nic.type = "tailscale" THEN "TAILSCALE"
  ELSE IF nic.type \in {"bridge", "tunnel"} THEN "VIRTUAL" ELSE "LAN"
KindWindows(nic) ==
  IF nic.cgnat THEN "TAILSCALE"
  ELSE IF nic.type \in {"tailscale", "tunnel"} THEN "VIRTUAL" ELSE "LAN"

\* sysfs (phy80211, device), or the adapter's type.
MediumLinux(nic) ==
  IF nic.wireless THEN "WIFI" ELSE IF nic.type = "nic" THEN "ETHERNET" ELSE "OTHER"
MediumWindows(nic) ==
  IF nic.wireless THEN "WIFI" ELSE IF nic.type \in {"nic", "bridge"} THEN "ETHERNET" ELSE "OTHER"

OwnLinux(nic)   == [kind |-> KindLinux(nic), medium |-> MediumLinux(nic),
                    address |-> nic.address, broadcast |-> nic.broadcast]
OwnWindows(nic) == [kind |-> KindWindows(nic), medium |-> MediumWindows(nic),
                    address |-> nic.address, broadcast |-> FALSE]

\* host_enumerate_own_ipv4: up, not a loopback, IPv4, and no more than fit.
Enumerated ==
  LET usable == SelectSeq(nics, LAMBDA nic : nic.up /\ ~nic.loopback /\ nic.ipv4)
      kept   == SubSeq(usable, 1, IF Len(usable) < MaxOwn THEN Len(usable) ELSE MaxOwn)
  IN  [i \in 1..Len(kept) |-> IF program = "linux" THEN OwnLinux(kept[i]) ELSE OwnWindows(kept[i])]

\* The loops of host_pick_default_addr: the best kind there is, the best medium
\* of that kind, and the first address that has both.
Kinds == <<"LAN", "TAILSCALE", "VIRTUAL">>
Media == <<"WIFI", "ETHERNET", "OTHER">>
Nth(order, x) == CHOOSE n \in DOMAIN order : order[n] = x
Lowest(S) == CHOOSE n \in S : \A m \in S : n <= m
KindAt(nic) == Nth(Kinds, nic.kind)
MediumAt(nic) == Nth(Media, nic.medium)
Default(own) ==
  LET kind   == Lowest({KindAt(own[i]) : i \in DOMAIN own})
      those  == {i \in DOMAIN own : KindAt(own[i]) = kind}
      medium == Lowest({MediumAt(own[i]) : i \in those})
  IN  Lowest({i \in those : MediumAt(own[i]) = medium})

-----------------------------------------------------------------------------
(* The order of main()                                                     *)

\* What main() does next; the ways in and out of the two programs differ a little.
After(at) ==
  LET On(linux, windows) == IF program = "linux" THEN linux ELSE windows
  IN  CASE at = "options"   -> "profiles"
        [] at = "profiles"  -> "net"
        [] at = "net"       -> "udp"
        [] at = "udp"       -> On("subnets", "library")
        [] at = "subnets"   -> "library"
        [] at = "library"   -> "handlers"
        [] at = "handlers"  -> "banner"
        [] at = "banner"    -> "discovery"
        [] at = "discovery" -> "ui"
        [] at = "ui"        -> On("serving", "tray")
        [] at = "tray"      -> "browser"
        [] at = "browser"   -> "serving"
        [] at = "serving"   -> On("mdns close", "tray close")
        [] at \in {"mdns close", "tray close"} -> "ui close"
        [] at = "ui close"  -> "destroy"
        [] at = "destroy"   -> "udp close"
        [] at = "udp close" -> "ended"

Proceeds     == step' = After(step)
Ends(status) == step' = "ended" /\ code' = status

-----------------------------------------------------------------------------
(* The way in                                                              *)

\* --help and an option nobody knows, before anything is opened.
ReadOptions ==
  /\ step = "options"
  /\ CASE options.ask = "start"   -> Proceeds /\ UNCHANGED code
       [] options.ask = "help"    -> Ends(0)
       [] options.ask = "unknown" -> Ends(1)
  /\ UNCHANGED <<world, exit, notices, held, failed>>

\* profile_sources_build: the files of the directory are copies on the heap,
\* the profiles it adds are not; no directory, no copies.
ReadProfiles ==
  /\ step = "profiles"
  /\ Proceeds
  /\ held' \in {held, held \cup {"files"}}
  /\ UNCHANGED <<world, exit, notices, failed, code>>

\* What the program cannot do without: it says so, frees what it holds and ends.
\* Mutant: only what came last is given back.
GivesUpForgetting(what, kept) == held' = held \ {what} /\ failed' = failed \cup {what} /\ Ends(1)
GivesUp(what, kept)           == held' = kept /\ failed' = failed \cup {what} /\ Ends(1)

OpenNet ==
  /\ step = "net"
  /\ \/ Proceeds /\ UNCHANGED outcome
     \/ GivesUp("net", held \ {"files"})
  /\ UNCHANGED <<world, exit, notices>>

OpenUdp ==
  /\ step = "udp"
  /\ \/ Proceeds /\ held' = held \cup {"udp"} /\ UNCHANGED <<failed, code>>
     \/ GivesUp("udp", held \ {"files"})
  /\ UNCHANGED <<world, exit, notices>>

\* Linux: the broadcast addresses DISCOVER is not answered to, as they are now.
TakeSubnets ==
  /\ step = "subnets"
  /\ Proceeds
  /\ subnets' = {Enumerated[i].address : i \in {j \in DOMAIN Enumerated : Enumerated[j].broadcast}}
  /\ UNCHANGED <<world, outcome, exit, discovery, browsed, banner>>

\* apad_server_create copies the profiles and brings the backend up; the
\* copies go either way.
CreateLibrary ==
  /\ step = "library"
  /\ \/ Proceeds /\ held' = (held \ {"files"}) \cup {"library"} /\ UNCHANGED <<failed, code>>
     \/ GivesUp("library", held \ {"files", "udp"})
  /\ UNCHANGED <<world, exit, notices>>

\* signal(); SetConsoleCtrlHandler may fail, which is said and not fatal.
TakeHandlers ==
  /\ step = "handlers"
  /\ Proceeds
  /\ handlers' \in (IF program = "linux" THEN {TRUE} ELSE BOOLEAN)
  /\ UNCHANGED <<world, outcome, notices, leaving>>

\* Linux leads with one address and lists the others; Windows lists all, and its
\* page leads with the one.
ShowAddresses ==
  /\ step = "banner"
  /\ Proceeds
  /\ banner' = [own |-> Enumerated,
                lead |-> IF Enumerated = << >> THEN 0 ELSE Default(Enumerated)]
  /\ UNCHANGED <<world, outcome, exit, discovery, browsed, subnets>>

\* What the program can do without.
DoesWithout(what) ==
  /\ Proceeds /\ failed' = failed \cup {what}
  /\ UNCHANGED <<held, code>>

\* mdns_open, which reports why it is off; Windows has no responder and says so.
OpenDiscovery ==
  /\ step = "discovery"
  /\ \/ /\ program = "linux" /\ options.mdns
        /\ Proceeds /\ held' = held \cup {"mdns"} /\ UNCHANGED <<failed, code>>
        /\ discovery' = "on"
     \/ /\ DoesWithout("mdns")
        /\ discovery' = "off"
  /\ UNCHANGED <<world, exit, browsed, subnets, banner>>

\* webui_open: a socket that cannot be bound, listened on or made non-blocking
\* is closed again.
OpenUi ==
  /\ step = "ui"
  /\ \/ options.headless /\ Proceeds /\ UNCHANGED outcome
     \/ ~options.headless /\ Proceeds /\ held' = held \cup {"ui"} /\ UNCHANGED <<failed, code>>
     \/ ~options.headless /\ DoesWithout("ui")
  /\ UNCHANGED <<world, exit, notices>>

\* tray_init: the class, the window, the icon; each failure undoes the ones before.
AddTray ==
  /\ step = "tray"
  /\ \/ options.headless /\ Proceeds /\ UNCHANGED outcome
     \/ /\ ~options.headless /\ Proceeds
        /\ held' = held \cup {"class", "window", "icon"} /\ UNCHANGED <<failed, code>>
     \/ \E what \in {"class", "window", "icon"} : ~options.headless /\ DoesWithout(what)
  /\ UNCHANGED <<world, exit, notices>>

OpenBrowser ==
  /\ step = "browser"
  /\ Proceeds
  /\ browsed' = (~options.headless /\ options.browser /\ "ui" \in held)
  /\ UNCHANGED <<world, outcome, exit, discovery, subnets, banner>>

-----------------------------------------------------------------------------
(* The loop is left, and the way out                                       *)

Serve ==
  /\ step = "serving" /\ leaving
  /\ Proceeds
  /\ UNCHANGED <<world, outcome, exit, notices>>

\* mdns_close says goodbye; tray_shutdown, webui_close and apad_server_destroy
\* may be called whether or not what they close was ever opened.
Closes(at, what) ==
  /\ step = at
  /\ Proceeds
  /\ held' = held \ what
  /\ UNCHANGED <<world, exit, notices, failed>>

TearDown ==
  \/ UNCHANGED code /\ \/ Closes("mdns close", {"mdns"})
                       \/ Closes("tray close", {"icon", "window", "class"})
                       \/ Closes("ui close", {"ui"})
                       \/ Closes("destroy", {"library"})
  \/ code' = 0 /\ Closes("udp close", {"udp"})

-----------------------------------------------------------------------------
(* From outside                                                            *)

Lives == step \notin {"ended", "killed"}

\* A signal or a console event before its handler is in place ends the program
\* there and then.
AskedToLeave ==
  /\ Lives /\ ~leaving
  /\ IF handlers THEN leaving' = TRUE /\ UNCHANGED step
                 ELSE step' = "killed" /\ UNCHANGED leaving
  /\ UNCHANGED <<world, outcome, notices, handlers>>

\* Exit in the tray menu.
MenuExit ==
  /\ step = "serving" /\ "icon" \in held /\ ~leaving
  /\ leaving' = TRUE
  /\ UNCHANGED <<world, outcome, notices, step, handlers>>

\* Windows does not wait for ever once it has asked.
RunsOutOfTime ==
  /\ Lives /\ leaving /\ program = "windows"
  /\ step' = "killed"
  /\ UNCHANGED <<world, outcome, exit, notices>>

InterfacesChange ==
  /\ Lives /\ moves < MaxMoves
  /\ nics' \in InterfaceLists
  /\ moves' = moves + 1
  /\ UNCHANGED <<outcome, exit, notices, program, options, step>>

-----------------------------------------------------------------------------
NoStatus == 2   \* no exit status yet

HostStartInit ==
  /\ program \in Programs
  /\ options \in [ask : {"start", "help", "unknown"}, headless : BOOLEAN, mdns : BOOLEAN,
                  browser : BOOLEAN]
  /\ step = "options" /\ code = NoStatus
  /\ held = {} /\ failed = {}
  /\ handlers = FALSE /\ leaving = FALSE
  /\ discovery = "untold" /\ browsed = FALSE
  /\ nics \in InterfaceLists /\ moves = 0
  /\ subnets = {} /\ banner = [own |-> << >>, lead |-> 0]

HostStartNext ==
  \/ ReadOptions \/ ReadProfiles \/ OpenNet \/ OpenUdp \/ TakeSubnets \/ CreateLibrary
  \/ TakeHandlers \/ ShowAddresses \/ OpenDiscovery \/ OpenUi \/ AddTray \/ OpenBrowser
  \/ Serve \/ TearDown
  \/ AskedToLeave \/ MenuExit \/ RunsOutOfTime \/ InterfacesChange

HostStartSpec == HostStartInit /\ [][HostStartNext]_startVars

-----------------------------------------------------------------------------
(* Properties                                                              *)

\* Nothing that calls into the library is open without it, the library never
\* lacks the socket its goodbyes leave through, and a program that ends by
\* itself, from wherever, has given back everything it opened (main(), every
\* early return and the way out).
NothingOutlivesItsServer ==
  /\ held \cap {"mdns", "ui", "icon", "window"} # {} => "library" \in held
  /\ "library" \in held => "udp" \in held
  /\ step = "ended" => held = {}

\* The server refuses to run only where it was asked nonsense or lacks the
\* network, its port or a backend; whatever else is missing it serves, having
\* said whether automatic discovery is on, and opens a browser only on a page
\* that is there (section 7: "the server UI MUST say so").
OnlyTheNeededIsFatal ==
  /\ step = "ended" /\ code # 0 =>
       options.ask = "unknown" \/ failed \cap {"net", "udp", "library"} # {}
  /\ step = "serving" => discovery = IF "mdns" \in held THEN "on" ELSE "off"
  /\ browsed /\ step = "serving" => "ui" \in held

\* The address the operator is told to type is one of this machine's and no
\* other of the list is likelier to be reached from a phone: a network of its
\* own before Tailscale and before what only exists inside the machine, and
\* then Wi-Fi before a cable (host_pick_default_addr).
Reachable == {<<"LAN", "TAILSCALE">>, <<"LAN", "VIRTUAL">>, <<"TAILSCALE", "VIRTUAL">>}
Airborne  == {<<"WIFI", "ETHERNET">>, <<"WIFI", "OTHER">>, <<"ETHERNET", "OTHER">>}
Better(a, b) == \/ <<a.kind, b.kind>> \in Reachable
                \/ a.kind = b.kind /\ <<a.medium, b.medium>> \in Airborne
BestAddressLeads ==
  banner.own # << >> =>
    /\ banner.lead \in DOMAIN banner.own
    /\ \A i \in DOMAIN banner.own : ~Better(banner.own[i], banner.own[banner.lead])

\* The host starts with what there is, says what there is not, and cleans up.
OrderlyStart == NothingOutlivesItsServer /\ OnlyTheNeededIsFatal /\ BestAddressLeads
=============================================================================
