# AtticPad in TLA+

AtticPad turns an old handheld (3DS, DSi, PSP, Android phone) into a gamepad,
keyboard, mouse and media remote for a PC, over one UDP protocol on the local
network or, on Android, over Bluetooth. This directory models the code in `src/`,
checks it with TLC and proves the main results with TLAPS. File and line numbers
are those of `src/`.

## 1. The system's parts

| part | code | state | operations | modules |
|---|---|---|---|---|
| sequence arithmetic | `core/src/seq.c` | none | newer, difference, successor, event-ring count, 32-bit times | `SeqArith` |
| session state machine | `core/src/session.c` | one `apad_session`: FSM state, id, last receive and send, one retransmit slot, receive windows, key | init, set_key, close, server_accept, next_header, on_sent, accept_input, accept_kbm, on_recv, tick | `Session` |
| codec | `core/src/codec.c` | none | build, parse, verify, encode and decode each message; text fields; the pairing URI | `Codec` |
| server library | `server/src/server.c` | session slots, pairing window, ERROR limiter | on_datagram (10 handlers behind check_auth), tick, begin and cancel pairing, set_profile, reload_profiles | `Server`, `ErrorLimiter`, `Profiles` |
| pairing window | `server/src/pairing.c` | open, secret, deadline, attempts, generation | open, close, tick, fail (rotate) | `Pairing` |
| keyboard/mouse/media receiver | `server/src/kbm.c` | per facility: shadow of held codes, last event, baseline, device made, last accept | apply, watchdog, release_all | `Kbm`, `KbmLink` |
| TOUCHMAP/INPUTCAPS delivery | `server.c`, tick's first loop | dirty flag, copies left, next copy, last sent | armed by handlers, sent by the tick | `Delivery` |
| mapping engine | `server/src/mapping.c` | touch anchor | apply | `Mapping` |
| profiles | `server/src/{profiles,jsonc}.c`, `server/host/common/profile_*.h` | files, table, pointers into it | load, match, find, read, write, PUT, DELETE | `Profiles`, `Jsonc`, `ProfileFile` |
| backends | `server/backends/*.c` | virtual devices of the operating system | create, destroy, update, inject | `Backends`, `HostDevices` |
| hosts | `server/host/**` | sockets, signals, tray, web UI, mDNS | start and tear-down, poll loop, HTTP API, responder | `HostStart`, `HostLoop`, `WebUi`, `Mdns` |
| client library | `clients/common/apad_client.c` | one session, secret, auth state, sender rings | probe, connect, pump, disconnect | `Client`, `KbmSender` |
| touch keyboard | `clients/common/apad_kbm_touch.c` | contact, latches, wheel | three builders | `KbmTouch` |
| console clients | `clients/{3ds,nds,psp}` | screen, radio, configuration, camera | one frame of the screen shown | `Console`, `Console3ds`, `ConsoleNds`, `ConsolePsp`, `Camera3ds` |
| Android client | `clients/android` | service threads, main looper, Bluetooth stack, snapshot, screens | callbacks, clicks | `AppShared`, `PadService`, `BtHid`, `Phone` |
| cryptography, UI, QR, shims, tools, vendored code | | | | not modelled |

The server library is sans-I/O: the host hands it one datagram at a time, polls
the tick and calls pairing functions, all from one thread. What is hard is around
it: datagrams are lost, repeated, reordered and forged, the tick comes late,
entropy and device creation fail, clients disappear with a key down and come back
from the same address, profiles are edited under live sessions, and every counter
wraps. The clients are state machines of screens, radios and threads whose orders
of events nobody writes tests for. `PROJECT.json` lists the places where these can
go wrong, each at its line, with the properties that watch it.

## 2. Modules and how they compose

    SeqArith -> Session -> Server <- Pairing, Kbm, Delivery        (server library)
                   \-> Client --\
                      Server ----+-> Link => Connection            (both ends, network)
    KbmSender, Kbm -> KbmLink                                      (keyboard over the network)
    Backends => HostDevices       Profiles       ProfileFile -> Jsonc
    Profiles -> WebUi
    HostStart   HostLoop   Mdns   ErrorLimiter   Mapping   KbmTouch   Codec   Camera3ds
    Console -> Console3ds, ConsoleNds, ConsolePsp
    AppShared -> PadService, BtHid -> Phone

An arrow is EXTENDS (composition), `=>` a refinement. `SeqArith`, `Session`,
`Pairing`, `Kbm`, `Delivery`, `Jsonc` and `ProfileFile` are operators
on records and texts and have no variables, as the C files have none; `Server` and
`Client` hold the records and turn each handler into an action. The `MC` modules
give constants their values; `MCApps`, `MCHost` and `MCSurface` each hold several
machines that do not interact, of which a behaviour runs one, named by `slice`.
Modules named `...Proofs` hold the theorems: `ServerProofs` <- `ServerSafetyProofs` <-
`LinkProofs`; `KbmLinkProofs`, `BackendsProofs`, `AppsProofs` and `HostProofs` stand alone.

`Server` has four variables: `sessions` (a record per slot), `pairing`, `backend`
(what exists and is held down behind the function table, computed from the calls
the code makes, never from the table, so that comparing them means something),
and `sent`, what the last call handed to `on_send`. `Receive` is
`apad_server_on_datagram`: `CheckAuth` and one disjunct of `Dispatch`, the handler
with everything it calls, or one of the two ways check_auth ends a datagram.
handle_hello is split by its exits. `Tick` is `apad_server_tick`, its two loops and
the reaping between them in their order.

`Link` puts `Client` and `Server` on two queues, `up` and `down`. The network may
deliver the oldest datagram in flight, or at the cost of a fault any other; losses,
repetitions, late wake-ups and restarts of the server cost a fault too, of `MaxFaults`. Every step of the server is
a step of `Server`. `granted` and `spent` are history (the sessions there ever
were, the nonces drawn); `apart` counts, for each end, how long it has held a session the
other is not in.

`KbmLink` runs `KbmSender`'s three senders against `Kbm`'s receiver, with the
user's edges as history. `Backends` writes each device as the steps the kernel or
driver sees, and `HostDevices` says what a client of the backend was promised.

`Profiles` has the directory as files with fragments of texts, the loaded table
by position (the sessions point into it), and the requests that change both;
`ProfileFile` has one profile's text symbol by symbol, because what the two
programs must agree about is quoting, comments, repeated keys and numbers.

`HostStart` is `main` of either host from its options to its tear-down: each part it opens,
what it does without when a part fails, the address it leads with, and each way it is
told to leave. `HostLoop` is one lap of either host's main loop in its order, with
signals, tray menu and web requests between any two steps. `WebUi` is one request of a
browser through the gate and its route, over the pairing window and `Profiles`, with a
save cut into its steps, each of which may fail; between requests the world moves on. `Camera3ds` cuts the capture thread
and the screen's copy where the two can interleave: a picture is a pair of halves
with a number each.

Modelling decisions:

- *Atomicity.* One API call of the server is one action, because the library never
  runs two. The client's calls are split at every receive and at the key derivation;
  Android's threads at every lock and native call; the camera at every half picture.
- *Network.* For `Server` alone any datagram from any peer at any time, which
  subsumes loss, duplication, delay and reordering. In `Link` and `KbmLink` only
  what was sent arrives.
- *Time.* Instants become ages and deadlines become remaining times, saturated
  where comparisons stop telling them apart; a tick may be late. `ErrorLimiter` has a
  clock that wraps; its entries are younger than one turn of it, 49 days (`Passing`).
- *Cryptography.* A tag is the key it was made with. A key is a secret's
  generation and a nonce; `NonceInUse` assumes that on_random does not repeat the
  nonce of a live session.
- *Failure.* `RandomFails` and `DevicesFail` let each draw and creation fail.
- *Numbers.* A fraction of `Mapping` is an integer in units of 1/Full, quotients cut
  off; its properties allow `Rounding` units. A number of `Jsonc` is its digits and an exponent.
- *Bounds.* `MaxGeneration`, `MaxFaults`, `MaxSamples`, `MaxEdits`, `MaxPosted`,
  `MaxStray` and the like bound the state space only; each is named in its module,
  and at a bound the action that would pass it is not taken.

## 3. Runs

| run | question | instance | distinct states |
|---|---|---|---|
| `MCPairing` | are keys, attempts and deadlines right while windows come and go? | 2 slots, 2 peers, 2 nonces, 2 attempts, window of 2 units, 2 generations; HELLO and ACK with any tag | 74 758 |
| `MCDevices` | do the host's devices follow the table, and does anything happen before proof? | 1 slot, 2 peers, a mouse, a window of 1; entropy and devices fail; sequences modulo 4 | 36 867 |
| `MCIsolation` | can a peer reach another's session? | 2 slots, 2 peers, every session id, every tag | 15 765 |
| `MCFair` | does everything that must happen, happen? | 1 slot, 1 peer, a mouse, bursts of 2 copies 1 unit apart, repeats every 2 units, a touch layout | 10 962 |
| `MCLink` | do both ends agree, again and in time? | client and 1 slot, 1 fault, 2 secrets, key derivation, a restart; idle timeout of 3 units, calls of 2 | 534 485 |
| `MCKeys` | what of a typist's edges reaches the host? | a letter, a modifier and a mouse button; 3 edges, 2 faults, watchdog of 6 units, 2 trailing copies, mouse with and without a rate | 1 740 623 |
| `MCApps` | do the programs at the client's end stay in step with themselves? | the phone with 2 threads and 2 facilities, each console with 1 server and 1 network, the camera over 4 pictures, the codec with 2 keys, texts of 4 bytes | 1 111 106 |
| `MCHost` | does the host program keep its promises? | main loop with 2 clients on both systems; mDNS on 2 networks; limiter of 2 entries for 3 addresses; 3 profile files; 2 slots of devices with a fault | 828 544 |
| `MCSurface` | does what a person meets, a touch, a stick, a text, a page, a start, mean what it should? | strokes of 4 samples at chosen places; fractions of 1/100; one edit of a text; the web UI with 2 profile files; a start with 2 interfaces | 95 383 |
| `MCUnproven` | (violation) does every handshake end with its window? | 2 slots, 2 peers, entropy fails | |
| `MCReconnect` | (violation) is a client that reconnects heard? | 1 slot, two calls of connect, sequences modulo 8 | |
| `MCFallback` | (violation) does a session whose picked profile has gone follow the table? | the machines of `MCHost`, its profiles' part | |

Why these bounds show the cases. Two slots fill the table; with one slot every
tear-down is followed by somebody else's session in it. Two attempts make one that
only counts and one that rotates, two generations a session keyed from a replaced
secret. Modulus 4 has newer, older, equal and the ambiguous half-way distance.
One unit for a timeout lets it be reached, overrun and missed by a late tick. In
`MCLink` an idle timeout longer than a call lets a client give up and return before
the server forgets it, and one fault suffices for each way the ends come apart (a lost
WELCOME, ACK or BYE, an overtaken ERROR, a restart). `MCKeys` has as many
faults as trailing copies and more edges than the ring of a facility holds free. The
camera's 4 transfers reuse each of its buffers; the limiter has fewer entries than
addresses; the profile directory has a shipped, a user's and a torn file.

In `MCHost`, `MenuUnits` is short of the idle timeout: see "tray" under 3.3. Symmetry
over peers is used in safety runs only. Deadlock is checked in the server's, the
link's and the applications' runs; the machines of `MCKeys` (edges used up), `MCHost`
(program ended) and `MCSurface` (stroke ended) do stop.

Fairness. `FairSpec` asks for weak fairness of `Tick` and `Elapse` only: hosts call the
tick from a poll loop with a timeout, and time passes. Both are always enabled.
Nothing is assumed of the network, the clients or the user. Everywhere else "in
time" is stated as a bound on a counted time, not as liveness.

### 3.1 Properties

Server: `TypeOK` (the one type invariant); `KeysFollowWelcomes` (key, cached WELCOME and
generation belong together, no two sessions share a key, WELCOMEs on the wire are the
cached ones and untagged); `UnprovenHasWindow` (a handshake ends with its window);
`GuessesArePaid` and `DeadlineIsTheHosts` (section 10 and 11 of the protocol);
`DevicesMatch` (table and host agree on devices and held codes); `ProofGate` (no
effect before a verifying tag); `NothingInherited` (a claim gives the slot of a claim
never used); `WindowsOnlyAdvance`; `PeersAreIsolated`; and under fairness
`TellsItsClients` (INPUTCAPS and TOUCHMAP go out) and `NothingLingers` (silent sessions,
WELCOMEs, handshakes and held keys all come to an end).
`TellsItsClients` supposes that the mark is not set again for ever: a peer that
acknowledged between every two ticks would put the burst off for ever; a client
acknowledges WELCOMEs only, so this is an assumption about peers, not a finding.

Link: `HandshakeJudged` (an ACK leaves before the slow derivation, so that with nothing lost
or late no session fails for want of it, and a session that required a tag and ended
left a verdict), `DisagreementEnds` (within `LongestApart` either end lets go of a session
the other is not in), `CallsReturn`, `ImplementsConnection`. Four things these allow for,
each met as a counterexample: a session fails only when no ACK is on its way (`GivesUp`);
the server's side is counted within one call, since every HELLO of a new one is answered
from the old session and has the server wait anew; a session that a probe was drawn into is nobody's once the probe returns
(`Playing`); and a call may last longer when a WELCOME had a key derived, be it for a
record that is already closed (`MayHaveDerived`, and the parenthesis at `Unjudged`).

Keyboard: `EdgesAsMeant` (each edge once, in order, modifiers around letters as they were
typed, or reconciled where the overflow count says so), `LossesAreCovered` (the trailing
copies make up for what was lost, and one of the release and the BYE suffices to let go),
`NoReleaseUnderFinger`.

Applications: `OnePump`, `BluetoothFollowsScreen`, `NeverSwapped` (Android),
`ConsolesKeepFaith` (the consoles remember which server a secret is for and what worked,
and let go of what the screen shown no longer holds), `FramesAreWhole` (camera; a
picture is of one transfer, of which the sensor may have made two exposures, and memory is given
back unwritten but for a transfer `CAMU_IsBusy` would not tell of, `loose`),
`ReadsAsWritten` (codec, names and pairing URIs; a picture with two codes).

Host: `KeptAlive`, `OperatorIsServed` (main loop), `AddressOfItsNetwork`, `NoAmplifier` (mDNS),
`ErrorsLimited`, `SessionsFollowTable` (a profile nobody picked is what a new HELLO would be
given, one that was picked stays while every load has it; what becomes of a session whose pick
has gone is `FallbackFollows`, see 3.3), `NoTornFile` (profiles), `NothingLeftBehind` (the devices
there are, are those the server knows of, but for the pads the bus would not take back, `left`,
and the keys whose release SendInput dropped, `stuck`), `ImplementsHostDevices` (devices).

Surface: `TouchActsAsMeant`, `PadsAsMeant`, `ProfilesAsMeant`, `AnswersAreTrue` (what the page
is shown holds, what it asked for is done), `OnlyAllowedChanges` (only a write from this PC
changes anything, and a refusal nothing), `OrderlyStart` (the host starts with what
there is, says what there is not, and cleans up).

Each property of a passing run has a mutant, an operator marked *Mutant* next to the
definition it changes, under which TLC finds it violated.

### 3.2 Refinements

`Connection` is a session seen from outside: the server holds at most one for a client, the
client may have joined one, and may have proof that the one it joined was granted. A
client with a wrong secret joins a session nobody granted, and never takes it for
proven. `Link!Conn` maps a session to its id and key. `HostDevices` is what a backend
promises: devices appear at rest, show what they were last told unless a write to them
failed, and no call disturbs another device; `Backends!Promised` maps the kernel's nodes
and the bus's pads to them. Both refinements are model-checked and proved.

### 3.3 Where the code and its comments disagree

Three have a run. `MCUnproven`: when the nonce for a HELLO cannot be drawn,
`handle_hello` (`server/src/server.c:1063`) closes the window and tears down that
session alone; a handshake begun earlier keeps its slot, its virtual pad and the right
to prove the closed window's secret, against the comment on `drop_unproven_sessions`
(1714-1722). `MCReconnect`: a client whose single BYE was lost and that connects again
from the same socket gets its old session back (905-925), starts its sequences at 0, and
is discarded as stale until they pass the old ones (`session.c:166-169` says why this
must not be). `MCFallback`: a session whose picked profile has gone falls back to what a new
HELLO would be given but stays pinned (2514-2518), so that the next reload holds it to the
name of that fallback, which nobody picked, against the comment at 2499-2513.

The following hold no run of their own; each is stated in its module under the name
given, and TLC refutes it.

- `Backends!KeyboardWithoutDriver`: `handle_hello` refuses when `create_pad` fails
  (`server.c:995-1000`), so without ViGEmBus the "working keyboard/mouse/media session" of
  `win32.c:108-112` never begins.
- `Phone!DisconnectIsSeen`: "Disconnection always returns to the Bluetooth setup screen"
  (`MainActivity.kt:2330`), but the stream thread copies the status before it publishes it
  (`BtHidController.kt:1721-1737`): a copy from before the host left, posted after the news of it,
  makes the screen believe that the host is back, and it opens a session nobody is at the
  other end of. A session that the user opens with no host connected, by the button that is there
  whenever the app is registered (2182-2183, 2231), is meant by the code and not counted.
- `Camera3ds!HungCameraReported`: a hung bring-up is joined after the five seconds
  (`camera_3ds.c:950`), although 131-132 say it is "a reported failure rather than a
  frozen app".
- `Mapping!FromItsStart`: the anchor of a delta stick survives a change of profile
  (`mapping.c:242`), not the contact's start (`mapping.h:29-31`).
- `Mdns!ChangeIsAnnounced`: a change that arrives while announcements are due is told
  with the last of them (`mdns.h:1397-1404`, against 128-131).
- `Link!ProbeHearsAnnounce`: a late reply of an earlier session settles a probe's fresh
  session record (`apad_client.c:1477-1480`).
- `ConsolePsp!RejoinReallyRejoins`: `net_psp.c:224` can refuse while
  `screen_connect.c:117-118` shows "rejoining".
- `ConsoleNds!IdleCanBeTyped` (nds `screen_connect.c:202`) and `RejoinGoesOn` (277-281).
- `Phone!ScanOnlyOnPanel`: discovery wanted behind a session (`MainActivity.kt:613-619`).
- `KbmLink!HeldRepeats`: with a slow mouse rate, a held button is repeated at that rate
  (`apad_client.c:789-793`, `server.c:1238`).
- *Tray.* `TrackPopupMenu` runs its own loop (`windows/main.c:478`) although 306-318 say the
  pump never blocks; with `MenuUnits` past the idle timeout `KeptAlive` fails.

Further observations without a property: when `vigem_target_remove` fails (`vigem.c:508`, the
result is ignored) the pad stays on the bus, and since a HELLO is given the lowest free slot
(`server.c:291-300`), each one that is given that slot is refused with "virtual pad creation
failed" until the server is restarted; a WELCOME that comes late is heard by a probe too
(`drain_rx`, `apad_client.c:1287-1367`, does not ask which call it serves, though
`apad_client.h:193` has a probe only reset the record), which leaves the record ACTIVE in a
session nobody plays; one that arrives after the session closed still has its key
derived (`apad_client.c:1000-1013`), which may hold a call up; on Android the `finally` of a session thread
that outlived its join (`AtticPadService.kt:466`) releases the locks of the next
session; a profile number beyond double's range is written as `inf` and PUT answers 500
"a bug, not a bad request" (`webui.h:994-1000`); JSONC reads `1/**/2` as 12; sixteen or
more files in the profile directory displace the built-in profiles, in directory
order; several slow HTTP connections in a row may exceed the idle timeout together
(`SlowInARow` bounds them); an address evicted from the ERROR limiter has a fresh
allowance (allowed for in `ErrorsLimited`); the URI parser accepts `#` in a secret that
the builder refuses; `apad_text_get` may split a character where the destination is
shorter than the field.

## 4. Proofs

What TLAPS proves holds for every number of slots, peers, nonces and secrets and every
length of timers, windows and queues, under the ASSUMEs of the modules: sizes positive,
sentinels distinct from values, `SeqModulus` even and at least 4, and in `Link` that a key
stands for the nonce it was salted with (keys of different nonces differ, as PBKDF2
with a random salt is taken to guarantee). TLC evaluates each ASSUME in some passing run.

*Sequences and sessions* (`ServerProofs`, first part). Newer is irreflexive and asymmetric and
decides every pair but equal and half-way numbers; a successor is newer; the signed
difference fits and has newer's sign; the ring count never leaves the ring. Each
operator on a session keeps its type and, where callers need it, its id, state and key.

*Server, one slot at a time* (`ServerProofs`). `SpecInv` proves `IInv`, which gives
`TypeCorrect`, `DevicesAlwaysMatch` and `ProofGateHolds`. `Window` bounds the pairing
record (without the bound on the generation a new session's key would have no type);
`Addressed` says that datagrams have a peer; `Table` says that each slot satisfies
`SlotInv` and that `backend` is what the slots stand for. `SlotInv` strengthens the
goals where a step depends on more: a facility without a device has an empty shadow
(else the first datagram, or a claim, would disagree with the host); a slot in use is
addressable (else BYE's ACK would be sent to nobody); a free slot has no pad, device,
input or offer (else `ProofGate` would fail for its next occupant). Lemmas say what each
thing a handler does to a slot leaves of this, one lemma per action follows, and
`StepInv` puts the actions together.

*Server, the whole table* (`ServerSafetyProofs`). Every step is one of two
kinds: `Settles`, in which each slot stays, lives on with its identity or falls vacant, or
`Opens`, in which exactly one vacant slot opens for the sender of a HELLO with its WELCOME
in the same call. `AnyStep` is that dichotomy, proved action by action, and the rest is read
off it. `SInv` is `IInv`, the order of the table (`Registry`: slots in use are `Housed`,
free ones `Vacant`, no two of one peer or one nonce) and `Cached` (WELCOMEs on the wire
are cached ones). It gives `KeysAlwaysFollowWelcomes`, `SlotsStayInOrder`,
`NothingIsInherited`, `IdentityNeverChanges`, `WindowsNeverMoveBack`,
`GuessesAreAlwaysPaid` and `PeersStayIsolated`. `UnprovenAlwaysHasWindow` and
`OnlyTheHostExtends` need `WInv`, which adds that no session is of a future generation and
that unproven sessions have an open window (`Unspent`), and the hypothesis
`RandomFails = FALSE`: without it they are false, which is what `MCUnproven` shows.

*Link* (`LinkProofs`). `LinkImplementsConnection` proves the refinement from `LInv`.
Nothing a client knows says that its session is real: its tag verifies because the
datagram was made with a key the server once held (`NetworkInv`), that key has the nonce
of the WELCOME the client accepted, a nonce is drawn once, so the key is the one of the
session that WELCOME named (`Ledger`), and that WELCOME was given for a session the server
held (`Offered`). `ClientInv` carries this from the WELCOME to the first tag across the
derivation and the old datagrams in between; `TableInv` and `SInv` say it of the
server's table. This covers restarts, loss, repetition and every order of arrival.

`CallsComeBack` and `EveryCallHasVerdict`, from `CallInv`. A call's clock runs past its
timeout only where time passed while the program had something to do, and each such unit
is a fault (`PastDeadlineIsLate`); a call is a CONNECT only while its record is still
handshaking or has ended, and one that is over has been settled. Every client step is shown to be
one of four: it leaves the call as it was (`Alike`), goes on with it (`GoesOn`), ends it
(`Over`) or begins one (`Begins`).

`HandshakesAreJudged`, from `PromptInv`. Why the ACK is never missing is an argument about the
queue: with no fault it is a queue, and while the server waits for the ACK of a session
whose WELCOME the client has read, that ACK is in it, in front of every datagram with that
session's tag (`Owed`; the tag would otherwise discharge the handshake first and then be
followed by the failure the property speaks of) and behind every HELLO (`HellosAreOver`;
a HELLO would have the server send the WELCOME again). No tag is older than its key
(`TagsAreOld`), a key is made from one WELCOME (`KeyIsItsOwn`) and no session proves itself but by
its own tag (`DatagramProves`). So taking the head of the queue either takes the ACK, which
discharges the wait (`AckDischarges`), or leaves it.

*Keyboard* (`KbmLinkProofs`). `EdgesAreAsMeant`, from `KeysType` and `KeysInv`, which give
each record on the way a meaning in the history of the user's edges. `SenderInv`: ring,
count and held codes are what the edges made so far say. `NetInv`: a datagram is the
client as it was at some edge, and later datagrams carry later edges. `HostInv`: the host
has accounted for a prefix of the edges, each as made or as lost, and holds what the last
snapshot says. `WindowInv`: what is older than that prefix is behind the receive window
too, so that nothing already applied comes again, whatever the order of arrival.
`MeantInv`: a letter was meant under the modifiers the history holds at its press.
`ReplayIsMade` turns the ring's trailing slots into the end of the history, `AccountSays`
adds the overflow count, `HostHolds` says that whatever was held before, the reconcile leaves the
snapshot, `ModifiersFirst` that no letter of a chord precedes its modifiers. The theorem is
of behaviours that are always `Timely`: no datagram is in flight while half a turn of
header sequences (32768) is sent after it, and the host is not half a turn of events
behind. Both are limits of the wire's 16 bits, not of the proof: past them an old
datagram passes for a new one and the gap counts backwards. With a modulus of 24 the
instance of `MCKeys` is always `Timely` (TLC, 3.9 million states, with `KeysInv` as an
invariant); the run's own 10 is not, and its property holds all the same. The instance's
bounds on edges and faults play no part.

*Devices* (`BackendsProofs`). `BackendsKeepTheirPromise` and `NothingIsLeftBehind`, from
`BInv`: handles are the known devices, the pads on the bus are those of sessions and those the bus
kept, never both, and a device no write to which failed is
`InStep` (written, shown and, for a pad, the state the next difference is taken against
are what it was last told). Without the last, a button released while nothing was
remembered of it would stay down.

*Programs at the client's end* (`AppsProofs`). `CameraShowsWholePictures`, for any number of
transfers and refusals, from `CameraInv`: the half-written buffer is the armed one unless its
transfer is loose, a buffer being copied is whole and not armed (in mode G nothing is armed, in mode H the
other one), and whoever is inside a copy holds the lock, so that the other side's half
still fits. `OnlyTheLastPumps`, from `ThreadsInv`: every thread alive but the service's own
is interrupted, and so is that one while the main thread waits for it. `HostLetsGo`
and `SessionsAreNotSwapped`, from `BluetoothInv`: a report read and not yet sent never
presses what is no longer live, and is the one that lifts what the snapshot no longer
mentions; a silent mouse has nothing down (`Due`). Every handler of the main thread
is shown to keep the facilities in step with the screen and to drop nothing that is due
(`Handles`). The UDP session's threads play no part in this.

*Host program* (`HostProofs`). `OperatorNeverLeftWaiting`: the property itself is inductive.
`FilesStayWhole`: a text under a temporary name is whole before it is renamed; its
hypothesis, that a person writes no torn file, is the exception the property names.
`SessionsStayMapped`: seat by seat (`Entitled`), a picked profile is pinned, so that
`Landed` looks for its name, and the name taken down before the table was overwritten is
the one picked; `FindLands` says that a name that is known is found. `AddressesAreLocal`:
the interface was pointed at before the packet for it leaves, and the greatest index of
an address is one of its indices (`GreatestExists`, from the well-foundedness of the
naturals). `NothingIsAmplified`, an action property, from `AmpInv`: what a reader still
counts and what a refill would leave never exceed the burst (`Filled`, which a tick
raises by no more than the reader forgets), and each network has been quiet for as long
as its index has waited, or for as long as the cached addresses have been right. Every
handler is shown to answer only where an index had waited and to start that wait again
(`Speaks`), and to draw what it takes (`Draws`). `MdnsAssumption` says what this rests on:
no address is listed twice (the kernel lists each once), so that the array of waits has
one entry for a network, and the rate is not zero. `ErrorsAreLimited` from
`LimiterInv`: each entry in use is the latest sends to one address in their order
(`Ring`, `Kept`), and a send that the table has forgotten is excused by a crowd that has
asked since it (`Excused`); the one evicted was silent longest, so everyone who keeps a
place, and the caller, make up that crowd (`EvictedIsExcused`, with an injection from the
places), and a tick ages the crowd and the send alike. It holds for every modulus of the
clock, every table and every ring of at least two sends.

`SendersAreKept`: what a client's session has been silent for is bounded by its place in
the socket's queue and the slow things that can still happen before its turn. It
supposes `Unhurried`: slow requests do not follow one another (`SlowInARow <= 1`), the queue
has room for two datagrams of each client but one, and a menu is up for less than the idle
timeout by two laps; the second of 3.3's "tray" is the case it excludes. `StartIsOrderly`,
from `StartInv`: at every stage what the host holds is what the stages before it opened and what it
said is what it lacks (`HeldInv`, `ToldInv`). `OnlyTheAllowedChange`
from `WebInv`: while a save or a deletion is carried out it is one the gate let through, and
it has not been answered (`BusyInv`). `AnswersStayTrue` from `WebInv` and `DoneInv`: while a
save is under way its half-written text is the request's, and once renamed the file holds it
(`WorkInv`); the load that follows finds it (`FileIsFound`). The table is what was picked,
twice, from the order of the directory, so the lemma carries an entry's rank through both
picks (`PickedKeeps`, `RanksCount`, by an injection of the places into the ranks) and
concludes that the first entry of a name is the first file of that name. A session whose
profile was deleted is matched anew (`DeletedIsSo`). This supposes what a directory
guarantees: the order names no file twice.

Only model-checked, and why:

- liveness and anything with ENABLED (`MCFair`): out of the prover's reach;
- `DisagreementEnds`: the bound is the instance's. Each further call, nonce or fault lets the
  two part in another way, and the bound for every such count is not known to us; one
  instance more, with two calls of the client (4.6 million states), was checked with it;
- `ProfilesAsMeant`, `ReadsAsWritten`: recursive readers, induction over the text;
- `PadsAsMeant`, `TouchActsAsMeant`: quotients and products of several bound values;
- `LossesAreCovered`, `NoReleaseUnderFinger`: they count faults against copies and
  repeats along every way the clocks of both ends can run;
- `ConsolesKeepFaith`: not yet.

## 5. Not modelled

HMAC-SHA256 and PBKDF2 (assumed: a tag is its key and content), drawing and layout of every
user interface, the vendored QR decoder and JSON editor, the scan-code tables, the DSi's
camera and the microphones, socket and clock shims, command lines, and the test tools.
The server's read-only queries change nothing. What a target the driver refused half-way leaves on the
bus is inside the vendored ViGEm client. An Android app, once registered for HID, stays so. Key events of Windows sessions share one
desktop stream in `Backends` as in the code. Times that C keeps as 32-bit instants are ages
or remaining times; the wrap itself is in `ErrorLimiter` and `SeqArith`. A restarted
server has no state in common with its predecessor: nothing is persisted but profiles.

## 6. Plan

1. Core, composition with the client, keyboard link, devices, hosts, applications: *done*.
2. Server safety, devices' and connection's refinement, the phone, the camera and the
   host program: *proved*.
3. The link's calls and handshakes, the start of the host, the web UI's gate, the main
   loop's promise to its clients: *proved*.
4. What the host types is what the user typed (`EdgesAsMeant`) and what the web interface
   answers is so (`AnswersAreTrue`): *proved*.
5. Left: the consoles' property and the timed half of `KbmLink` (`LossesAreCovered`, `NoReleaseUnderFinger`).
