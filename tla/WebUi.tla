-------------------------------- MODULE WebUi --------------------------------
(***************************************************************************)
(* The web interface both hosts serve on the loopback address (webui.h):   *)
(* which request may do what, in which order it is judged, what it changes *)
(* and what the reply says.  Requests come one at a time and each is      *)
(* served to its end; how long that takes is HostLoop's subject, and what  *)
(* a request does to the profiles and to the sessions that run them is     *)
(* Profiles', whose actions are the effects here.  Between two requests    *)
(* the world moves on, so a page acts on what it saw: a client has left,   *)
(* the secret was rotated, an address or a file is gone.                   *)
(*                                                                         *)
(* Left out between requests: a layout that goes out (no request looks at  *)
(* it) and a restart of the server.                                        *)
(***************************************************************************)
EXTENDS Profiles

CONSTANTS
  WebRequests,     \* the requests examined
  OwnLists,        \* what the machine's addresses may be, the default first
  MaxSecrets       \* bound: secrets generated

ASSUME WebUiAssumption ==
  /\ MaxSecrets \in Nat
  /\ \A req \in WebRequests : req.arrived \in {"whole", "torn", "late"}
  /\ \A list \in OwnLists : list \in Seq(Range(list))

VARIABLES
  offer,     \* what apad_pairing_snapshot tells: open, and the secret's generation
  own,       \* host_enumerate_own_ipv4, the default first
  served,    \* the request served last, or being served
  reply     \* what it was told

webOnly == <<offer, own, served, reply>>
webVars == <<profileVars, webOnly>>

NoRequest == [route |-> "none"]
NoSecret == 0
Plain(status) == [status |-> status, secret |-> NoSecret, addresses |-> {}, profile |-> Torn]
Pending == Plain(0)

Answers(req, told) == served' = req /\ reply' = told

-----------------------------------------------------------------------------
(* webui_poll: what is served at all                                       *)

IsWrite(req) == req.method \in {"POST", "PUT", "DELETE"}

\* The names a request gives this PC: its Host, which every request has to
\* have, and for a write its Origin, if there is one.
HostIsLoopback(req) == req.host = "loopback"
OriginIsElsewhere(req) == req.origin = "other"

\* Cut short, malformed or too large; or too slow.
Arrival(req) == CASE req.arrived = "whole" -> 200
                  [] req.arrived = "torn"  -> 400
                  [] req.arrived = "late"  -> 408

\* Mutant: DELETE is not among the methods that change something.
GateWithoutDelete(req) ==
  IF Arrival(req) # 200 THEN Arrival(req)
  ELSE IF ~HostIsLoopback(req) \/ (req.method \in {"POST", "PUT"} /\ OriginIsElsewhere(req)) THEN 403
  ELSE 200
Gate(req) ==
  IF Arrival(req) # 200 THEN Arrival(req)
  ELSE IF ~HostIsLoopback(req) \/ (IsWrite(req) /\ OriginIsElsewhere(req)) THEN 403
  ELSE 200

Routes == {<<"GET", "page">>, <<"GET", "state">>, <<"GET", "qr">>, <<"POST", "begin">>,
          <<"POST", "cancel">>, <<"GET", "profiles">>, <<"POST", "reload">>,
          <<"GET", "profile">>, <<"PUT", "profile">>, <<"DELETE", "profile">>,
          <<"POST", "client">>, <<"GET", "client">>}
Is(req, method, route) == Gate(req) = 200 /\ req.method = method /\ req.route = route

Refuses(req, status) == Answers(req, Plain(status)) /\ UNCHANGED <<profileVars, offer, own>>

\* 405 for a method nobody implements, 404 for a route nobody has.
NotServed(req) ==
  \/ Gate(req) # 200 /\ Refuses(req, Gate(req))
  \/ Gate(req) = 200 /\ ~IsWrite(req) /\ req.method # "GET" /\ Refuses(req, 405)
  \/ /\ Gate(req) = 200 /\ (IsWrite(req) \/ req.method = "GET")
     /\ <<req.method, req.route>> \notin Routes /\ Refuses(req, 404)

Shows(req, told) == Answers(req, told) /\ UNCHANGED <<profileVars, offer, own>>

\* The pages and their icon.
ShowPage(req) == Is(req, "GET", "page") /\ Shows(req, Plain(200))

-----------------------------------------------------------------------------
(* Pairing                                                                 *)

\* The pairing part of the state: the secret, and a URI for each address, while
\* it is offered.
OfferTold == IF offer.open
             THEN [Plain(200) EXCEPT !.secret = offer.secret, !.addresses = Range(own)]
             ELSE Plain(200)

\* GET /api/state
ShowState(req) == Is(req, "GET", "state") /\ Shows(req, OfferTold)

\* GET /api/pair/qr.svg?addr=: an address that is not the machine's now gives
\* way to the default.
AddressFor(req) == IF req.address \in Range(own) THEN req.address ELSE own[1]

ShowQr(req) ==
  /\ Is(req, "GET", "qr")
  /\ \/ (~offer.open \/ own = << >>) /\ Refuses(req, 404)
     \/ /\ offer.open /\ own # << >>
        /\ \/ Shows(req, [Plain(200) EXCEPT !.secret = offer.secret, !.addresses = {AddressFor(req)}])
           \/ Refuses(req, 500)

\* drop_unproven_sessions: every session that was told to authenticate and has
\* not yet, whether or not it has acknowledged its WELCOME, which needs no tag.
\* Which those are is the pairing's business.
Drops ==
  \E gone \in SUBSET {i \in Seats : seats[i].in_use} :
    seats' = [i \in Seats |-> IF i \in gone THEN EmptySeat ELSE seats[i]]

\* POST /api/pair/begin: without randomness there is no window, not even the
\* one there was.
BeginRequest(req) ==
  /\ Is(req, "POST", "begin")
  /\ \/ /\ offer.secret < MaxSecrets
        /\ offer' = [open |-> TRUE, secret |-> offer.secret + 1]
        /\ Answers(req, Plain(200))
     \/ offer' = [offer EXCEPT !.open = FALSE] /\ Answers(req, Plain(409))
  /\ IF offer.open THEN Drops ELSE UNCHANGED seats
  /\ UNCHANGED <<folder, table, loaded, saving, touched, own>>

CancelRequest(req) ==
  /\ Is(req, "POST", "cancel")
  /\ offer' = [offer EXCEPT !.open = FALSE]
  /\ IF offer.open THEN Drops ELSE UNCHANGED seats
  /\ Answers(req, Plain(200))
  /\ UNCHANGED <<folder, table, loaded, saving, touched, own>>

-----------------------------------------------------------------------------
(* Profiles                                                                *)

Reload(req) ==
  /\ Is(req, "POST", "reload")
  /\ ReloadRequest
  /\ Answers(req, Plain(200)) /\ UNCHANGED <<offer, own>>

\* profile_store_name_valid: what may become a file name.
ValidName(name) == name \in Range(StemOrder) \cup {BuiltinProfile.name}
ReadOnly(name) == IsShipped(name) \/ name = BuiltinProfile.name

\* GET /api/profiles
ShowProfiles(req) == Is(req, "GET", "profiles") /\ Shows(req, Plain(200))

ShowProfile(req) ==
  /\ Is(req, "GET", "profile")
  /\ \/ ~ValidName(req.name) /\ Refuses(req, 400)
     \/ ValidName(req.name) /\ ~KnownIn(table, loaded, req.name) /\ Refuses(req, 404)
     \/ /\ ValidName(req.name) /\ KnownIn(table, loaded, req.name)
        /\ Shows(req, [Plain(200) EXCEPT
                         !.profile = At(table, FindIn(table, loaded, req.name))])

\* PUT /api/profile/{name}: a shipped name is refused before the body is looked at.
PutRequest(req) ==
  /\ Is(req, "PUT", "profile")
  /\ \/ ~ValidName(req.name) /\ Refuses(req, 400)
     \/ ValidName(req.name) /\ ReadOnly(req.name) /\ Refuses(req, 409)
     \/ ValidName(req.name) /\ ~ReadOnly(req.name) /\ req.body # "good" /\ Refuses(req, 400)
     \/ /\ ValidName(req.name) /\ ~ReadOnly(req.name) /\ req.body = "good"
        /\ \E match \in Fragments, rev \in Revisions : PutBegins(req.name, match, rev)
        /\ Answers(req, Pending) /\ UNCHANGED <<offer, own>>

DeleteAsked(req) ==
  /\ Is(req, "DELETE", "profile")
  /\ \/ ~ValidName(req.name) /\ Refuses(req, 400)
     \/ ValidName(req.name) /\ ReadOnly(req.name) /\ Refuses(req, 409)
     \/ ValidName(req.name) /\ ~ReadOnly(req.name) /\ Refuses(req, 404)
     \/ /\ ValidName(req.name) /\ ~ReadOnly(req.name)
        /\ DeleteRequest(req.name)
        /\ Answers(req, Pending) /\ UNCHANGED <<offer, own>>

\* The steps of a save, and how it ends.
\* Mutant: the outcome of profile_store_save is not looked at.
SaveFailedUnnoticed == 200
SaveFailed          == 500

GoOn == (PutWrites \/ PutRenames) /\ UNCHANGED webOnly
SaveFails == PutFails /\ Answers(served, Plain(SaveFailed)) /\ UNCHANGED <<offer, own>>
Completes == PutReloads /\ Answers(served, Plain(200)) /\ UNCHANGED <<offer, own>>

-----------------------------------------------------------------------------
(* Clients                                                                 *)

\* POST /api/client/{slot}/profile: the slot as it is now, whoever the page
\* was opened for.
Assign(req) ==
  /\ Is(req, "POST", "client")
  /\ \/ (req.slot \notin Seats \/ req.body # "good") /\ Refuses(req, 400)
     \/ /\ req.slot \in Seats /\ req.body = "good"
        /\ ChooseProfile(req.slot, req.name)
        /\ Answers(req, Plain(IF ~seats[req.slot].in_use THEN 409
                              ELSE IF ~KnownIn(table, loaded, req.name) THEN 400 ELSE 200))
        /\ UNCHANGED <<offer, own>>

\* GET /api/client/{slot}/input
ShowInput(req) ==
  /\ Is(req, "GET", "client")
  /\ \/ req.slot \notin Seats /\ Refuses(req, 400)
     \/ req.slot \in Seats /\ ~seats[req.slot].in_use /\ Refuses(req, 404)
     \/ req.slot \in Seats /\ seats[req.slot].in_use /\ Shows(req, Plain(200))

-----------------------------------------------------------------------------
(* Between requests                                                        *)

Unasked == served' = NoRequest /\ reply' = Pending

\* A last wrong guess rotates the secret; time and guesses close the window.
OfferMoves ==
  /\ offer.open
  /\ \/ offer.secret < MaxSecrets /\ offer' = [offer EXCEPT !.secret = @ + 1]
     \/ offer' = [offer EXCEPT !.open = FALSE]
  /\ UNCHANGED <<profileVars, own>>

AddressesMove == own' \in OwnLists /\ UNCHANGED <<profileVars, offer>>

Meanwhile ==
  /\ Idle /\ Unasked
  /\ \/ OfferMoves
     \/ AddressesMove
     \/ /\ UNCHANGED <<offer, own>>
        /\ \/ \E i \in Seats : \/ \E device \in Devices : SeatTaken(i, device)
                               \/ SeatAcked(i) \/ SeatFreed(i)
           \/ \E stem \in UserStems, text \in HandTexts : HandEdit(stem, text)

-----------------------------------------------------------------------------

WebInit ==
  /\ ProfilesInit
  /\ offer = [open |-> FALSE, secret |-> 0]
  /\ own \in OwnLists
  /\ served = NoRequest /\ reply = Pending

Serves(req) ==
  \/ NotServed(req) \/ ShowPage(req) \/ ShowState(req) \/ ShowQr(req)
  \/ BeginRequest(req) \/ CancelRequest(req) \/ Reload(req)
  \/ ShowProfiles(req) \/ ShowProfile(req) \/ PutRequest(req) \/ DeleteAsked(req)
  \/ Assign(req) \/ ShowInput(req)

WebNext ==
  \/ Idle /\ \E req \in WebRequests : Serves(req)
  \/ GoOn \/ SaveFails \/ Completes
  \/ Meanwhile

WebSpec == WebInit /\ [][WebNext]_webVars

-----------------------------------------------------------------------------
(* Properties *)

\* A secret is only ever told while its window is open, it is the one a client
\* may use now and not one that was rotated or replaced, and the addresses told
\* with it are the machine's own as they are now (section 10.3; webui.h: "the
\* secret-bearing SVG must not be servable outside that window", "this endpoint
\* only ever encodes an address this box actually holds").
SecretsAreCurrent ==
  reply.secret # NoSecret =>
    offer.open /\ reply.secret = offer.secret /\ reply.addresses \subseteq Range(own)

\* What changes a window, a file, the loaded profiles or a session is a request
\* that writes and that came whole and from this PC, and one that is told no
\* leaves all of them as they were, whichever of its steps failed; only the
\* window is closed by a begin that finds no randomness (webui_poll, ui_dispatch).
Files == [file \in {f \in DOMAIN folder : f[2] = "jsonc"} |-> folder[file]]
Changes == <<Files, table, loaded, seats, offer>>' # <<Files, table, loaded, seats, offer>>
OnlyAllowedChanges ==
  [][served' # NoRequest /\ Changes =>
       /\ IsWrite(served') /\ served'.arrived = "whole" /\ served'.host = "loopback"
       /\ served'.origin # "other"
       /\ reply'.status >= 400 => served'.route = "begin"]_webVars

\* What is answered with 200 has been done: a saved profile is in its file, and
\* is the one the editor and the sessions now find under its name unless the
\* directory holds more files than are read or a file before it has the same name
\* inside; a deleted one is gone and nobody was left with it; a client has what
\* was picked for it (ui_dispatch, apad_server_reload_profiles).
Intact == {stem \in Range(StemOrder) : FinalPath(stem) \in DOMAIN folder}
Shadowed(stem) ==
  \E i, j \in DOMAIN StemOrder :
    /\ StemOrder[j] = stem /\ i < j /\ StemOrder[i] \in Intact
    /\ folder[FinalPath(StemOrder[i])].name = stem
Saved(req) ==
  /\ req.name \in Intact /\ folder[FinalPath(req.name)].whole
  /\ Cardinality(Intact) <= TableSize /\ ~Shadowed(req.name) =>
       At(table, FindIn(table, loaded, req.name)) = folder[FinalPath(req.name)]
Deleted(req) ==
  /\ req.name \notin Intact
  /\ \A i \in Seats : seats[i].in_use /\ ~KnownIn(table, loaded, req.name) =>
       At(table, seats[i].at).name # req.name
DoneMeansDone ==
  reply.status = 200 =>
    /\ served.method = "PUT" => Saved(served)
    /\ served.method = "DELETE" => Deleted(served)
    /\ served.method = "POST" /\ served.route = "client" =>
         seats[served.slot].in_use /\ At(table, seats[served.slot].at).name = served.name

\* What the page is told is so: what it was shown holds, what it asked for is done.
AnswersAreTrue == SecretsAreCurrent /\ DoneMeansDone
=============================================================================
