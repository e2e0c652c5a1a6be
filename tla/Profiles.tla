------------------------------ MODULE Profiles ------------------------------
(***************************************************************************)
(* The server's mapping profiles: the directory they are kept in, the      *)
(* table the library loads from it, the profile each session runs, and the *)
(* web interface's requests that change them (profile_store.h,             *)
(* profile_sources.h, profiles.c, the profile half of server.c and the     *)
(* profile routes of webui.h).                                             *)
(*                                                                         *)
(* The table is one static array that every load overwrites in place while *)
(* sessions hold pointers into it; a pointer is an index here, and index 0 *)
(* is the compiled-in fallback.  A profile is its name, the device         *)
(* fragment it matches and a revision that stands for everything else.     *)
(* The server is one thread: a request runs to its end before anything     *)
(* else happens, except a crash, or a person editing files by hand.        *)
(***************************************************************************)
EXTENDS Integers, Sequences, FiniteSets, SequencesExt

CONSTANTS
  StemOrder,    \* every file stem there can be, in the order strcmp() sorts them
  Shipped,      \* the profiles compiled into the server, in their order
  UserStems,    \* the stems a person may give a profile
  Devices,      \* device names, each the set of match fragments it contains
  Revisions,    \* what distinguishes two versions of one profile
  TableSize,    \* APAD_PROFILES_MAX and PROFILE_STORE_MAX_FILES
  Seats,        \* session slots
  HandTexts,    \* what a person may write into a file
  MaxTouched    \* bound: files edited by hand between two loads

ASSUME ProfilesAssumption ==
  /\ TableSize \in Nat \ {0}
  /\ StemOrder \in Seq(Range(StemOrder)) /\ Shipped \in Seq(Range(Shipped))
  /\ \A i, j \in DOMAIN StemOrder : StemOrder[i] = StemOrder[j] => i = j
  /\ UserStems \subseteq Range(StemOrder)
  /\ \A i \in DOMAIN Shipped : Shipped[i].name \in Range(StemOrder) \ UserStems

VARIABLES
  folder,     \* file name -> what the file holds
  table,      \* g_profiles: an array, never cleared
  loaded,     \* g_profile_count
  seats,      \* the part of every session that profiles are about
  saving,     \* the PUT that is being carried out, or NotSaving
  touched     \* history: stems a person has edited by hand since the last load

profileVars == <<folder, table, loaded, seats, saving, touched>>

Fragments == (UNION Devices) \cup {""}
Profile(name, match, rev) == [whole |-> TRUE, name |-> name, match |-> match, rev |-> rev]
Torn == [whole |-> FALSE, name |-> "", match |-> "", rev |-> 0]
Unreadable == [Torn EXCEPT !.name = "?"]   \* what a person can write
BuiltinProfile == Profile("builtin-default", "", 0)
IsShipped(stem) == \E i \in DOMAIN Shipped : Shipped[i].name = stem
NotSaving == [stem |-> "", text |-> Torn, step |-> "none"]

\* A file is a stem and a suffix: only "jsonc" is looked at.
FinalPath(stem) == <<stem, "jsonc">>
\* Mutant: the file is written where it is read.
TempPathInPlace(stem) == FinalPath(stem)
TempPath(stem) == <<stem, "tmp">>

-----------------------------------------------------------------------------
(* profile_store_scan, profile_sources_build, apad_profiles_load *)

\* Up to TableSize names are taken in the directory's own order, which is any
\* order, and only those are sorted.
Scans == LET stems == {file[1] : file \in {f \in DOMAIN folder : f[2] = "jsonc"}}
         IN  IF Cardinality(stems) <= TableSize THEN {stems}
             ELSE {taken \in SUBSET stems : Cardinality(taken) = TableSize}

\* What a sequence has at some of its places, in its order: SelectSeq, said without
\* recursion, so that what is known of a place can be carried to its rank.
Rank(places, i) == Cardinality({j \in places : j <= i})
PickedFrom(seq, places) ==
  [n \in 1..Cardinality(places) |-> seq[CHOOSE i \in places : Rank(places, i) = n]]

\* The files first, sorted, then the built-in profiles no file overrides.
Sources(stems) ==
  LET kept    == PickedFrom(StemOrder, {i \in DOMAIN StemOrder : StemOrder[i] \in stems})
      builtin == PickedFrom(Shipped, {i \in DOMAIN Shipped : Shipped[i].name \notin stems})
      all     == [i \in DOMAIN kept |-> folder[FinalPath(kept[i])]]
                 \o builtin
  IN  SubSeq(all, 1, IF Len(all) < TableSize THEN Len(all) ELSE TableSize)

\* A text that does not parse is skipped; its place goes to the next.
Parsed(sources) == PickedFrom(sources, {i \in DOMAIN sources : sources[i].whole})
\* What an earlier load left beyond the count is never read: one value for all.
Overwritten(profiles) ==
  [i \in 1..TableSize |-> IF i <= Len(profiles) THEN profiles[i] ELSE Torn]

-----------------------------------------------------------------------------
(* apad_profiles_match, apad_profiles_find *)

Fits(match, device) == match = "" \/ match \in device
FirstIn(tbl, count, Test(_)) ==
  LET hits == {i \in 1..count : Test(tbl[i])}
  IN  IF hits = {} THEN 0 ELSE CHOOSE i \in hits : \A j \in hits : i <= j
MatchIn(tbl, count, device) == FirstIn(tbl, count, LAMBDA p : Fits(p.match, device))
FindIn(tbl, count, name)    == FirstIn(tbl, count, LAMBDA p : p.name = name)
At(tbl, index) == IF index = 0 THEN BuiltinProfile ELSE tbl[index]
KnownIn(tbl, count, name) ==
  name = BuiltinProfile.name \/ \E i \in 1..count : tbl[i].name = name

-----------------------------------------------------------------------------
(* apad_server_reload_profiles *)

EmptySeat == [in_use |-> FALSE, device |-> {}, at |-> 0, pinned |-> FALSE,
              acked |-> FALSE, dirty |-> FALSE, shown |-> Torn, human |-> ""]

\* Mutant: the names are taken down after the table is overwritten.
OldNamesAfter(before, after) == [i \in Seats |-> At(after, seats[i].at).name]

\* The names are taken down before the table is overwritten.
OldNames(before, after)      == [i \in Seats |-> At(before, seats[i].at).name]

\* Where a session lands: the profile it is pinned to, if there still is one
\* of that name, and otherwise where a new HELLO of its device would.
Landed(seat, old, tbl, count) ==
  IF seat.pinned /\ KnownIn(tbl, count, old)
  THEN FindIn(tbl, count, old) ELSE MatchIn(tbl, count, seat.device)

Reseated(seat, old, tbl, count) ==
  [seat EXCEPT !.at = Landed(seat, old, tbl, count), !.dirty = TRUE,
               !.human = IF KnownIn(tbl, count, old) THEN @ ELSE ""]

ReloadFrom(scan) ==
  LET profiles == Parsed(Sources(scan))
      new      == Overwritten(profiles)
      old      == OldNames(table, new)
  IN  /\ table' = new
      /\ loaded' = Len(profiles)
      /\ seats' = [i \in Seats |-> IF ~seats[i].in_use THEN seats[i]
                                   ELSE Reseated(seats[i], old[i], new, Len(profiles))]
      /\ touched' = {}

-----------------------------------------------------------------------------
(* Sessions *)

Idle == saving = NotSaving

\* handle_hello: a new session is matched once.
SeatTaken(i, device) ==
  /\ Idle /\ ~seats[i].in_use
  /\ seats' = [seats EXCEPT ![i] = [EmptySeat EXCEPT !.in_use = TRUE, !.device = device,
                                      !.at = MatchIn(table, loaded, device)]]
  /\ UNCHANGED <<folder, table, loaded, saving, touched>>

\* handle_ack: the first ACK marks the layout.
SeatAcked(i) ==
  /\ Idle /\ seats[i].in_use /\ ~seats[i].acked
  /\ seats' = [seats EXCEPT ![i].acked = TRUE, ![i].dirty = TRUE]
  /\ UNCHANGED <<folder, table, loaded, saving, touched>>

\* free_session leaves the profile pointer behind and clears the rest.
SeatFreed(i) ==
  /\ Idle /\ seats[i].in_use
  /\ seats' = [seats EXCEPT ![i] = EmptySeat]
  /\ UNCHANGED <<folder, table, loaded, saving, touched>>

\* apad_server_tick: a changed layout is sent to the client.
LayoutSent(i) ==
  /\ Idle /\ seats[i].in_use /\ seats[i].dirty
  /\ seats' = [seats EXCEPT ![i].dirty = FALSE, ![i].shown = At(table, seats[i].at)]
  /\ UNCHANGED <<folder, table, loaded, saving, touched>>

-----------------------------------------------------------------------------
(* Requests *)

\* A request that is refused is answered and changes nothing.
Refused == UNCHANGED profileVars

\* Mutant: the layout is not marked to be sent.
ChosenUnmarked(seat, index, name) ==
  [seat EXCEPT !.at = index, !.pinned = TRUE, !.human = name]

\* POST /api/client/{slot}/profile, apad_server_set_profile
Chosen(seat, index, name) ==
  [seat EXCEPT !.at = index, !.pinned = TRUE, !.human = name, !.dirty = TRUE]

ChooseProfile(i, name) ==
  /\ Idle
  /\ \/ ~seats[i].in_use /\ Refused   \* 409
     \/ seats[i].in_use /\ ~KnownIn(table, loaded, name) /\ Refused   \* 400
     \/ /\ seats[i].in_use /\ KnownIn(table, loaded, name)
        /\ seats' = [seats EXCEPT ![i] = Chosen(@, FindIn(table, loaded, name), name)]
        /\ UNCHANGED <<folder, table, loaded, saving, touched>>

\* POST /api/profiles/reload
ReloadRequest ==
  /\ Idle
  /\ \E scan \in Scans : ReloadFrom(scan)
  /\ UNCHANGED <<folder, saving>>

With(dir, file, text) == [f \in DOMAIN dir \cup {file} |-> IF f = file THEN text ELSE dir[f]]
Without(dir, file) == [f \in DOMAIN dir \ {file} |-> dir[f]]

\* PUT /api/profile/{name}: a shipped name is refused before the body is
\* looked at; the text is written to a temporary file beside the old one.
PutRefused(stem) ==
  /\ Idle
  /\ \/ IsShipped(stem) /\ Refused   \* 409
     \/ stem \in UserStems /\ Refused   \* 400

PutBegins(stem, match, rev) ==
  /\ Idle /\ stem \in UserStems
  /\ saving' = [stem |-> stem, text |-> Profile(stem, match, rev), step |-> "open"]
  /\ folder' = With(folder, TempPath(stem), Torn)
  /\ UNCHANGED <<table, loaded, seats, touched>>

PutWrites ==
  /\ saving.step = "open"
  /\ folder' = [folder EXCEPT ![TempPath(saving.stem)] = saving.text]
  /\ saving' = [saving EXCEPT !.step = "written"]
  /\ UNCHANGED <<table, loaded, seats, touched>>

\* The write or the rename fails: the temporary file is removed.
PutFails ==
  /\ saving.step \in {"open", "written"}
  /\ folder' = Without(folder, TempPath(saving.stem))
  /\ saving' = NotSaving
  /\ UNCHANGED <<table, loaded, seats, touched>>

\* rename() replaces the old file in one step; then the table is loaded again.
PutRenames ==
  /\ saving.step = "written"
  /\ folder' = With(Without(folder, TempPath(saving.stem)), FinalPath(saving.stem), saving.text)
  /\ saving' = [saving EXCEPT !.step = "renamed"]
  /\ UNCHANGED <<table, loaded, seats, touched>>

PutReloads ==
  /\ saving.step = "renamed"
  /\ \E scan \in Scans : ReloadFrom(scan)
  /\ saving' = NotSaving
  /\ UNCHANGED folder

\* DELETE /api/profile/{name}
DeleteRefused(stem) ==
  /\ Idle
  /\ \/ IsShipped(stem) /\ Refused   \* 409
     \/ stem \in UserStems /\ FinalPath(stem) \notin DOMAIN folder /\ Refused   \* 404

DeleteRequest(stem) ==
  /\ Idle /\ stem \in UserStems /\ FinalPath(stem) \in DOMAIN folder
  /\ folder' = Without(folder, FinalPath(stem))
  /\ saving' = [NotSaving EXCEPT !.step = "renamed"]
  /\ UNCHANGED <<table, loaded, seats, touched>>

-----------------------------------------------------------------------------
(* Outside the server *)

\* A person writes or removes a file: any stem, any name inside it, or a text
\* that does not parse.
HandEdit(stem, text) ==
  /\ Idle /\ Cardinality(touched) < MaxTouched
  /\ folder' = With(folder, FinalPath(stem), text)
  /\ touched' = touched \cup {stem}
  /\ UNCHANGED <<table, loaded, seats, saving>>

\* A crash at any moment, and the next start: sessions and any request are
\* gone, a temporary file stays, the directory is scanned.
Restart ==
  /\ \E scan \in Scans :
       LET profiles == Parsed(Sources(scan))
       IN  /\ table' = Overwritten(profiles)
           /\ loaded' = Len(profiles)
  /\ seats' = [i \in Seats |-> EmptySeat]
  /\ saving' = NotSaving
  /\ touched' = {}
  /\ UNCHANGED <<folder>>

-----------------------------------------------------------------------------

ProfilesInit ==
  /\ folder = << >>
  /\ table = Overwritten(Parsed(Sources({})))
  /\ loaded = Len(Parsed(Sources({})))
  /\ seats = [i \in Seats |-> EmptySeat]
  /\ saving = NotSaving
  /\ touched = {}

Names == Range(StemOrder) \cup {BuiltinProfile.name}

ProfilesNext ==
  \/ \E i \in Seats : \/ \E device \in Devices : SeatTaken(i, device)
                       \/ SeatAcked(i)
                       \/ SeatFreed(i)
                       \/ LayoutSent(i)
                       \/ \E name \in Names : ChooseProfile(i, name)
  \/ ReloadRequest
  \/ \E stem \in Range(StemOrder) : PutRefused(stem) \/ DeleteRefused(stem)
  \/ \E stem \in UserStems, match \in Fragments, rev \in Revisions : PutBegins(stem, match, rev)
  \/ PutWrites \/ PutFails \/ PutRenames \/ PutReloads
  \/ \E stem \in UserStems : DeleteRequest(stem)
  \/ \E stem \in Range(StemOrder), text \in HandTexts : HandEdit(stem, text)
  \/ Restart

ProfilesSpec == ProfilesInit /\ [][ProfilesNext]_profileVars

-----------------------------------------------------------------------------
(* Properties *)

\* Between requests a session nobody has picked a profile for runs the one a new
\* HELLO of its device would be given, and a session a person has picked one for
\* runs that for as long as every load had a profile of its name, although the
\* table its pointer leads into has been overwritten
\* (apad_server_reload_profiles).  Where a session stands whose pick has gone is
\* FallbackFollows.
SessionsMapped ==
  Idle => \A i \in Seats : seats[i].in_use =>
    /\ ~seats[i].pinned => seats[i].at = MatchIn(table, loaded, seats[i].device)
    /\ seats[i].human # "" => At(table, seats[i].at).name = seats[i].human

\* A client that has acknowledged its WELCOME draws the layout its session is
\* played with, or is owed a new one: connecting, picking another profile,
\* and editing one under it all mark the layout (server.c, touchmap_dirty).
LayoutFollows ==
  Idle => \A i \in Seats : seats[i].in_use /\ seats[i].acked /\ ~seats[i].dirty =>
    seats[i].shown = At(table, seats[i].at)

\* Whatever fails and whenever the server dies, a profile file holds a whole
\* text, the old one or the new one, unless a person tore it
\* (profile_store_save's temporary file and rename).
NoTornFile ==
  \A file \in DOMAIN folder : file[2] = "jsonc" => folder[file] # Torn

\* A session nobody's pick stands for, because there was none or because its
\* profile has gone, runs what a new HELLO of its device would be given, after
\* every reload: "Land this session where a brand-new HELLO from the same device
\* would land NOW", a profile a human picked being "the exception" (server.c,
\* apad_server_reload_profiles).  The code falls back once and keeps
\* profile_pinned, so that later reloads hold on to the fallback's name.
FallbackFollows ==
  Idle => \A i \in Seats : seats[i].in_use /\ seats[i].human = "" =>
    seats[i].at = MatchIn(table, loaded, seats[i].device)

\* A session, its client's drawing and the loaded profiles stay one story.
SessionsFollowTable == SessionsMapped /\ LayoutFollows
=============================================================================
