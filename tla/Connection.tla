----------------------------- MODULE Connection ------------------------------
(***************************************************************************)
(* What a session is for, seen from outside: the server holds at most one   *)
(* session for a client, the client may have joined one, and it may have    *)
(* proof that the one it joined is real.  A session is whatever both sides  *)
(* must agree on to understand each other.                                  *)
(***************************************************************************)
CONSTANTS Sessions, None

VARIABLES
  held,      \* the session the server keeps for the client, or None
  granted,   \* every session the server ever held
  joined,    \* the session the client acts in, or None
  proven     \* whether the client knows that the server held it

vars == <<held, granted, joined, proven>>

Init == held = None /\ granted = {} /\ joined = None /\ proven = FALSE

Grant(x) ==
  /\ held = None
  /\ held' = x /\ granted' = granted \cup {x}
  /\ UNCHANGED <<joined, proven>>

Revoke ==
  /\ held # None
  /\ held' = None
  /\ UNCHANGED <<granted, joined, proven>>

\* A client that holds the wrong secret joins a session nobody granted; it may
\* act in it for a while, but never takes it for proven.
Join(x) ==
  /\ joined' = x
  /\ proven' \in {p \in BOOLEAN : p => x \in granted}
  /\ UNCHANGED <<held, granted>>

Prove ==
  /\ joined \in granted /\ ~proven
  /\ proven' = TRUE
  /\ UNCHANGED <<held, granted, joined>>

Leave ==
  /\ joined' = None /\ proven' = FALSE
  /\ UNCHANGED <<held, granted>>

Next ==
  \/ \E x \in Sessions : Grant(x) \/ Join(x)
  \/ Revoke \/ Prove \/ Leave

Spec == Init /\ [][Next]_vars

=============================================================================
