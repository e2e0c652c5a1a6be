------------------------------ MODULE MCServer -------------------------------
(***************************************************************************)
(* Small instances of Server for TLC.  Each .cfg switches on the dimensions *)
(* its run is about and shrinks the others; the values here are the ones a  *)
(* .cfg cannot write itself.                                                *)
(***************************************************************************)
EXTENDS Server, TLC

MCKeys == [generation : 0 .. MaxGeneration, nonce : Nonces]

\* One WELCOME retransmit instead of four; or two, with the second gap longer.
MCOneRetransmit == <<1>>
MCTwoRetransmits == <<1, 2>>

\* Ring slots are 8, 4 and 4 deep in kbm.h.
MCRingDepth == [f \in Facilities |-> IF f = "KEYBOARD" THEN 2 ELSE 1]

\* A shift key (0xE1) and a letter; one button; one media control.
MCCodes ==
  [f \in Facilities |-> IF f = "KEYBOARD" THEN {4, 225} ELSE {1}]

MCNoMsgs == [f \in Facilities |-> {}]

MCMouse(seq, held) ==
  [event_seq |-> seq, held |-> held, accum |-> seq,
   ring |-> [k \in 1 .. 1 |-> IF seq = 0 THEN NoEvent ELSE Event(1, held # {})]]

\* One mouse: pressed and released, its one ring slot naming the last edge.
MCMouseMsgs ==
  [f \in Facilities |-> IF f = "MOUSE" THEN {MCMouse(1, {1}), MCMouse(2, {})} ELSE {}]

PeerSymmetry == Permutations(Peers) \cup Permutations(Nonces)

=============================================================================
