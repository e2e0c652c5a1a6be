------------------------------- MODULE MCKeys -------------------------------
(* A keyboard with one letter (1) and one modifier (3), a mouse button and a *)
(* media control; a tap is a press and a release in one submission.          *)
EXTENDS KbmLink

MCRingDepth == [f \in Facilities |-> 2]
MCCodes ==
  [f \in Facilities |-> IF f = "KEYBOARD" THEN {1, 3} ELSE {1}]
Tap(c) == <<Event(c, TRUE), Event(c, FALSE)>>
MCQueues == [f \in Facilities |-> {<<>>, Tap(1)}]
=============================================================================
