------------------------------- MODULE MCLink --------------------------------
(***************************************************************************)
(* A small instance of Link for TLC: the values a .cfg cannot write itself. *)
(***************************************************************************)
EXTENDS Link

MCKeys == [generation : 0 .. MaxGeneration, nonce : Nonces]

\* One retransmit instead of four.
MCOneRetransmit == <<1>>

MCRingDepth == [f \in Facilities |-> 1]
MCCodes == [f \in Facilities |-> {1}]
MCNoMsgs == [f \in Facilities |-> {}]

\* Secret 1 is the first window's; 0 is a typing mistake.
MCDerived(secret, nonce) == Key(secret, nonce)

=============================================================================
