---------------------------- MODULE MCAcquisition ----------------------------
(* Small instances of Acquisition: two requests, five bindings of two capabilities. *)
EXTENDS Acquisition, TLC

CONSTANTS b0, b1, b2, b3, b4

MCCapOf == [b \in Bindings |-> IF b \in {b0, b1, b2} THEN "one" ELSE "two"]

\* Two of one capability, two of two, and one that is refused after another.
MCProposals == {<<b1, b2>>, <<b2, b3>>, <<b1, b4>>}
=============================================================================
