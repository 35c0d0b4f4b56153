----------------------------- MODULE MCProposal -----------------------------
(* Small instances of Proposal: identities of two capabilities and a stranger's. *)
EXTENDS Proposal, TLC

CONSTANTS x, y, z

MCCapOf == [i \in Identities |-> IF i = y THEN "two" ELSE "one"]

\* One candidate, two of different capabilities, one of another provider.
MCBound == {<<x>>, <<y, x>>, <<z>>}
=============================================================================
