------------------------------ MODULE MCProbe ------------------------------
(* Small instances of Probe: a program that filters a file, one that says a   *)
(* word, plans that are settled without a program.                            *)
EXTENDS Probe

CONSTANTS in, out

Filter == [template |-> FALSE, fixtures |-> <<in>>, sound |-> TRUE, level |-> 2,
           method |-> "execute", rendered |-> TRUE, output |-> out,
           stdout |-> NoFile, checks |-> <<Process, out>>]
Captured == [Filter EXCEPT !.fixtures = <<>>, !.output = NoFile, !.stdout = out,
             !.checks = <<out>>]
Contract == [Filter EXCEPT !.fixtures = <<>>, !.level = 1, !.method = "contract",
             !.checks = <<>>]
Escaping == [Filter EXCEPT !.fixtures = <<in, BadName>>]

\* It checks a file that nothing writes.
Hopeful == [Captured EXCEPT !.stdout = NoFile]

MCJobs == {<<Filter>>, <<Captured, Contract>>, <<Escaping>>, <<Hopeful>>}
=============================================================================
