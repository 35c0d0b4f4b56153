------------------------------ MODULE MCReuse ------------------------------
(* Small instances of Reuse: two capabilities, three bindings, two providers. *)
EXTENDS Reuse

MCCapOf == <<1, 1, 2>>
MCProviderOf == <<1, 2, 1>>
MCRequired == <<{"in", "target"}, {"in", "opt"}, {"in", "opt"}>>

B(id, level) == [id |-> id, level |-> level, executable |-> level > 1]

MCSeed == <<<<B(1, 3)>>, <<B(3, 2)>>>>

\* Promoted anew with less, and beside the one that is there.
MCPromotable == {B(1, 1), B(2, 2)}

Ask == [use |-> TRUE, intent |-> <<4, 0>>, force |-> FALSE, cap |-> 1, binding |-> 0,
        provider |-> 0, inputs |-> {"in"}, verify |-> TRUE, min |-> 0]

TwoCaps == [Ask EXCEPT !.intent = <<4, 4>>, !.provider = 1]
ARun == [Ask EXCEPT !.use = FALSE, !.inputs = {"in", "opt"}, !.verify = FALSE]

\* Two uses of one intent; one that fits two capabilities, beside a run.
MCAsks == {<<Ask, Ask>>, <<TwoCaps, ARun>>}
=============================================================================
