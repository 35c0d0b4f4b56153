---------------------------- MODULE MCScreening ----------------------------
(* Answers, files and help texts, each with one or two things to screen. *)
EXTENDS Screening

MCLower == [n \in {"", "run", "RUN", "fmt", "Help", "help", "old", "bad",
                   "a.x", "A.X", "a.y", "a.z"} |->
              IF n = "RUN" THEN "run" ELSE IF n = "Help" THEN "help"
              ELSE IF n = "A.X" THEN "a.x" ELSE n]

S(id, name) == [id |-> id, kind |-> "command", name |-> name, decision |-> "keep"]

\* Any three of these; one with every reason to skip; two without a surface.
MCSurfaceAnswers ==
  LET run == S("s1", "run")  fmt == S("s2", "fmt")
      other == [fmt EXCEPT !.kind = "", !.decision = "later"]
  IN SeqOf({run, S("s3", "RUN"), other, S("s5", "Help")}, 3)
       \cup {<<[run EXCEPT !.decision = "defer"], [fmt EXCEPT !.kind = "mode"], S("s4", "old"),
               fmt, [fmt EXCEPT !.kind = "option"], S("", "run")>>}

P(id, sources) == [id |-> id, description |-> "d", sources |-> sources]

MCCapabilityAnswers ==
  {<<P("a.x", {"s1"}), P("a.y", {"s2"})>>,
   <<P("A.X", {"s3"}), P("bad", {"s3"}), P("a.x", {"s2"})>>,
   <<[P("a.y", {"s1"}) EXCEPT !.description = ""]>>,
   <<P("a.x", {"s2"}), P("a.y", {"s2"}), P("a.z", {"s2"}), P("a.y", {"s1"})>>,
   <<P("a.x", {})>>}

C == [provider |-> "", capability |-> "", description |-> "", kind |-> "cli",
      args |-> "v", stdout |-> ""]
M(index) == [index |-> index, inputs |-> {"source", "target"}, fixtures |-> {"source"}]
Bound(cs, ms) == [candidates |-> cs, materials |-> ms]

MCBindingAnswers ==
  {Bound(<<C>>, <<M(1)>>),
   Bound(<<C, [C EXCEPT !.stdout = "source"], [C EXCEPT !.provider = "p"],
           [C EXCEPT !.capability = "a.y", !.stdout = "target"]>>,
         <<M(4), M(3), M(2), M(1)>>),
   Bound(<<[C EXCEPT !.provider = "q"]>>, <<M(1)>>),
   Bound(<<[C EXCEPT !.capability = "bad"], C>>, <<M(1)>>),
   Bound(<<[C EXCEPT !.kind = "tool"], [C EXCEPT !.args = "w"], [C EXCEPT !.args = "z"]>>,
         <<M(1), M(2), [M(3) EXCEPT !.inputs = {}], [M(3) EXCEPT !.index = 1]>>),
   Bound(<<[C EXCEPT !.kind = ""]>>, <<M(1)>>)}

Check(type, input, predicate, params) ==
  [type |-> type, input |-> input, predicate |-> predicate, params |-> params]
NoParams == [p \in {} |-> "good"]
Exists == Check("file", "target", "exists", NoParams)
Format == Check("file", "target", "format", [format |-> "good"])
Holds == Check("stdout", "", "contains", [value |-> "good"])
V(level, method, checks) == [level |-> level, method |-> method, checks |-> checks]

MCEvidenceAnswers ==
  {V(3, "", <<Exists, Format, Check("stdout", "", "contains", [value |-> "nil"])>>),
   V(0, "execute", <<Holds, Check("file", "other", "exists", NoParams),
                     Check("stdout", "", "regex", [pattern |-> "empty"])>>),
   V(3, "execute", <<Check("stdout", "", "exists", NoParams),
                     Check("stdout", "", "contains_any", [values |-> "good"])>>),
   V(3, "contract", <<>>),
   V(2, "execute", <<Check("", "", "exists", NoParams), Check("file", "target", "looks", NoParams),
                     Check("file", "target", "format", [format |-> "other"])>>),
   V(2, "review", <<Exists>>)}

R(cap) == [C EXCEPT !.capability = cap, !.description = "d"]
At(index, verify) == [index |-> index, verify |-> verify]
File(cs, ps) == [schema |-> TRUE, candidates |-> cs, plans |-> ps]

MCReplayFiles ==
  LET good == File(<<R("a.x"), [R("a.x") EXCEPT !.args = "w"], R("a.y")>>,
                   <<At(3, V(1, "execute", <<Exists>>)), At(1, V(3, "execute", <<Exists>>)),
                     At(2, V(2, "execute", <<Format>>))>>)
  IN {good, [good EXCEPT !.schema = FALSE],
      [good EXCEPT !.plans = Tail(@)], [good EXCEPT !.plans[1].index = 2],
      [good EXCEPT !.plans[1].index = 4], [good EXCEPT !.plans[1].verify.method = "contract"],
      [good EXCEPT !.plans[1].verify.checks = <<>>],
      [good EXCEPT !.candidates[1].description = ""],
      [good EXCEPT !.candidates[1].kind = "tool"]}

Help == [marked |-> "", command |-> FALSE, blank |-> FALSE, looks |-> "", args |-> "v"]

MCObservations ==
  LET marked == [Help EXCEPT !.marked = "a.z", !.command = TRUE]
      pdf == [Help EXCEPT !.looks = "a.x"]
  IN {<<>>, <<Help>>, <<pdf, marked, [pdf EXCEPT !.args = "w"]>>,
      <<[marked EXCEPT !.command = FALSE, !.looks = "a.x"], marked>>,
      <<pdf, [marked EXCEPT !.blank = TRUE]>>, <<[marked EXCEPT !.marked = "bad"]>>}
=============================================================================
