------------------------------ MODULE MCChecks ------------------------------
(* Checks with short texts, small tables, documents, archives.              *)
EXTENDS Checks

Short == {t \in BoundedSeq({"a", ",", CR, LF}, 4) :
            \A i \in DOMAIN t : t[i] = CR => i < Len(t) /\ t[i + 1] = LF}

Table == <<"a", ",", "b", CR, LF, "B", ",", "a", CR, LF, "b", CR, LF, "a", ",", LF, CR, LF>>
Gaps == <<"a", ",", "b", LF, "a", ",", LF, ",", "b">>
Plain == <<"a", "b">>

Of(kind, text) == [kind |-> kind, text |-> text]
One == Of("number", <<"1">>)
Blank == Of("string", <<>>)
Null == Of("null", <<"null">>)
List == [kind |-> "array", text |-> <<"[", "1", ",", "q", "]">>, items |-> <<One, Blank>>]
Object == [kind |-> "object", text |-> <<"{", "a", ":", "]", "b", ":", "null", "}">>,
           fields |-> (<<"a">> :> List @@ <<"b">> :> Null)]
Name == Of("string", <<"i">>)
Two == Of("number", <<"2">>)
Sizes == [kind |-> "object", text |-> <<"{", "b", ":", "2", "}">>,
          fields |-> (<<"a">> :> Name @@ <<"b">> :> Two)]
MCValues == {One, Two, Of("number", <<"0">>), Blank, Name, Null, List, Object, Sizes}

Content(text, json, formats) ==
  [text |-> text, json |-> json, formats |-> formats, entries |-> <<>>]
Text(text) ==
  Content(text, CASE Numeric(Trim(text)) -> Of("number", Trim(text))
                  [] text = Null.text -> Null
                  [] OTHER -> NoValue, {"text"})
Document(value) == Content(value.text, value, {"text", "json"})
Spaced == Content(<<" ">> \o Object.text, Object, {"text", "json"})
Archive(entries) ==
  [text |-> <<"zip">>, json |-> NoValue, formats |-> {"zip"}, entries |-> entries]
Entry(text, dir, readable) == [text |-> text, dir |-> dir, readable |-> readable]
Archives ==
  {Archive(<<>>), Archive(<<Entry(Plain, TRUE, TRUE)>>),
   Archive(<<Entry(<<>>, TRUE, TRUE), Entry(Plain, FALSE, TRUE)>>),
   Archive(<<Entry(<<>>, FALSE, FALSE), Entry(Plain, FALSE, TRUE)>>),
   Archive(<<Entry(Plain, FALSE, TRUE), Entry(<<>>, FALSE, FALSE)>>)}

Missing == Text(<<"missing">>)
In == <<"w", "/", "i">>
Out == <<"w", "/", "o">>
Request(source, stdout, output) ==
  [inputs |-> (<<"in">> :> In @@ <<"out">> :> (<<" ">> \o Out) @@ <<"word">> :> <<"a">> @@ <<"none">> :> <<>>),
   files |-> IF output = Missing THEN In :> source ELSE In :> source @@ Out :> output,
   stdout |-> stdout, stderr |-> Text(<<>>), exit_code |-> Text(<<"0">>)]

Outputs ==
  {Text(t) : t \in {<<>>, <<"a">>, <<"a", LF>>, <<"a", CR, LF, "a">>, <<"a", ",">>, <<",", LF>>,
                    <<"B", CR, LF, "b", LF, "a">>, <<LF, "b">>, <<"b", LF, "a", LF>>,
                    <<"a", ",", "b", LF, "B", ",", "a", LF, "a", ",">>, Transformed(Gaps, <<"uppercase">>),
                    <<"0">>, <<" ", "1">>, <<"x", "5", " ", "0">>, <<"1">>, <<"A", "2", " ", "i">>, <<"9", "9">>}}
Requests1 == {Request(Text(s), o, Missing) : s \in Short \cup {Table, Gaps}, o \in Outputs}
Requests2 ==
  {Request(Document(d), o, f) : d \in {Object, List},
     o \in {Document(Object), Spaced, Document(One), Document(Sizes), Text(<<>>), Text(<<"null">>)},
     f \in {Document(List), Text(<<>>)}}
Requests3 ==
  {Request(Text(s), Document(Sizes), f) : s \in {Plain, Gaps, <<>>, <<"E", "a">>, <<"E", CR, LF, "a">>},
     f \in Archives \cup {Text(t) : t \in {<<"A", "B">>, Transformed(Gaps, <<"uppercase">>),
                                          <<"E", "a", "b", LF>>, <<"a">>, <<>>}}}
MCRequests == Requests1 \cup Requests2 \cup Requests3

FileTexts == UNION {{content.text : content \in Range(r.files)} : r \in MCRequests}
MCEncoded == [t \in FileTexts |-> IF t = <<>> THEN t ELSE <<"E">> \o t]
MCDigest == [sha1 |-> [t \in FileTexts |-> <<"b", ToString(Len(t))>>],
             sha256 |-> [t \in FileTexts |-> <<"a", ToString(Len(t))>>]]

\* "a" anywhere; anything.
Printed == {r.stdout.text : r \in MCRequests}
MCMatching == {<<<<"a">>, t>> : t \in {u \in Printed : \E i \in DOMAIN u : u[i] = "a"}}
              \cup {<<<<"*">>, t>> : t \in Printed}

Stdout == [type |-> "stdout"]
File == [type |-> "file", input |-> <<"out">>]
Absent == [type |-> "file", input |-> <<"other">>]
Check(predicate, subject, params) ==
  [predicate |-> predicate, subject |-> subject, params |-> params]
WithSource(params) == ("source" :> <<"in">>) @@ params
None == [n \in {} |-> <<>>]

Filters == {Check("text_filter_matches", Stdout, WithSource([pattern |-> p])) :
              p \in {<<"word">>, <<",">>, <<>>}}
Columns == {Check("delimited_column_matches", Stdout, WithSource([delimiter |-> <<",">>, column |-> c])) :
              c \in {<<"word">>, <<"b">>, <<"0">>, <<"1">>, <<"2">>, <<"none">>,
                    <<"+", "2">>, <<"-", "1">>, <<"9", "9">>}}
Queries == {<<"$", ".", "a", ".", "0">>, <<".", "a", ".", "1">>, <<"$", "b">>, <<"a", ".", ".", "0">>,
            <<"b", ".", "0">>, <<"$", ".">>, <<"a", ".", "2">>, <<"0">>,
            <<"a", ".", "-", "0">>, <<"a", ".", "-", "1">>, <<"a", ".", "9", "9">>}
Fields == {Check("json_query_matches", Stdout, WithSource([query |-> q])) : q \in Queries}
          \cup {Check("json_field_equals", Stdout, [query |-> q, value |-> v]) :
                  q \in Queries, v \in {<<"1">>, <<"null">>, <<>>}}
          \cup {Check("json_field_matches_source", Stdout, WithSource([query |-> q, property |-> p])) :
                  q \in {<<"a">>, <<"b">>}, p \in {<<"basename">>, <<"bytes">>, <<"sha256">>}}
          \cup {Check("json_equivalent", Stdout, WithSource(None))}
Files == {Check("archive_contains_input", File, WithSource([format |-> <<"zip">>])),
          Check("text_transform_matches", File, WithSource([transform |-> <<"uppercase">>])),
          Check("bytes_equal_transform", File, WithSource([transform |-> <<"base64_encode">>])),
          Check("bytes_equal_transform", File, WithSource([transform |-> <<"base64_decode">>])),
          Check("exists", File, None), Check("non_empty", File, None),
          Check("exists", Absent, None),
          Check("format", File, [format |-> <<"json">>]), Check("format", File, [format |-> <<"text">>])}
Words == {Check("equals", Stdout, [value |-> <<"a">>]), Check("not_equals", Stdout, [value |-> <<"a">>]),
          Check("non_empty", Stdout, None),
          Check("contains", Stdout, [value |-> <<" ", "b">>]), Check("contains", Stdout, [value |-> <<" ">>]),
          Check("contains_any", Stdout, [values |-> <<<<" ">>, <<"b">>>>]),
          Check("regex", Stdout, [pattern |-> <<"a">>]), Check("regex", Stdout, [pattern |-> <<"*">>]),
          Check("line_count_matches", Stdout, WithSource(None)),
          Check("hash_line_matches", Stdout, WithSource([algorithm |-> <<"sha256">>])),
          Check("hash_line_matches", Stdout, WithSource([algorithm |-> <<"sha1">>]))}
Exit == Check("equals", [type |-> "exit_code"], [value |-> <<"0">>])

MCSpecs == {<<c>> : c \in Filters \cup Columns \cup Fields \cup Files \cup Words}
           \cup {<<Exit, c>> : c \in Filters \cup Words}
           \cup {<<Check("not_equals", Stdout, [value |-> <<"a">>]), Exit, d>> : d \in Files}
=============================================================================
