------------------------------- MODULE Checks -------------------------------
(***************************************************************************)
(* internal/check: Checker.Run on the checks of a plan that Validate has    *)
(* accepted (Screening says which), and what each predicate makes of the    *)
(* program's outputs, its files and the inputs of the probe or the run.     *)
(*                                                                         *)
(* A text is a sequence of characters.  A content is a record: its text, the *)
(* JSON value it decodes to, the formats it has, its entries if it is an    *)
(* archive.  A JSON value is a record of its kind, its compact text and its *)
(* fields or items.  The decoders, regular expressions, base64 and the      *)
(* digests are external.                                                    *)
(***************************************************************************)
EXTENDS Integers, FiniteSets, SequencesExt

CONSTANTS
  Specs,     \* bound: sequences of checks
  Requests,  \* bound: outputs, inputs and files
  Values,    \* external: the JSON values that texts decode to
  NoValue,   \* no JSON, or no value where a query leads
  MaxInt,    \* bound: the greatest int
  Matching,  \* external: the pairs of a pattern and a text it matches
  Encoded,   \* external: a text -> its base64
  Digest     \* external: an algorithm and a text -> the hexadecimal digest

VARIABLES
  pc,       \* "checking", "passed" or "failed"
  checks,   \* the checks of the plan
  request,  \* what they are about
  at,       \* the check that is next
  canceled, \* the context is done
  evidence  \* the predicates that have held, with the number of their check

vars == <<pc, checks, request, at, canceled, evidence>>

----------------------------------------------------------------------------
(* Texts *)

CR == "CR"
LF == "LF"
Space == {" ", "TAB", "VT", "FF", CR, LF}
DigitList == <<"0", "1", "2", "3", "4", "5", "6", "7", "8", "9">>
Digits == Range(DigitList)
Characters == STRING \cup {CR, LF}
Texts == Seq(Characters)

\* A loop over N items: from what it has of those before, Turn makes what it
\* has of one more.
Loop(N, start, Turn(_, _)) ==
  LET had[n \in 0..N] == IF n = 0 THEN start ELSE Turn(had[n - 1], n)
  IN had[N]

\* Those of the items that are at these places.
Only(items, places) ==
  Loop(Len(items), <<>>, LAMBDA kept, n :
         IF n \in places THEN Append(kept, items[n]) ELSE kept)

Outside(text, chars) == {i \in DOMAIN text : text[i] \notin chars}
Trim(text) ==
  LET kept == Outside(text, Space)
  IN IF kept = {} THEN <<>> ELSE SubSeq(text, Min(kept), Max(kept))
TrimRight(text, chars) == SubSeq(text, 1, Max({0} \cup Outside(text, chars)))
TrimPrefix(text, prefix) ==
  IF IsPrefix(prefix, text) THEN SubSeq(text, Len(prefix) + 1, Len(text)) ELSE text

Occurs(part, text) ==
  \E i \in 0..(Len(text) - Len(part)) : SubSeq(text, i + 1, i + Len(part)) = part

\* The parts before the i-th character, and that one: of a separator, of which
\* there is a rest to skip, or one more of the last part.
SplitTurn(sep, text, cut, i) ==
  IF cut.skip > 0 THEN [parts |-> cut.parts, skip |-> cut.skip - 1]
  ELSE IF SubSeq(text, i, i + Len(sep) - 1) = sep
  THEN [parts |-> Append(cut.parts, <<>>), skip |-> Len(sep) - 1]
  ELSE [parts |-> [cut.parts EXCEPT ![Len(cut.parts)] = Append(@, text[i])], skip |-> 0]

\* strings.Split: without a separator, each character is a part.
Split(text, sep) ==
  IF sep = <<>> THEN [i \in DOMAIN text |-> <<text[i]>>]
  ELSE Loop(Len(text), [parts |-> <<<<>>>>, skip |-> 0],
            LAMBDA cut, i : SplitTurn(sep, text, cut, i)).parts

\* strings.Join.
Join(lines) ==
  Loop(Len(lines), <<>>, LAMBDA text, n :
         text \o (IF n = 1 THEN <<>> ELSE <<LF>>) \o lines[n])

\* splitLines: without the line ends at the end, each CR LF as one line end.
Unix(line) == IF line # <<>> /\ Last(line) = CR THEN Front(line) ELSE line
Lines(text) ==
  LET body == TrimRight(text, {CR, LF})
      parts == Split(body, <<LF>>)
  IN IF body = <<>> THEN <<>>
     ELSE [n \in DOMAIN parts |-> IF n < Len(parts) THEN Unix(parts[n]) ELSE parts[n]]

SameLines(got, want) == Lines(got) = Lines(want)

\* strconv.Atoi: digits, with a sign or without, of a number that is an int.
Value(digit) == CHOOSE v \in 0..9 : DigitList[v + 1] = digit
Magnitude(digits) == Loop(Len(digits), 0, LAMBDA n, i : 10 * n + Value(digits[i]))
Unsigned(text) == IF text # <<>> /\ text[1] \in {"+", "-"} THEN Tail(text) ELSE text
Number(text) ==
  IF text[1] = "-" THEN -Magnitude(Unsigned(text)) ELSE Magnitude(Unsigned(text))
Numeric(text) ==
  /\ Unsigned(text) # <<>> /\ Outside(Unsigned(text), Digits) = {}
  /\ -MaxInt - 1 <= Number(text) /\ Number(text) <= MaxInt

\* The first run of digits.
FirstDigits(text) ==
  LET digits == DOMAIN text \ Outside(text, Digits)
      first == Min(digits)
      end == Min({i \in Outside(text, Digits) : i > first} \cup {Len(text) + 1})
  IN IF digits = {} THEN <<>> ELSE SubSeq(text, first, end - 1)

\* An output without a number counts nothing.
Mut_FirstInt(text) ==
  LET digits == FirstDigits(text)
  IN IF Numeric(digits) THEN Number(digits) ELSE 0

\* firstInt: their number, or -1, which is no count.
FirstInt(text) ==
  LET digits == FirstDigits(text)
  IN IF Numeric(digits) THEN Number(digits) ELSE -1

Upper == ("a" :> "A" @@ "b" :> "B")
Transformed(text, transform) ==
  LET lower == AntiFunction(Upper)
      map == IF transform = <<"uppercase">> THEN Upper ELSE lower
  IN [i \in DOMAIN text |-> IF text[i] \in DOMAIN map THEN map[text[i]] ELSE text[i]]

----------------------------------------------------------------------------
(* Parameters and subjects *)

\* stringParam and stringListParam.
StringParam(c, name) == Trim(c.params[name])
ListParam(c) ==
  LET values == [n \in DOMAIN c.params.values |-> Trim(c.params.values[n])]
  IN Only(values, {n \in DOMAIN values : values[n] # <<>>})

\* valueParam and pathParam: the input of that name, if it has a value.
ValueParam(c, name, r) ==
  LET value == StringParam(c, name)
  IN IF value \in DOMAIN r.inputs /\ Trim(r.inputs[value]) # <<>>
     THEN Trim(r.inputs[value]) ELSE value

IsFile(c) == c.subject.type = "file"
Path(c, r) == Trim(r.inputs[c.subject.input])

\* resolveSubject and subjectText, and the file the source parameter names.
Reads(c, r) ==
  /\ IsFile(c) => /\ c.subject.input \in DOMAIN r.inputs
                  /\ Path(c, r) \in DOMAIN r.files
  /\ "source" \in DOMAIN c.params => ValueParam(c, "source", r) \in DOMAIN r.files
Got(c, r) == IF IsFile(c) THEN r.files[Path(c, r)] ELSE r[c.subject.type]
Source(c, r) == r.files[ValueParam(c, "source", r)]

----------------------------------------------------------------------------
(* What Validate has accepted, and what a request is *)

\* The parameters a predicate requires.
Required ==
  [equals |-> {"value"}, not_equals |-> {"value"}, exists |-> {}, non_empty |-> {},
   format |-> {"format"}, contains |-> {"value"}, contains_any |-> {"values"},
   regex |-> {"pattern"}, text_transform_matches |-> {"source", "transform"},
   line_count_matches |-> {"source"}, text_filter_matches |-> {"source", "pattern"},
   delimited_column_matches |-> {"source", "delimiter", "column"},
   json_query_matches |-> {"source", "query"}, json_equivalent |-> {"source"},
   json_field_equals |-> {"query", "value"},
   json_field_matches_source |-> {"query", "source", "property"},
   archive_contains_input |-> {"source", "format"},
   bytes_equal_transform |-> {"source", "transform"},
   hash_line_matches |-> {"source", "algorithm"}]

\* The values of formats, transforms, properties and algorithms are allowed ones,
\* here in one spelling each.
IsCheck(c) ==
  /\ c.subject.type \in {"file", "stdout", "stderr", "exit_code"}
  /\ c.predicate \in DOMAIN Required /\ Required[c.predicate] \subseteq DOMAIN c.params
  /\ \A name \in DOMAIN c.params \ {"values"} : c.params[name] \in Texts
  /\ "values" \in DOMAIN c.params => c.params.values \in Seq(Texts)
  /\ c.predicate = "format" =>
       StringParam(c, "format") \in {<<"pdf">>, <<"png">>, <<"json">>, <<"text">>}
  /\ c.predicate = "text_transform_matches" =>
       StringParam(c, "transform") \in {<<"uppercase">>, <<"lowercase">>}
  /\ c.predicate = "bytes_equal_transform" =>
       StringParam(c, "transform") \in {<<"base64_encode">>, <<"base64_decode">>}
  /\ c.predicate = "json_field_matches_source" =>
       StringParam(c, "property") \in {<<"basename">>, <<"bytes">>, <<"sha256">>}
  /\ c.predicate = "archive_contains_input" => StringParam(c, "format") \in {<<"zip">>, <<"tar">>}
  /\ c.predicate = "hash_line_matches" => StringParam(c, "algorithm") \in {<<"sha1">>, <<"sha256">>}

\* Nothing is decoded from an empty text.
IsContent(content) ==
  /\ content.text \in Texts /\ Len(content.text) <= MaxInt
  /\ content.json \in Values \cup {NoValue}
  /\ content.entries \in Seq(Range(content.entries))
  /\ content.text = <<>> => content.json = NoValue /\ content.formats \subseteq {"text"}

IsRequest(r) ==
  /\ \A name \in DOMAIN r.inputs : r.inputs[name] \in Texts
  /\ \A content \in {r.stdout, r.stderr, r.exit_code} \cup Range(r.files) : IsContent(content)
  /\ \A content \in Range(r.files) :
       content.text \in DOMAIN Encoded \cap DOMAIN Digest["sha1"] \cap DOMAIN Digest["sha256"]

IsValue(value) ==
  /\ value.text \in Texts
  /\ value.kind = "object" => Range(value.fields) \subseteq Values
  /\ value.kind = "array" => value.items \in Seq(Values)

ASSUME ChecksAssumption ==
  /\ MaxInt \in Nat
  /\ \A s \in Specs : s \in Seq(Range(s)) /\ \A c \in Range(s) : IsCheck(c)
  /\ \A r \in Requests : IsRequest(r)
  /\ NoValue \notin Values /\ \A value \in Values : IsValue(value)
  /\ \A text \in DOMAIN Encoded :
       Encoded[text] \in Texts /\ (Trim(Encoded[text]) = <<>> => text = <<>>)
  /\ \A digest \in Range(Digest["sha1"]) \cup Range(Digest["sha256"]) : digest \in Texts \ {<<>>}

----------------------------------------------------------------------------
(* Text predicates *)

FilterLines(text, pattern) ==
  LET lines == Lines(text)
  IN Join(Only(lines, {n \in DOMAIN lines : Occurs(pattern, lines[n])}))

\* The cells of one column, of the rows that have it.
Cells(rows, first, delimiter, column) ==
  LET parts == [n \in DOMAIN rows |-> Split(rows[n], delimiter)]
      has == {n \in first..Len(rows) : column <= Len(parts[n])}
  IN Join(Only([n \in DOMAIN rows |-> IF n \in has THEN parts[n][column] ELSE <<>>], has))

Headed(lines, delimiter, header) ==
  LET heads == Split(lines[1], delimiter)
  IN {n \in DOMAIN heads : Trim(heads[n]) = header}

\* The header counts as a value of its column.
Mut_ByHeader(got, lines, delimiter, header) ==
  LET columns == Headed(lines, delimiter, header)
  IN columns # {} /\ SameLines(got, Cells(lines, 1, delimiter, Min(columns)))

\* delimitedColumnByHeader.
ByHeader(got, lines, delimiter, header) ==
  LET columns == Headed(lines, delimiter, header)
  IN columns # {} /\ SameLines(got, Cells(lines, 2, delimiter, Min(columns)))

ColumnMatches(got, source, delimiter, column) ==
  LET lines == Lines(source)
  IN /\ column # <<>>
     /\ \/ /\ Numeric(column) /\ Number(column) >= 1
           /\ SameLines(got, Cells(lines, 1, delimiter, Number(column)))
        \/ /\ ~Numeric(column) /\ lines # <<>>
           /\ ByHeader(got, lines, delimiter, column)

LineCountMatches(got, source) ==
  FirstInt(got) = Cardinality({n \in DOMAIN source : source[n] = LF})

----------------------------------------------------------------------------
(* JSON predicates *)

Descend(value, part) ==
  IF value = NoValue \/ part = <<>> THEN NoValue
  ELSE IF value.kind = "object" /\ part \in DOMAIN value.fields THEN value.fields[part]
  ELSE IF value.kind = "array" /\ Numeric(part) /\ Number(part) \in 0..(Len(value.items) - 1)
  THEN value.items[Number(part) + 1]
  ELSE NoValue

\* The parts of a query between its dots.
QueryPath(query) == TrimPrefix(TrimPrefix(Trim(query), <<"$">>), <<".">>)

\* walkJSON.
Walk(value, query) ==
  LET path == QueryPath(query)
      parts == Split(path, <<".">>)
  IN IF path = <<>> THEN value
     ELSE Loop(Len(parts), value, LAMBDA v, n : Descend(v, parts[n]))

\* jsonScalarText of what the query leads to is that text, but for blanks.
Leads(content, query, want) ==
  LET value == Walk(content.json, query)
  IN value # NoValue /\ Trim(value.text) = want

JSONQueryMatches(got, source, query) == Leads(source, query, Trim(got.text))
JSONEquivalent(got, source) == got.json # NoValue /\ got.json = source.json
JSONFieldEquals(got, query, value) == Leads(got, query, Trim(value))

\* sourcePropertyValue; a size of one digit.
Property(c, r) ==
  LET path == ValueParam(c, "source", r)
      text == Source(c, r).text
  IN CASE StringParam(c, "property") = <<"basename">> -> Last(Split(path, <<"/">>))
       [] StringParam(c, "property") = <<"bytes">> -> <<ToString(Len(text))>>
       [] OTHER -> Digest["sha256"][text]

----------------------------------------------------------------------------
(* File, archive, bytes and hash predicates *)

NonEmpty(c, got) == IF IsFile(c) THEN got.text # <<>> ELSE Trim(got.text) # <<>>

\* An entry that cannot be read ends the search.
ArchiveContains(got, source, format) ==
  LET files == Only(got.entries, {n \in DOMAIN got.entries : ~got.entries[n].dir})
      bad == {n \in DOMAIN files : ~files[n].readable}
  IN /\ format \in got.formats
     /\ \E n \in DOMAIN files : files[n].text = source /\ \A m \in bad : n < m

\* bytes_equal_transform with base64_encode or base64_decode, which skips line ends.
Unwrapped(text) == LET body == Trim(text) IN Only(body, Outside(body, {CR, LF}))
BytesMatch(got, source, transform) ==
  IF transform = <<"base64_encode">> THEN Trim(Encoded[source]) = Trim(got)
  ELSE \E bytes \in DOMAIN Encoded :
         Encoded[bytes] = Unwrapped(source) /\ Trim(bytes) = Trim(got)

\* hash_line_matches: the digest, whatever the case of its letters.
HashLineMatches(got, source, algorithm) ==
  Occurs(Digest[algorithm][source], Transformed(got, <<"lowercase">>))

----------------------------------------------------------------------------
(* Checker.Run *)

\* runPredicate.
Holds(c, r) ==
  LET got == Got(c, r)
      source == Source(c, r)
      Is(name) == c.predicate = name
      Param(name) == StringParam(c, name)
      Given(name) == ValueParam(c, name, r)
  IN /\ Reads(c, r)
     /\ \/ Is("equals") /\ got.text = c.params.value
        \/ Is("not_equals") /\ got.text # c.params.value
        \/ Is("exists")
        \/ Is("non_empty") /\ NonEmpty(c, got)
        \/ Is("format") /\ Param("format")[1] \in got.formats
        \/ Is("contains") /\ Occurs(Param("value"), got.text)
        \/ Is("contains_any") /\ \E v \in Range(ListParam(c)) : Occurs(v, got.text)
        \/ Is("regex") /\ <<Param("pattern"), got.text>> \in Matching
        \/ /\ Is("text_transform_matches")
           /\ got.text = Transformed(source.text, Param("transform"))
        \/ Is("line_count_matches") /\ LineCountMatches(got.text, source.text)
        \/ /\ Is("text_filter_matches")
           /\ SameLines(got.text, FilterLines(source.text, Given("pattern")))
        \/ /\ Is("delimited_column_matches")
           /\ ColumnMatches(got.text, source.text, Given("delimiter"), Given("column"))
        \/ Is("json_query_matches") /\ JSONQueryMatches(got, source, Given("query"))
        \/ Is("json_equivalent") /\ JSONEquivalent(got, source)
        \/ Is("json_field_equals") /\ JSONFieldEquals(got, Given("query"), Given("value"))
        \/ /\ Is("json_field_matches_source")
           /\ Leads(got, Given("query"), Property(c, r))
        \/ /\ Is("archive_contains_input")
           /\ ArchiveContains(got, source.text, Param("format")[1])
        \/ /\ Is("bytes_equal_transform")
           /\ BytesMatch(got.text, source.text, Param("transform"))
        \/ Is("hash_line_matches") /\ HashLineMatches(got.text, source.text, Param("algorithm")[1])

Init ==
  /\ pc = "checking" /\ checks \in Specs /\ request \in Requests
  /\ at = 1 /\ canceled = FALSE /\ evidence = <<>>

\* One check that holds.
CheckHolds ==
  /\ pc = "checking" /\ ~canceled /\ at <= Len(checks)
  /\ Holds(checks[at], request)
  /\ at' = at + 1
  /\ evidence' = Append(evidence, <<at, checks[at].predicate>>)
  /\ UNCHANGED <<pc, checks, request, canceled>>

\* The first that does not, or the end of the context, ends it.
CheckFails ==
  /\ pc = "checking" /\ at <= Len(checks)
  /\ canceled \/ ~Holds(checks[at], request)
  /\ pc' = "failed"
  /\ UNCHANGED <<checks, request, at, canceled, evidence>>

Pass ==
  /\ pc = "checking" /\ at > Len(checks)
  /\ pc' = "passed"
  /\ UNCHANGED <<checks, request, at, canceled, evidence>>

Cancel ==
  /\ pc = "checking" /\ ~canceled
  /\ canceled' = TRUE
  /\ UNCHANGED <<pc, checks, request, at, evidence>>

Next == CheckHolds \/ CheckFails \/ Pass \/ Cancel

Spec == Init /\ [][Next]_vars

----------------------------------------------------------------------------
(* What a verdict should mean, written without the helpers of the code: by  *)
(* the positions of line ends and delimiters, and by the paths of a value.  *)

\* The characters at some places next to each other.
Piece(text, places) == IF places = {} THEN <<>> ELSE SubSeq(text, Min(places), Max(places))

\* The places before which there are n - 1 of the marks, and that are none.
Between(marks, n, end) ==
  {i \in (1..end) \ marks : Cardinality({m \in marks : m < i}) = n - 1}

\* The lines up to the last character that is no line end.  A carriage return
\* right before a line feed is in no line.
RefLines(text) ==
  LET end == Max({0} \cup Outside(text, {CR, LF}))
      feeds == {i \in 1..end : text[i] = LF}
      own(n) == {i \in Between(feeds, n, end) : ~(text[i] = CR /\ i + 1 \in feeds)}
  IN IF end = 0 THEN <<>>
     ELSE [n \in 1..(Cardinality(feeds) + 1) |-> Piece(text, own(n))]

\* text shows the rows picked, in order, but for the blank ones at the end.
Shows(text, picked, row) ==
  LET last == Max({0} \cup {n \in picked : row[n] # <<>>})
      kept == {n \in picked : n <= last}
  IN /\ Len(RefLines(text)) = Cardinality(kept)
     /\ \A n \in kept :
          RefLines(text)[Cardinality({m \in kept : m <= n})] = row[n]

\* No carriage return but in a line end.
Clean(text) ==
  \A i \in DOMAIN text : text[i] = CR => i < Len(text) /\ text[i + 1] = LF

\* Column k of a line, with a delimiter of one character.
Marks(line, delimiter) == {i \in DOMAIN line : <<line[i]>> = delimiter}
HasCell(line, delimiter, k) == k <= Cardinality(Marks(line, delimiter)) + 1
CellAt(line, delimiter, k) == Piece(line, Between(Marks(line, delimiter), k, Len(line)))

\* The columns with this header.
HeaderAt(lines, delimiter, header) ==
  IF lines = <<>> THEN {}
  ELSE {k \in 1..(Len(lines[1]) + 1) :
          HasCell(lines[1], delimiter, k) /\ Trim(CellAt(lines[1], delimiter, k)) = header}

\* The column a check asks for, by its number or by its header, and its rows.
WantedColumn(lines, delimiter, column) ==
  IF Numeric(column) THEN Number(column) ELSE Min(HeaderAt(lines, delimiter, column))
WantedRows(lines, delimiter, column) ==
  {n \in (IF Numeric(column) THEN 1 ELSE 2)..Len(lines) :
     HasCell(lines[n], delimiter, WantedColumn(lines, delimiter, column))}

RightColumn(got, source, delimiter, column) ==
  LET lines == RefLines(source)
      k == WantedColumn(lines, delimiter, column)
      rows == WantedRows(lines, delimiter, column)
  IN /\ column # <<>>
     /\ IF Numeric(column) THEN k > 0 ELSE HeaderAt(lines, delimiter, column) # {}
     /\ Shows(got, rows, [n \in rows |-> CellAt(lines[n], delimiter, k)])

RightFilter(got, source, pattern) ==
  LET lines == RefLines(source)
  IN Shows(got, {n \in DOMAIN lines : Occurs(pattern, lines[n])}, lines)

\* The members of the value at a place, each at its own: the path to it, by
\* keys and by items.
Member(place, step, value) == [path |-> Append(place.path, step), value |-> value]
Members(place) ==
  LET v == place.value
  IN CASE v.kind = "object" ->
            {Member(place, [kind |-> "key", name |-> key], v.fields[key]) : key \in DOMAIN v.fields}
       [] v.kind = "array" ->
            {Member(place, [kind |-> "item", at |-> n], v.items[n]) : n \in DOMAIN v.items}
       [] OTHER -> {}

\* The places n levels down from a value.
Places(value, depth) ==
  LET down[n \in 0..depth] ==
        IF n = 0 THEN {[path |-> <<>>, value |-> value]}
        ELSE UNION {Members(place) : place \in down[n - 1]}
  IN down[depth]

\* A part of a query names a key, or an item by its number from 0 on.
Names(part, step) ==
  /\ part # <<>>
  /\ \/ step.kind = "key" /\ step.name = part
     \/ step.kind = "item" /\ Numeric(part) /\ Number(part) = step.at - 1

\* The values a query leads to: one or none.
Found(content, query) ==
  LET path == QueryPath(query)
      depth == IF path = <<>> THEN 0 ELSE Cardinality(Marks(path, <<".">>)) + 1
      named(place) == \A n \in 1..depth : Names(CellAt(path, <<".">>, n), place.path[n])
  IN IF content.json = NoValue THEN {}
     ELSE {place.value : place \in {p \in Places(content.json, depth) : named(p)}}

FindsText(content, query, want) ==
  \E value \in Found(content, query) : Trim(value.text) = want

\* The digits that come first are those of this number.
FirstNumberIs(text, number) ==
  \E i \in DOMAIN text : \E j \in i..Len(text) :
    /\ \A d \in i..j : text[d] \in Digits
    /\ \A d \in 1..(i - 1) : text[d] \notin Digits
    /\ j = Len(text) \/ text[j + 1] \notin Digits
    /\ Number(SubSeq(text, i, j)) = number

\* A file with that text, and nothing before it that cannot be read.
IsInArchive(archive, text, format) ==
  /\ format \in archive.formats
  /\ \E n \in DOMAIN archive.entries :
       /\ ~archive.entries[n].dir /\ archive.entries[n].text = text
       /\ \A m \in 1..n : archive.entries[m].dir \/ archive.entries[m].readable

\* The lines of a text end with a line feed, or where the text does.
LineEnds(text) == {p \in DOMAIN text : text[p] = LF \/ p = Len(text)}
LineCount(text) == Cardinality(LineEnds(text))
Terminated(text) == text = <<>> \/ text[Len(text)] = LF

\* What the check of a plan asks for does hold.  Of three things it says what the
\* code does: carriage returns within a line, delimiters of no or of several
\* characters, and the count of lines of a text whose last line has no line feed.
Right(c, r) ==
  LET got == Got(c, r)
      source == Source(c, r)
      Given(name) == ValueParam(c, name, r)
      Finds(content, want) == FindsText(content, Given("query"), want)
  IN /\ Reads(c, r)
     /\ CASE c.predicate = "line_count_matches" /\ Terminated(source.text) ->
               FirstNumberIs(got.text, LineCount(source.text))
          [] c.predicate = "text_filter_matches" /\ Clean(source.text) ->
               RightFilter(got.text, source.text, Given("pattern"))
          [] /\ c.predicate = "delimited_column_matches"
             /\ Clean(source.text) /\ Len(Given("delimiter")) = 1 ->
               RightColumn(got.text, source.text, Given("delimiter"), Given("column"))
          [] c.predicate = "json_query_matches" -> Finds(source, Trim(got.text))
          [] c.predicate = "json_field_equals" -> Finds(got, Trim(Given("value")))
          [] c.predicate = "json_field_matches_source" -> Finds(got, Property(c, r))
          [] c.predicate = "archive_contains_input" ->
               IsInArchive(got, source.text, StringParam(c, "format")[1])
          [] OTHER -> Holds(c, r)

\* A plan passes exactly if each of its checks is right, with one piece of
\* evidence each, in order, and it fails at a check that is not right unless it
\* was canceled: carriage returns, rows without the column, blank lines at the
\* end, headers, nested values, unreadable archive entries change nothing
\* (checkTextFilterMatches, checkDelimitedColumnMatches, walkJSON and the rest).
\* It leaves out what Right does; for the last line of a source, see CountsLines.
VerdictExact ==
  /\ pc = "passed" => /\ \A n \in DOMAIN checks : Right(checks[n], request)
                      /\ [n \in DOMAIN evidence |-> evidence[n][1]] = [n \in DOMAIN checks |-> n]
  /\ pc = "failed" /\ ~canceled => ~Right(checks[at], request)

\* "the checker extracts the first integer from subject text and compares it with
\* the number of lines in source" (proposal/evidence/rules.go:128): a passed plan
\* found the number of lines, the last of them too.  The code counts line feeds
\* (predicate_text.go:164), so that MCChecksLines finds this violated.
CountsLines ==
  pc = "passed" =>
    \A n \in DOMAIN checks :
      checks[n].predicate = "line_count_matches" =>
        FirstNumberIs(Got(checks[n], request).text, LineCount(Source(checks[n], request).text))

\* A check that asks nothing of an empty output.
AsksNothing(c, r) ==
  LET source == Source(c, r).text
      lines == RefLines(source)
      Given(name) == ValueParam(c, name, r)
      OneCharacter == Clean(source) /\ Len(Given("delimiter")) = 1
  IN CASE c.predicate = "equals" -> c.params.value = <<>>
       [] c.predicate \in {"not_equals", "exists"} -> TRUE
       [] c.predicate = "format" -> StringParam(c, "format")[1] = "text"
       [] c.predicate = "contains" -> StringParam(c, "value") = <<>>
       [] c.predicate = "regex" -> <<StringParam(c, "pattern"), <<>>>> \in Matching
       [] c.predicate = "text_transform_matches" -> source = <<>>
       [] c.predicate = "bytes_equal_transform" ->
            \/ source = <<>>
            \/ \E blank \in DOMAIN Encoded :
                 Trim(blank) = <<>> /\ Encoded[blank] = Unwrapped(source)
       [] c.predicate = "text_filter_matches" ->
            \A n \in DOMAIN lines : lines[n] # <<>> => ~Occurs(Given("pattern"), lines[n])
       [] c.predicate = "delimited_column_matches" ->
            OneCharacter =>
              \A n \in WantedRows(lines, Given("delimiter"), Given("column")) :
                CellAt(lines[n], Given("delimiter"),
                       WantedColumn(lines, Given("delimiter"), Given("column"))) = <<>>
       [] c.predicate = "json_query_matches" ->
            FindsText(Source(c, r), Given("query"), <<>>)
       [] OTHER -> FALSE

\* A plan that passes although the program printed nothing, or left an empty
\* file, passes by a check that asks nothing of it: no count, digest, member,
\* document or field is ever found in nothing (firstInt, subjectText,
\* checkContainsAny, checkJSONEquivalent).
SilenceExplained ==
  pc = "passed" =>
    \A n \in DOMAIN checks :
      Got(checks[n], request).text = <<>> => AsksNothing(checks[n], request)
=============================================================================
