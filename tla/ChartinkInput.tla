--------------------------- MODULE ChartinkInput ---------------------------
(* What the user pastes for Chartink, the request it becomes, and the rows  *)
(* that the answer becomes (domain/chartink.py, adapters/chartink/          *)
(* parsers.py).  A text is its form, a link it may begin with, and the      *)
(* fields in it; a value is the little that the code asks of it.  An answer *)
(* names the bars that its values are of, so that rows can be told right.   *)
EXTENDS Integers, Sequences, SequencesExt

CONSTANTS
    MaxBars     \* bound: bars of history that Chartink answers with

InputAssumption == MaxBars \in Nat

\* Of _KNOWN_FIELDS those that differ in how they are treated; `junk' is none.
Known == {"scan_clause", "column_clause", "query", "limit", "size"}
Absent == "absent"
NoFields == [f \in Known |-> Absent]
Values(f) ==
    CASE f = "query" -> {Absent, " ", "grouped", "series"}
      [] f = "scan_clause" -> {Absent, " ", "clause"}
      [] f = "size" -> {Absent, " ", "0", "1", "100", "375"}
      [] OTHER -> {Absent, "own"}
Payloads == {[f \in Known |-> IF f = "query" THEN q ELSE IF f = "scan_clause" THEN s
                              ELSE IF f = "size" THEN z ELSE IF f = "limit" THEN l ELSE c] :
                q \in Values("query"), s \in Values("scan_clause"), z \in Values("size"),
                l \in Values("limit"), c \in Values("column_clause")}

Refused == [kind |-> "refused"]
Target(link) == [kind |-> link, payload |-> Refused]

VARIABLES
    pasted,     \* the text, as [link, form, fields]; after a link, what follows it
    read,       \* what parse_user_input made of it
    sent,       \* the request that was sent
    answer,     \* Chartink's answer to it
    rows        \* the rows that it became, the first one on top

vars == <<pasted, read, sent, answer, rows>>

Nothing == [link |-> "none", form |-> "none", fields |-> NoFields]
NoAnswer == [bars |-> <<>>, series |-> [alias \in {} |-> <<>>]]

Init ==
    /\ pasted = Nothing /\ read = Refused /\ sent = Refused
    /\ answer = NoAnswer /\ rows = <<>>

-----------------------------------------------------------------------------
(* domain/chartink.py.                                                      *)

Blank(value) == value \in {Absent, " "}
Defaults == [NoFields EXCEPT !["limit"] = "1000", !["size"] = "1"]
WithDefaults(fields) == [f \in Known |-> IF fields[f] = Absent THEN Defaults[f] ELSE fields[f]]

\* Mutants: the size that was pasted is kept; a history of its own is not.
SizeAsPasted(fields) == fields["size"]
SizeOfTrend(fields) == IF fields["query"] = "grouped" THEN "1" ELSE "375"
Size(fields) ==
    CASE fields["query"] = "grouped" -> "1"
      [] fields["query"] # "grouped" /\ fields["size"] \in {Absent, " ", "0", "1"} -> "375"
      [] OTHER -> fields["size"]

Runnable(request) ==
    IF request.kind # "widget" THEN request
    ELSE LET fields == WithDefaults(request.fields) IN
         [request EXCEPT !.fields = [fields EXCEPT !["size"] = Size(fields)]]

ToRequest(fields) ==
    CASE ~Blank(fields["query"]) -> Runnable([kind |-> "widget", fields |-> WithDefaults(fields)])
      [] Blank(fields["query"]) /\ ~Blank(fields["scan_clause"]) ->
             [kind |-> "screener", fields |-> fields]
      [] OTHER -> Refused

\* parse_qsl, when it drops what is blank (mutant).
FormDropped(fields) == [f \in Known |-> IF Blank(fields[f]) THEN Absent ELSE fields[f]]

\* What each of the forms is read as; a value of null is no value, a blank is one.
FromForm(fields) == fields
FieldsOf(text) ==
    CASE text.form \in {"literal", "lines"} -> text.fields
      [] text.form = "form" -> FromForm(text.fields)
      [] text.form = "clause" -> [NoFields EXCEPT !["scan_clause"] = "clause"]
      [] text.form = "select" -> [NoFields EXCEPT !["query"] = text.fields["query"]]
      [] OTHER -> NoFields

\* A link comes first; what follows it is read as a text of its own, in which
\* another link is a refusal either way.
Parse(text) ==
    LET request == IF text.form = "link" THEN Refused ELSE ToRequest(FieldsOf(text)) IN
    CASE text.link = "none" -> request
      [] text.link = "elsewhere" -> Refused
      [] text.link \in {"screener", "dashboard"} /\ text.form = "none" -> Target(text.link)
      [] text.link = "screener" /\ request.kind = "screener" ->
             [kind |-> "screener link", payload |-> request]
      [] OTHER -> Refused

\* WidgetDef.request(): the size that the page gives, when it is one.
WidgetRequest(query, size) ==
    Runnable([kind |-> "widget",
              fields |-> [Defaults EXCEPT !["query"] = query,
                                          !["size"] = IF size \in {Absent, "0"} THEN @ ELSE size]])

-----------------------------------------------------------------------------
(* adapters/chartink/parsers.py.  Value b of a series is that of bar b.     *)

\* Mutant: the series is read from its front.
PositionFromFront(points, bars, index) == index
\* "Series and times line up from the latest bar backwards."
Position(points, bars, index) == Len(points) - Len(bars) + index

Point(points, position) == IF position \in 1 .. Len(points) THEN points[position] ELSE 0

\* _trend_rows: one row per bar, newest first.
TrendRows(a) ==
    Reverse([i \in 1 .. Len(a.bars) |->
       [of |-> a.bars[i],
        values |-> [s \in DOMAIN a.series |->
                       Point(a.series[s], Position(a.series[s], a.bars, i))]]])

\* A group's row holds the latest of each of its series.
GroupRow(a) ==
    <<[of |-> 0, values |-> [s \in DOMAIN a.series |->
                                IF a.series[s] = <<>> THEN 0 ELSE Last(a.series[s])]]>>

Rows(a) == IF sent.fields["query"] = "grouped" \/ a.bars = <<>> THEN GroupRow(a) ELSE TrendRows(a)

-----------------------------------------------------------------------------
Links == {"none", "screener", "dashboard", "elsewhere"}
Paste(link, form, fields) ==
    /\ form = "none" => link # "none"
    /\ form \in {"none", "link", "words", "clause"} => fields = NoFields
    /\ form = "select" => ~Blank(fields["query"])
    /\ pasted' = [link |-> link, form |-> form, fields |-> fields]
    /\ read' = Parse(pasted')
    /\ sent' = Refused /\ answer' = NoAnswer /\ rows' = <<>>

PastePayload ==
    /\ pasted = Nothing
    /\ \E link \in Links, form \in {"none", "literal", "form", "lines"}, fields \in Payloads :
          Paste(link, form, fields)

PasteText ==
    /\ pasted = Nothing
    /\ \E link \in Links, form \in {"clause", "select", "words", "link"}, q \in Values("query") :
          Paste(link, form, [NoFields EXCEPT !["query"] = q])

\* A widget of a dashboard that was imported.
Import(query, size) ==
    /\ read.kind = "dashboard"
    /\ read' = WidgetRequest(query, size)
    /\ UNCHANGED <<pasted, sent, answer, rows>>

\* "Items saved before this rule get it too": a widget as it once was saved.
SavedBefore(query, size) ==
    /\ read.kind = "dashboard"
    /\ read' = [kind |-> "widget",
                fields |-> [Defaults EXCEPT !["query"] = query, !["size"] = size]]
    /\ UNCHANGED <<pasted, sent, answer, rows>>

Run ==
    /\ read.kind \in {"widget", "screener"} /\ sent = Refused
    /\ sent' = Runnable(read)
    /\ UNCHANGED <<pasted, read, answer, rows>>

\* The series may be shorter or longer than the bars that are named; all of them
\* end with the latest bar.  A group comes with that one alone.
Answer(n, short, long) ==
    /\ sent.kind = "widget" /\ answer = NoAnswer
    /\ LET latest(k) == [i \in 1 .. k |-> MaxBars - k + i] IN
       answer' = [bars |-> latest(n),
                  series |-> [close |-> latest(long), breadth |-> latest(short)]]
    /\ rows' = Rows(answer')
    /\ UNCHANGED <<pasted, read, sent>>

Bars == 0 .. MaxBars
Next ==
    \/ PastePayload
    \/ PasteText
    \/ \E q \in {"grouped", "series"}, z \in Values("size") : Import(q, z) \/ SavedBefore(q, z)
    \/ Run
    \/ \E n, short, long \in Bars : Answer(n, short, long)

Spec == Init /\ [][Next]_vars

-----------------------------------------------------------------------------
TypeOK ==
    /\ {read.kind, sent.kind} \subseteq
          {"refused", "screener", "dashboard", "screener link", "widget"}
    /\ \A i \in DOMAIN rows : rows[i].of \in Bars

\* A payload is the same request in whichever form the browser shows it.
FormsAgree ==
    pasted.form \in {"literal", "form", "lines"} =>
       \A form \in {"literal", "form", "lines"} :
          Parse([pasted EXCEPT !.form = form]) = Parse(pasted)

\* "a grouped one asks for just the latest bar; an ungrouped one for its history
\* unless it names its own": pasted, imported, or saved before there was the rule,
\* and nothing else of it is changed by sending it again.
SentRight ==
    sent.kind = "widget" =>
       LET own == IF read.fields["size"] \in {Absent, " ", "0", "1"} THEN "375"
                  ELSE read.fields["size"]
       IN /\ sent.fields["size"] = IF sent.fields["query"] = "grouped" THEN "1" ELSE own
          /\ Runnable(sent) = sent
          /\ \A f \in Known \ {"size"} : Blank(read.fields[f]) \/ sent.fields[f] = read.fields[f]

\* A value stands in the row of its bar, of whatever length the series are; none
\* that Chartink sent for a bar is left out, and the top row is the latest one.
RowsOfTheirBars ==
    \A i \in DOMAIN rows : \A s \in DOMAIN rows[i].values :
       LET bar == IF rows[i].of = 0 THEN MaxBars ELSE rows[i].of IN
       /\ rows[i].values[s] \in {0, bar}
       /\ ToSet(answer.series[s]) \cap {bar} # {} => rows[i].values[s] = bar
       /\ i = 1 => bar = MaxBars
=============================================================================
