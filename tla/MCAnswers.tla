------------------------------- MODULE MCAnswers -------------------------------
(* Inputs for Answers: logs of up to three segments, numbers around the      *)
(* lengths of card numbers, and structs of up to three fields.               *)
EXTENDS Answers

\* 4111 1111 1111 1111, and the same with another check digit.
Group(d) == <<d, 1, 1, 1>>
Card(last) == Group(4) \o Group(1) \o Group(1) \o <<1, 1, 1, last>>
SpacedCard == <<Digits(Group(4)), Digits(Group(1)), Digits(Group(1)), Digits(Group(1))>>

K(name, form) == <<Key(name, form)>>
InQuotes(q, ts) == <<Quote(q)>> \o ts \o <<Quote(q)>>
Words == <<Word("a"), Word("b")>>

Segments ==
  { <<Word("a")>>, SpacedCard, <<Digits(Card(1))>>, <<Digits(Card(2))>>,
    <<Digits(<<4, 1>>)>>, <<Value("email")>>, <<Value("jwt")>>,
    <<Link("credentials")>>, <<Link("none")>>, <<NewLine>>, <<Begin>>, <<End>>,
    K("exact", "logfmt") \o <<Word("a")>>, K("exact", "logfmt") \o SpacedCard,
    K("exact", "logfmt") \o <<Link("credentials")>>,
    K("exact", "logfmt") \o <<Begin, NewLine, Word("a"), End>>,
    K("variant", "logfmt") \o InQuotes("double", Words),
    K("variant", "logfmt") \o InQuotes("single", SpacedCard),
    K("exact", "json") \o InQuotes("double", <<Echo>>),
    K("exact", "logfmt") \o <<Echo>>,
    K("variant", "json") \o InQuotes("double", Words),
    K("plain", "logfmt") \o <<Value("email")>>,
    K("longVariant", "logfmt") \o <<Word("a")>>,
    K("longPlain", "json") \o <<Value("jwt")>> }

\* Every beginning of three segments is a log of its own.
MCLogs ==
  {log \in {FlattenSeq(<<a, b, c>>) :
              a \in Segments \cup {<<>>}, b \in Segments \cup {<<>>}, c \in Segments} :
     WellFormed(log)}

\* Two digits vary anywhere in a number of equal ones.
MCNumbers ==
  UNION {{[i \in 1..n |-> IF i = p THEN d ELSE IF i = n THEN e ELSE 7] :
            p \in {1, 2, n \div 2, n - 1}, d \in 0..9, e \in 0..9} :
         n \in {12, 13, 16, 18, 19, 20}}

-----------------------------------------------------------------------------

S(t) == Scalar(t)
Entry(rank, key, value) == [rank |-> rank, key |-> key, value |-> value]

Info(detail) == Struct(<<Field("Detail", "detail", S(detail)),
                         Field("", "hidden", S("x"))>>)
\* A table row: an embedded struct before a labelled field.
RowOf(info, name) == Struct(<<Embedded("", "", info), Field("Name", "name", name)>>)
Row(info, name) == RowOf(info, S(name))
\* A row without labels, such as an owner reference.
Owner(name) == Struct(<<Field("", "kind", S("k")), Field("", "name", S(name))>>)
\* A row with everything a cell can show.
Rich == Struct(<<Field("Names", "names", List(S(""), <<S("a"), S("b")>>)),
                 Field("Limits", "limits", Map({Entry(2, "mem", S("1")), Entry(1, "cpu", S("2"))})),
                 Field("Last", "last", Nil),
                 Field("State", "state", Info("d"))>>)
Bare == Struct(<<>>)

Rows(label, type, items) == Field(label, "rows", List(type, items))

FieldPool ==
  { Field("Name", "name", S("n")),
    Field("", "age", S("1d")),
    Optional("Node", "node", Zero),
    Field("Node", "node", Zero),
    Optional("Size", "size", S("3")),
    Field("Last", "last", Nil),
    Field("Roles", "roles", List(S(""), <<>>)),
    Field("Roles", "roles", List(S(""), <<S("a"), Nil, S("b")>>)),
    Field("Labels", "labels", Map({Entry(1, "k", S("v")), Entry(2, "l", Nil)})),
    Embedded("", "", Info("d")),
    Embedded("Info", "", Info("d")),
    Embedded("", "", NilOf(Info(""))),
    Embedded("", "", Struct(<<Field("Spec", "spec", Info("s")), Field("Kind", "kind", S("k"))>>)),
    Field("Spec", "spec", Info("s")),
    Field("Deep", "deep", Struct(<<Field("Spec", "spec", Info("s")),
                                   Rows("Rows", Row(Info(""), ""), <<Row(Info("d"), "n")>>),
                                   Field("Tail", "tail", S("t"))>>)),
    Optional("Spec", "spec", Info("")),
    Rows("Rows", Row(Info(""), ""), <<Row(Info("d"), "n"), Nil, Row(NilOf(Info("")), "m")>>),
    Rows("Owners", Owner(""), <<Owner("a"), Owner("b")>>),
    Rows("Rich", Rich, <<Rich>>),
    Rows("Bare", Bare, <<Bare>>) }

MCStructs ==
  {Struct(fields) : fields \in UNION {[1..n -> FieldPool] : n \in 0..3}}

=============================================================================
