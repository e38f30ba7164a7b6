------------------------------ MODULE Formatter -------------------------------
(***************************************************************************)
(* pkg/formatter: the text that goes with every structured answer, for     *)
(* clients that cannot read the structure.  A Go value is a tree; the text *)
(* is a sequence of lines: fields, headings, and the header and rows of    *)
(* tables (without their separator line, and without blank lines).         *)
(*                                                                         *)
(* Scalars are abstract texts of one line without bars, since the code     *)
(* escapes neither.  A list knows the type of its elements: a value of     *)
(* that type whose contents do not matter (reflect.Type).                  *)
(***************************************************************************)
EXTENDS Integers, FiniteSets, Sequences, SequencesExt

-----------------------------------------------------------------------------
(* Values.                                                                 *)

Nil          == [kind |-> "nil"]     \* a nil pointer or interface
Scalar(text) == [kind |-> "scalar", text |-> text]
Zero         == [kind |-> "scalar", text |-> ""]
Struct(fields)     == [kind |-> "struct", fields |-> fields]
List(type, items)  == [kind |-> "list", type |-> type, items |-> items]
Map(entries)       == [kind |-> "map", entries |-> entries]

\* A field: its jsonschema label ("" for none), its JSON name, whether the
\* tag says omitempty, whether it is an embedded field.
Field(label, name, value) ==
  [label |-> label, name |-> name, value |-> value,
   omitempty |-> FALSE, embedded |-> FALSE]
Embedded(label, name, value) ==
  [Field(label, name, value) EXCEPT !.embedded = TRUE]
Optional(label, name, value) ==
  [Field(label, name, value) EXCEPT !.omitempty = TRUE]

\* The value of an embedded field is a struct type even when it is nil.
NilOf(struct) == [kind |-> "nil", type |-> struct]

Invalid(v) == v.kind = "nil"
TypeOf(v) == IF v.kind = "nil" THEN v.type ELSE v

\* reflect.Value.IsZero; lists and maps without elements are nil here.
RECURSIVE IsZero(_)
IsZero(v) ==
  CASE v.kind = "nil"    -> TRUE
    [] v.kind = "scalar" -> v.text = ""
    [] v.kind = "list"   -> v.items = <<>>
    [] v.kind = "map"    -> v.entries = {}
    [] v.kind = "struct" -> \A i \in DOMAIN v.fields : IsZero(v.fields[i].value)

omitted(f) ==
  \/ f.value.kind = "list" /\ f.value.items = <<>>
  \/ f.value.kind = "map" /\ f.value.entries = {}
  \/ f.omitempty /\ IsZero(f.value)

isBlock(v) ==
  \/ v.kind = "struct"
  \/ v.kind = "list" /\ v.type.kind = "struct"

-----------------------------------------------------------------------------
(* Values on one line.                                                     *)

\* formatInline: the pieces of the text in their order, separators left out;
\* formatMap sorts by key, and the rank of an entry is that of its key.
RECURSIVE formatInline(_)
formatInline(v) ==
  CASE v.kind = "scalar" -> <<v.text>>
    [] v.kind = "list" ->
         LET valid == SelectSeq(v.items, LAMBDA e : ~Invalid(e))
         IN  FlattenSeq([i \in DOMAIN valid |-> formatInline(valid[i])])
    [] v.kind = "map" ->
         LET sorted == SetToSortSeq(v.entries, LAMBDA e, f : e.rank < f.rank)
         IN  FlattenSeq([i \in DOMAIN sorted |->
               <<sorted[i].key>> \o (IF Invalid(sorted[i].value) THEN <<"">>
                                     ELSE formatInline(sorted[i].value))])
    [] v.kind = "struct" ->
         LET shown == SelectSeq(v.fields, LAMBDA f :
                        f.label # "" /\ ~Invalid(f.value) /\ ~omitted(f))
         IN  FlattenSeq([i \in DOMAIN shown |->
               <<shown[i].label>> \o formatInline(shown[i].value)])

\* formatCell of a nil value, or of one behind a nil embedded pointer.
Empty == <<>>
formatCell(v) == IF Invalid(v) THEN Empty ELSE formatInline(v)

-----------------------------------------------------------------------------
(* Fields, flat ones and blocks.                                           *)

\* collectItems, before it is split: printable fields in the order of their
\* declaration, those of an embedded struct without a label in its place.
RECURSIVE Items(_)
Items(fields) ==
  IF fields = <<>> THEN <<>>
  ELSE LET f == Head(fields)
           own == IF f.embedded /\ f.label = "" /\ f.value.kind = "struct"
                    THEN Items(f.value.fields)
                  ELSE IF f.label = "" \/ Invalid(f.value) \/ omitted(f)
                    THEN <<>> ELSE <<f>>
       IN  own \o Items(Tail(fields))

\* Mutant of collectItems: the fields in the order of their declaration.
collectInOrder(v) ==
  [flat |-> <<>>, blocks |-> Items(v.fields)]

collectItems(v) ==
  [flat   |-> SelectSeq(Items(v.fields), LAMBDA f : ~isBlock(f.value)),
   blocks |-> SelectSeq(Items(v.fields), LAMBDA f : isBlock(f.value))]

-----------------------------------------------------------------------------
(* Tables.                                                                 *)

\* collectColumns: a column is a label and the path of indices to its field.
\* Embedded structs are followed by their type, labelled or not.
RECURSIVE collectColumns(_, _)
collectColumns(struct, strict) ==
  FlattenSeq([i \in DOMAIN struct.fields |->
    LET f == struct.fields[i]
        inner == collectColumns(TypeOf(f.value), strict)
    IN  IF f.embedded
          THEN [n \in DOMAIN inner |->
                  [label |-> inner[n].label, path |-> <<i>> \o inner[n].path]]
        ELSE IF f.label # "" THEN <<[label |-> f.label, path |-> <<i>>]>>
        ELSE IF strict THEN <<>>
        ELSE <<[label |-> f.name, path |-> <<i>>]>>])

\* JSON names stand in where no field of the type has a label.
tableColumns(struct) ==
  IF collectColumns(struct, TRUE) # <<>> THEN collectColumns(struct, TRUE)
                                         ELSE collectColumns(struct, FALSE)

RECURSIVE fieldByIndexPath(_, _)
fieldByIndexPath(v, path) ==
  IF path = <<>> THEN v
  ELSE IF Invalid(v) THEN Nil
  ELSE fieldByIndexPath(v.fields[Head(path)].value, Tail(path))

Cells(element, columns) ==
  [j \in DOMAIN columns |-> formatCell(fieldByIndexPath(element, columns[j].path))]

HeadingLine(depth, label) == [is |-> "heading", depth |-> depth, label |-> label]
FieldLine(label, text) == [is |-> "field", label |-> label, text |-> text]
HeaderLine(labels) == [is |-> "header", cells |-> labels]
RowLine(cells) == [is |-> "row", cells |-> cells]

\* A table whose element type has no columns is left out with its heading.
renderTable(label, list, depth) ==
  LET columns == tableColumns(list.type)
      elements == SelectSeq(list.items, LAMBDA e : ~Invalid(e))
  IN  IF columns = <<>> THEN <<>>
      ELSE <<HeadingLine(depth, label),
             HeaderLine([j \in DOMAIN columns |-> columns[j].label])>>
           \o [i \in DOMAIN elements |-> RowLine(Cells(elements[i], columns))]

-----------------------------------------------------------------------------
(* The text of a struct.                                                   *)

RECURSIVE renderStruct(_, _)
renderStruct(v, depth) ==
  LET items == collectItems(v)
      line(f) == IF isBlock(f.value) THEN <<>>
                 ELSE <<FieldLine(f.label, formatInline(f.value))>>
      block(f) ==
        IF f.value.kind = "struct"
          THEN <<HeadingLine(depth, f.label)>> \o renderStruct(f.value, depth + 1)
        ELSE IF f.value.kind = "list" /\ isBlock(f.value)
          THEN renderTable(f.label, f.value, depth)
        ELSE line(f)
  IN  FlattenSeq([i \in DOMAIN items.flat |-> line(items.flat[i])])
        \o FlattenSeq([i \in DOMAIN items.blocks |-> block(items.blocks[i])])

ToText(v) == IF v.kind = "struct" THEN renderStruct(v, 0) ELSE <<>>

-----------------------------------------------------------------------------
(* Reference: what a value says, and what its text says to a reader.       *)

\* A fact: the labels on the way to a struct, a label in it, and the text;
\* in a table the number of the row as well (0 elsewhere).
Fact(path, row, label, text) ==
  [path |-> path, row |-> row, label |-> label, text |-> text]

\* The fields of a table element, by label or, if it has none, by name: what
\* encoding/json would show of it, with empty text where there is nothing.
RECURSIVE Shown(_)
Shown(struct) ==
  UNION {LET f == struct.fields[i] IN
           IF f.embedded
             THEN {[s EXCEPT !.text = IF Invalid(f.value) THEN Empty ELSE @] :
                     s \in Shown(TypeOf(f.value))}
             ELSE {[label |-> f.label, name |-> f.name, text |-> formatCell(f.value)]} :
         i \in DOMAIN struct.fields}

RowFacts(path, row, element) ==
  LET labelled == {s \in Shown(element) : s.label # ""}
  IN  IF labelled # {}
        THEN {Fact(path, row, s.label, s.text) : s \in labelled}
        ELSE {Fact(path, row, s.name, s.text) : s \in Shown(element)}

\* Everything a struct says at a place in the answer.
RECURSIVE Facts(_, _)
Facts(v, path) ==
  UNION {LET f == v.fields[i]
             here == Append(path, f.label)
         IN  IF f.embedded /\ f.label = "" /\ ~Invalid(f.value)
               THEN Facts(f.value, path)
             ELSE IF f.label = "" \/ Invalid(f.value) \/ omitted(f) THEN {}
             ELSE IF f.value.kind = "struct" THEN Facts(f.value, here)
             ELSE IF isBlock(f.value)
               THEN LET there == SelectSeq(f.value.items, LAMBDA e : ~Invalid(e))
                    IN  UNION {RowFacts(here, n, there[n]) : n \in DOMAIN there}
             ELSE {Fact(path, 0, f.label, formatInline(f.value))} :
         i \in DOMAIN v.fields}

\* A reader goes down the lines: a heading of depth d closes the sections of
\* that depth and below and opens its own; a cell belongs to its column.
\* Cells without a column, and columns without a cell, are facts of their own.
RECURSIVE Read(_, _, _, _)
Read(lines, path, header, row) ==
  IF lines = <<>> THEN {}
  ELSE LET line == Head(lines)
           next(p, h, r) == Read(Tail(lines), p, h, r)
       IN  CASE line.is = "heading" ->
                  next(Append(SubSeq(path, 1, line.depth), line.label), <<>>, 0)
             [] line.is = "field" ->
                  {Fact(path, 0, line.label, line.text)} \cup next(path, header, row)
             [] line.is = "header" -> next(path, line.cells, 0)
             [] line.is = "row" ->
                  {Fact(path, row + 1,
                        IF j \in DOMAIN header THEN header[j] ELSE "no column",
                        IF j \in DOMAIN line.cells THEN line.cells[j]
                                                   ELSE <<"no cell">>) :
                     j \in DOMAIN header \cup DOMAIN line.cells}
                  \cup next(path, header, row + 1)

ReadBack(lines) == Read(lines, <<>>, <<>>, 0)

=============================================================================
