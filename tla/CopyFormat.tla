----------------------------- MODULE CopyFormat -----------------------------
(***************************************************************************)
(* COPY's text format: how bulk.rs writes the cells of a row, and how the  *)
(* Postgres server reads them back.  A text is a sequence of characters.   *)
(***************************************************************************)
EXTENDS Naturals, Sequences, SequencesExt

\* A datum is NULL, a scalar with its text, an array of such, or an array of
\* several dimensions, which no decoder makes and only its literal is told of.
Null == [kind |-> "null", text |-> <<>>, items |-> <<>>]
Scalar(text) == [kind |-> "scalar", text |-> text, items |-> <<>>]
ArrayOf(items) == [kind |-> "array", text |-> <<>>, items |-> items]
Matrix(literal) == [kind |-> "matrix", text |-> literal, items |-> <<>>]

NullWord == <<"N", "U", "L", "L">>

Each(Op(_), s) == [i \in DOMAIN s |-> Op(s[i])]

-----------------------------------------------------------------------------
(* The writer.                                                             *)

\* Mutant: carriage returns go as they are.
EscapedButCr(c) ==
    CASE c = "\\" -> <<"\\", "\\">>
      [] c = "\t" -> <<"\\", "t">>
      [] c = "\n" -> <<"\\", "n">>
      [] OTHER -> <<c>>

Escaped(c) ==
    CASE c = "\\" -> <<"\\", "\\">>
      [] c = "\t" -> <<"\\", "t">>
      [] c = "\n" -> <<"\\", "n">>
      [] c = "\r" -> <<"\\", "r">>
      [] OTHER -> <<c>>

escape_copy_text(s) == FlattenSeq(Each(Escaped, s))

\* An element's own quotes and backslashes, before the escaping of COPY.
ArrayElemEscaped(c) == IF c \in {"\"", "\\"} THEN <<"\\", c>> ELSE <<c>>

\* Mutant: only what looks as if it needed quotes is quoted.
QuoteSome(item) ==
    IF item.kind = "null" THEN NullWord
    ELSE IF "," \in ToSet(item.text)
         THEN <<"\"">> \o FlattenSeq(Each(ArrayElemEscaped, item.text)) \o <<"\"">>
         ELSE item.text

\* Every element but NULL is quoted.
ArrayElem(item) ==
    IF item.kind = "null" THEN NullWord
    ELSE <<"\"">> \o FlattenSeq(Each(ArrayElemEscaped, item.text)) \o <<"\"">>

write_array_literal(items) ==
    <<"{">> \o FlattenSeq([i \in DOMAIN items |->
                  (IF i > 1 THEN <<",">> ELSE <<>>) \o ArrayElem(items[i])]) \o <<"}">>

\* One cell.  The text of a value that is neither text, JSON, bytes nor an
\* array has nothing to escape.
write_copy_value(value) ==
    CASE value.variant = "Null" -> <<"\\", "N">>
      [] value.variant \in {"Text", "Json"} -> escape_copy_text(value.datum.text)
      [] value.variant = "Binary" -> <<"\\", "\\", "x">> \o value.datum.text
      [] value.variant = "Array" -> escape_copy_text(write_array_literal(value.datum.items))
      [] OTHER -> value.datum.text

-----------------------------------------------------------------------------
(* The server.                                                             *)

\* A backslash and this character stand for another one; \N marks a NULL.
Unescaped(c) ==
    CASE c = "t" -> "\t" [] c = "n" -> "\n" [] c = "r" -> "\r"
      [] c = "N" -> "\\N" [] OTHER -> c

Field(raw) ==
    IF raw = <<"\\N">> THEN Null
    ELSE Scalar([i \in DOMAIN raw |-> IF raw[i] = "\\N" THEN "N" ELSE raw[i]])

\* The lines of the data, each a sequence of fields.  A carriage return that is
\* not escaped ends the copy with an error.
Lines(data) ==
    LET Step(acc, c) ==
            CASE acc.escape -> [acc EXCEPT !.escape = FALSE, !.raw = Append(@, Unescaped(c))]
              [] ~acc.escape /\ c = "\\" -> [acc EXCEPT !.escape = TRUE]
              [] ~acc.escape /\ c = "\t" ->
                    [acc EXCEPT !.fields = Append(@, Field(acc.raw)), !.raw = <<>>]
              [] ~acc.escape /\ c = "\n" ->
                    [acc EXCEPT !.lines = Append(@, Append(acc.fields, Field(acc.raw))),
                                !.fields = <<>>, !.raw = <<>>]
              [] ~acc.escape /\ c = "\r" -> [acc EXCEPT !.broken = TRUE]
              [] OTHER -> [acc EXCEPT !.raw = Append(@, c)]
        start == [lines |-> <<>>, fields |-> <<>>, raw |-> <<>>,
                  escape |-> FALSE, broken |-> FALSE]
        end == FoldLeft(Step, start, data)
    IN  IF end.broken THEN <<>> ELSE end.lines

\* The elements of an array literal; an unquoted NULL is one.
Elements(text) ==
    LET Item(acc) == IF ~acc.quoted /\ acc.raw = NullWord THEN Null ELSE Scalar(acc.raw)
        Step(acc, c) ==
            CASE acc.escape -> [acc EXCEPT !.escape = FALSE, !.raw = Append(@, c)]
              [] ~acc.escape /\ c = "\\" -> [acc EXCEPT !.escape = TRUE]
              [] ~acc.escape /\ c = "\"" -> [acc EXCEPT !.inside = ~@, !.quoted = TRUE]
              [] ~acc.escape /\ c = "," /\ ~acc.inside ->
                    [acc EXCEPT !.items = Append(@, Item(acc)), !.raw = <<>>, !.quoted = FALSE]
              [] OTHER -> [acc EXCEPT !.raw = Append(@, c)]
        start == [items |-> <<>>, raw |-> <<>>, inside |-> FALSE,
                  quoted |-> FALSE, escape |-> FALSE]
        end == FoldLeft(Step, start, SubSeq(text, 2, Len(text) - 1))
    IN  IF Len(text) = 2 THEN <<>> ELSE Append(end.items, Item(end))

IsArrayLiteral(text) ==
    Len(text) >= 2 /\ text[1] = "{" /\ Last(text) = "}"

IsMatrixLiteral(text) == IsArrayLiteral(text) /\ Len(text) >= 4 /\ text[2] = "{"
=============================================================================
