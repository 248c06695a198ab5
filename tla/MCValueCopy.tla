---------------------------- MODULE MCValueCopy ----------------------------
(* Values for the model checking of ValueCopy. *)
EXTENDS ValueCopy

Type(name, arg) == [name |-> name, arg |-> arg, array |-> FALSE]
ArrayType(name, arg) == [name |-> name, arg |-> arg, array |-> TRUE]
Cell(t, d) == [type |-> t, datum |-> d]

\* Texts that could be taken for something else on their way.
Texts == {<<>>, <<"\\", "N">>, <<"\t", "\\">>, <<"\n">>, <<"\r">>,
          <<"\"", ",">>, <<"{", "}">>, NullWord}

MCDocuments == {<<"{", " ", "}">>, <<"{", "}">>, <<"\"", "\\", "n", "\"">>,
                <<"1e400">>, <<"[", " ", "20 digits", "]">>, <<"[", "20 digits", "]">>,
                <<"[", "17 digits", "]">>}
MCWide == {"3000000000", "18446744073709551615"}

MCLarge == {"65 KB"}

\* What the Rust types do with values at or beyond their ends.
MCReadAs ==
    (<<"Decimal", "NaN">> :> Refused) @@ (<<"Decimal", "10^30">> :> Refused)
    @@ (<<"Decimal", "29 digits">> :> "28 digits") @@ (<<"Date", "infinity">> :> Refused)
    @@ (<<"Timestamp", "infinity">> :> Refused) @@ (<<"TimestampNaive", "infinity">> :> Refused)
    @@ (<<"Time", "24:00">> :> "00:00") @@ (<<"Time", "838:59:59">> :> Refused)
    @@ (<<"Time", "-1:00">> :> Refused) @@ (<<"Date", "0000-00-00">> :> Nothing)
    @@ (<<"TimestampNaive", "2024-00-00">> :> Refused) @@ (<<"Json", "1e400">> :> Refused)
    @@ (<<"Json", "20 digits">> :> "17 digits")

\* POINT(2 2) is UTF-8 text, POINT(1 1) is not.
MCHighBytes == {"F0"}

TextCells(t) == {Cell(t, Scalar(s)) : s \in Texts}

ArrayCells == {Cell(ArrayType("text", NoArg), d) :
    d \in {ArrayOf(<<>>), ArrayOf(<<Null, Scalar(NullWord)>>), ArrayOf(<<Scalar(<<>>)>>),
           ArrayOf(<<Scalar(<<"\"", ",", "\\">>), Scalar(<<"\t", "}">>)>>)}}

\* Columns whose rendered type says how many digits they have.
PgSized ==
    {Cell(Type("numeric", 1), Scalar(<<"1", ".", "5">>)),
     Cell(Type("timestamp", 1), Scalar(<<"9", ".", "5">>)),
     Cell(Type("timestamptz", 0), Scalar(<<"9">>))}

\* Columns whose rendered type leaves it to the server.
PgUnsized ==
    {Cell(Type("numeric", NoArg), Scalar(<<"1", ".", "5">>)),
     Cell(Type("time", NoArg), Scalar(<<"9", ".", "5">>)),
     Cell(Type("timestamp", NoArg), Scalar(<<"9", ".", "5">>))}

\* Values at or beyond the ends of the Rust types.
PgExtreme ==
    {Cell(Type("numeric", 1), Scalar(<<s>>)) : s \in {"NaN", "10^30", "29 digits"}} \cup
    {Cell(Type("date", NoArg), Scalar(<<"infinity">>)),
     Cell(Type("timestamp", 1), Scalar(<<"infinity">>)),
     Cell(Type("timestamptz", 0), Scalar(<<"infinity">>)),
     Cell(Type("time", 1), Scalar(<<"24:00">>)),
     Cell(Type("json", NoArg), Scalar(<<"1e400">>)),
     Cell(Type("jsonb", NoArg), Scalar(<<"[", "20 digits", "]">>)),
     Cell(ArrayType("numeric", 1), ArrayOf(<<Null, Scalar(<<"29 digits">>)>>)),
     Cell(ArrayType("json", NoArg), ArrayOf(<<Scalar(<<"{", " ", "}">>), Scalar(<<"1e400">>)>>)),
     Cell(ArrayType("json", NoArg), ArrayOf(<<Scalar(<<"[", " ", "20 digits", "]">>)>>)),
     Cell(ArrayType("int4", NoArg), Matrix(<<"{", "{", "1", "}", "}">>)),
     Cell(ArrayType("enum", NoArg), Matrix(<<"{", "{", "a", "}", "}">>))}

\* The arrays that are cast to text are not empty: {} is a document for MySQL.
PgOther ==
    {Cell(Type("bool", NoArg), Scalar(<<"t">>)), Cell(Type("int4", NoArg), Null),
     Cell(Type("float4", NoArg), Scalar(<<"1", ".", "5">>)),
     Cell(Type("varchar", 2), Scalar(<<"a", "b">>)),
     Cell(Type("bpchar", NoArg), Scalar(<<"a", "b">>)),
     Cell(Type("bytea", NoArg), Scalar(<<"61", "62">>)),
     Cell(ArrayType("bytea", NoArg), ArrayOf(<<Scalar(<<"61">>)>>)),
     Cell(Type("timetz", NoArg), Scalar(<<"9", "+", "2">>)),
     Cell(Type("interval", NoArg), Scalar(<<"1", "d">>)),
     Cell(Type("json", NoArg), Scalar(<<"{", " ", "}">>)),
     Cell(Type("jsonb", NoArg), Scalar(<<"\"", "\\", "n", "\"">>)),
     Cell(Type("bit", 2), Scalar(<<"1", "0">>)), Cell(Type("varbit", 4), Scalar(<<"1", "0">>)),
     Cell(Type("enum", NoArg), Scalar(<<"a">>)),
     Cell(ArrayType("enum", NoArg), ArrayOf(<<Scalar(<<"a">>), Scalar(<<"b">>)>>)),
     Cell(Type("inet", NoArg), Scalar(<<"1", "/", "8">>))}

MyCells ==
    TextCells(Type("text", NoArg)) \cup
    {Cell(Type("tinyint1", NoArg), Scalar(<<"1">>)), Cell(Type("tinyint1", NoArg), Scalar(<<"2">>)),
     Cell(Type("uint", NoArg), Scalar(<<"3000000000">>)),
     Cell(Type("uint", NoArg), Scalar(<<"1">>)),
     Cell(Type("ubigint", NoArg), Scalar(<<"18446744073709551615">>)),
     Cell(Type("decimal", 1), Scalar(<<"1", ".", "5">>)),
     Cell(Type("varchar", 2), Null), Cell(Type("varbinary", 2), Scalar(<<"61", "62">>)),
     Cell(Type("datetime", 1), Scalar(<<"9", ".", "5">>)),
     Cell(Type("timestamp", NoArg), Scalar(<<"9">>)),
     Cell(Type("json", NoArg), Scalar(<<"{", "}">>)), Cell(Type("year", NoArg), Scalar(<<"1999">>)),
     Cell(Type("float", NoArg), Scalar(<<"1", ".", "5">>)),
     Cell(Type("usmallint", NoArg), Scalar(<<"7">>)),
     Cell(Type("bit", 2), Scalar(<<"1", "0">>)), Cell(Type("enum", NoArg), Scalar(<<"a">>)),
     Cell(Type("set", NoArg), Scalar(<<"a", ",", "b">>))}

\* Values at the ends of the Rust types, and of types that are rendered as
\* another one.
MyExtreme ==
    {Cell(Type("decimal", 1), Scalar(<<s>>)) : s \in {"10^30", "29 digits"}} \cup
    {Cell(Type("time", NoArg), Scalar(<<s>>)) : s \in {"838:59:59", "-1:00"}} \cup
    {Cell(Type(name, NoArg), Scalar(<<s>>)) : name \in {"longtext", "longblob"}, s \in {"65 KB", "61"}} \cup
    {Cell(Type(name, NoArg), Scalar(s)) : name \in Spatial, s \in {<<"00", "40">>, <<"00", "F0">>}} \cup
    {Cell(Type("date", NoArg), Scalar(<<"0000-00-00">>)),
     Cell(Type("datetime", 1), Scalar(<<"2024-00-00">>)),
     Cell(Type("json", NoArg), Scalar(<<"[", "20 digits", "]">>))}

PgCells == TextCells(Type("text", NoArg)) \cup ArrayCells \cup PgSized \cup PgOther \cup PgExtreme

MCCells ==
    [r \in {"pg", "mysql"} \X {"pg", "mysql"} |->
        IF r[1] = "mysql" THEN MyCells \cup MyExtreme
        ELSE PgCells \cup (IF r[2] = "pg" THEN PgUnsized ELSE {})]

\* From Postgres to MySQL, with columns that leave the digits to the server.
MCUnsizedCells == [r \in {<<"pg", "mysql">>} |-> PgCells \cup PgUnsized]
=============================================================================
