---------------------------- MODULE Materializer ----------------------------
(***************************************************************************)
(* IoTSiteWiseColumn (src/odbc/src/iotsitewise_column.cpp): one result     *)
(* column of a data query, converting each backend Datum it is given into  *)
(* the caller's buffer.  The state is the column's declared scalar type,   *)
(* whether its ColumnInfo is set, the last datum read and what ReadToBuffer *)
(* wrote for it.  Texts are TLA+ strings; a Put into the caller's buffer is *)
(* recorded as the call made, a Put into a temporary AI_CHAR buffer as the  *)
(* characters it leaves there.                                              *)
(***************************************************************************)
EXTENDS Integers, Sequences, SequencesExt

CONSTANTS
  BufferSize,    \* BUFFER_SIZE, bytes of each element's temporary buffer
  MaxDepth,      \* nesting of arrays and rows in the datums enumerated
  MaxWidth,      \* elements per array or row in the datums enumerated
  TextsOf,       \* TextsOf[t]: the scalar texts the backend sends for type t
  EpochOf,       \* timegm of the date-time fields sscanf reads from a text
  Uninitialized  \* values the never-assigned fractionNs may hold

VARIABLES colType, infoSet, datum, out

vars == <<colType, infoSet, datum, out>>

ScalarTypes == {"STRING", "DOUBLE", "BOOLEAN", "INT", "TIMESTAMP", "NOT_SET",
                "OTHER"}

\* The backend Datum, by which of its members has been set.
Scalar(t) == [k |-> "scalar", text |-> t]
NullDatum == [k |-> "null"]
UnsetDatum == [k |-> "unset"]

RECURSIVE Datums(_, _)
Datums(texts, depth) ==
  LET leaves == {Scalar(t) : t \in texts} \cup {NullDatum, UnsetDatum}
      below  == IF depth = 0 THEN {} ELSE Datums(texts, depth - 1)
      seqs   == BoundedSeq(below, MaxWidth)
  IN  leaves
      \cup (IF depth = 0 THEN {}
            ELSE {[k |-> "array", elems |-> s] : s \in seqs}
                 \cup {[k |-> "row", hasData |-> TRUE, elems |-> s] : s \in seqs}
                 \cup {[k |-> "row", hasData |-> FALSE, elems |-> <<>>]})

\* Arrays and rows reach only STRING columns: ReadMetadata declares a column
\* whose ColumnInfo has no scalar type as STRING.
DatumsFor == [t \in ScalarTypes |->
                Datums(TextsOf[t], IF t = "STRING" THEN MaxDepth ELSE 0)]

Char(s, i) == SubSeq(s, i, i)
PopBack(s) == SubSeq(s, 1, Len(s) - 1)
DigitChars == <<"0", "1", "2", "3", "4", "5", "6", "7", "8", "9">>
IsDigit(c) == \E i \in 1..10 : DigitChars[i] = c

\* The digits a %Nd conversion consumes: the longest digit prefix, at most n.
RECURSIVE LeadingDigits(_, _)
LeadingDigits(s, n) ==
  IF n = 0 \/ s = "" \/ ~IsDigit(Char(s, 1)) THEN ""
  ELSE Char(s, 1) \o LeadingDigits(SubSeq(s, 2, Len(s)), n - 1)

RECURSIVE NumberOf(_)
NumberOf(digits) ==
  IF digits = "" THEN 0
  ELSE 10 * NumberOf(PopBack(digits))
         + (CHOOSE d \in 0..9 : DigitChars[d + 1] = Char(digits, Len(digits)))

\* std::stod of "<int>.<frac>": the value NumberOf(int frac) / 10^Len(frac).
Stod(text) ==
  LET whole == LeadingDigits(text, Len(text))
      rest  == SubSeq(text, Len(whole) + 1, Len(text))
      frac  == IF rest # "" /\ Char(rest, 1) = "."
               THEN LeadingDigits(SubSeq(rest, 2, Len(rest)), Len(rest)) ELSE ""
  IN  [num |-> NumberOf(whole \o frac), exp |-> Len(frac)]

\* ApplicationDataBuffer: a Put and its ConversionResult.
Put(kind, v) == [put |-> kind, val |-> v, ret |-> "SUCCESS"]
Fail(r) == [put |-> "None", val |-> "", ret |-> r]

\* The characters a Put leaves in a zero-filled AI_CHAR buffer of
\* BUFFER_SIZE bytes: a string cut to leave room for its terminator, and
\* nothing at all for PutNull or for a conversion that wrote nothing.
TmpBuffer(p) ==
  IF p.put = "String" /\ Len(p.val) >= BufferSize
  THEN SubSeq(p.val, 1, BufferSize - 1)
  ELSE IF p.put = "String" THEN p.val ELSE ""

DateTimeWidth == 19   \* "YYYY-MM-DD HH:MM:SS"
FracWidth == 9        \* the %9d of the format

\* The TIMESTAMP case: sscanf with "%4d-%2d-%2d %2d:%2d:%2d.%9d", year and
\* month adjusted, timegm.  A text with no digits after the '.' leaves
\* fractionNs as the stack held it (g).
ParseTimestampShortWidth(text, g) ==
  LET frac == IF Len(text) > DateTimeWidth /\ Char(text, DateTimeWidth + 1) = "."
              THEN LeadingDigits(SubSeq(text, DateTimeWidth + 2, Len(text)),
                                 FracWidth - 1)
              ELSE ""
  IN  <<EpochOf[SubSeq(text, 1, DateTimeWidth)],
        IF frac = "" THEN g ELSE NumberOf(frac)>>

ParseTimestamp(text, g) ==
  LET frac == IF Len(text) > DateTimeWidth /\ Char(text, DateTimeWidth + 1) = "."
              THEN LeadingDigits(SubSeq(text, DateTimeWidth + 2, Len(text)),
                                 FracWidth)
              ELSE ""
  IN  <<EpochOf[SubSeq(text, 1, DateTimeWidth)],
        IF frac = "" THEN g ELSE NumberOf(frac)>>

\* The `default:` case falling through to `return convRes` with nothing put.
ParseScalarTypeNoDefault(text, g) ==
  CASE colType = "STRING"    -> Put("String", text)
    [] colType = "DOUBLE"    -> Put("Double", Stod(text))
    [] colType = "BOOLEAN"   -> Put("Int8", IF text = "true" THEN 1 ELSE 0)
    [] colType = "INT"       -> Put("Int32", NumberOf(LeadingDigits(text, Len(text))))
    [] colType = "NOT_SET"   -> Put("Null", "")
    [] colType = "TIMESTAMP" -> Put("Timestamp", ParseTimestamp(text, g))
    [] OTHER                 -> Fail("SUCCESS")

ParseScalarType(text, g) ==
  CASE colType = "STRING"    -> Put("String", text)
    [] colType = "DOUBLE"    -> Put("Double", Stod(text))
    [] colType = "BOOLEAN"   -> Put("Int8", IF text = "true" THEN 1 ELSE 0)
    [] colType = "INT"       -> Put("Int32", NumberOf(LeadingDigits(text, Len(text))))
    [] colType = "NOT_SET"   -> Put("Null", "")
    [] colType = "TIMESTAMP" -> Put("Timestamp", ParseTimestamp(text, g))
    [] OTHER                 -> Fail("UNSUPPORTED_CONVERSION")

RECURSIVE ParseDatum(_, _)

\* The loop of ParseArrayType and ParseRowType: each element parsed into its
\* own temporary buffer (the result ignored), appended, then a ','.
AppendElements(open, elems, g) ==
  FoldLeft(LAMBDA acc, e : acc \o TmpBuffer(ParseDatum(e, g)) \o ",", open, elems)

ParseArrayType(d, g) ==
  Put("String", IF d.elems = <<>> THEN ""
                ELSE PopBack(AppendElements("[", d.elems, g)) \o "]")

\* The `if (!valueVec.empty())` before pop_back dropped.
ParseRowTypeAlwaysPop(d, g) ==
  IF ~d.hasData THEN Fail("NO_DATA")
  ELSE Put("String", PopBack(AppendElements("(", d.elems, g)) \o ")")

ParseRowType(d, g) ==
  IF ~d.hasData THEN Fail("NO_DATA")
  ELSE LET r == AppendElements("(", d.elems, g)
       IN  Put("String", (IF d.elems # <<>> THEN PopBack(r) ELSE r) \o ")")

ParseDatum(d, g) ==
  CASE d.k = "scalar" -> ParseScalarType(d.text, g)
    [] d.k = "array"  -> ParseArrayType(d, g)
    [] d.k = "row"    -> ParseRowType(d, g)
    [] d.k = "null"   -> Put("Null", "")
    [] OTHER          -> Fail("FAILURE")

\* ReadToBuffer is const and keeps nothing from one call to the next, so a
\* behaviour is one column and the datum of its current row, which the
\* caller may read any number of times (SQLGetData called again).
Init ==
  /\ colType \in ScalarTypes
  /\ infoSet \in BOOLEAN
  /\ datum \in DatumsFor[colType]
  /\ out = Fail("NONE")

\* ReadToBuffer: fails unless the ColumnInfo and its type are set.
ReadToBuffer(g) ==
  /\ out' = IF infoSet THEN ParseDatum(datum, g) ELSE Fail("FAILURE")
  /\ UNCHANGED <<colType, infoSet, datum>>

Next == \E g \in Uninitialized : ReadToBuffer(g)

Spec == Init /\ [][Next]_vars

-----------------------------------------------------------------------------
ConversionResults == {"NONE", "SUCCESS", "NO_DATA", "FAILURE",
                      "UNSUPPORTED_CONVERSION"}
PutKinds == {"None", "String", "Double", "Int8", "Int32", "Null", "Timestamp"}

\* The datum has been read at least once.
Read == out.ret # "NONE"

\* ReadToBuffer reports SUCCESS exactly when it has written the caller's
\* buffer: a declared type the switch does not know, a row without data and
\* a datum with no member set all return an error with the buffer untouched.
TypeOK ==
  /\ colType \in ScalarTypes
  /\ infoSet \in BOOLEAN
  /\ datum \in DatumsFor[colType]
  /\ out.put \in PutKinds /\ out.ret \in ConversionResults
  /\ (out.ret = "SUCCESS") = (out.put # "None")

\* Spec 4.5's rendering of an array or row: "[v1,...,vn]" or "(v1,...,vn)",
\* an empty array as "", each vi the element's own rendering cut to `bound`
\* characters (the bounded temporary buffer), or nothing for a NULL, a row
\* without data and a datum with no member set.
Cut(s, bound) == IF Len(s) <= bound THEN s ELSE SubSeq(s, 1, bound)

RECURSIVE SpecText(_, _)
SpecText(d, bound) ==
  LET vs == [i \in 1..Len(d.elems) |-> Cut(SpecText(d.elems[i], bound), bound)]
      joined == IF vs = <<>> THEN ""
                ELSE FoldLeft(LAMBDA a, v : a \o "," \o v, Head(vs), Tail(vs))
  IN  CASE d.k = "scalar" -> d.text
        [] d.k = "array" /\ d.elems # <<>> -> "[" \o joined \o "]"
        [] d.k = "row" /\ d.hasData -> "(" \o joined \o ")"
        [] OTHER -> ""

\* ParseArrayType and ParseRowType, including every element they render
\* through a temporary AI_CHAR buffer, produce spec 4.5's rendering; a row
\* whose data flag is unset is reported as no data.
RenderAsSpecified ==
  Read /\ infoSet /\ datum.k \in {"array", "row"} =>
    IF datum.k = "row" /\ ~datum.hasData THEN out = Fail("NO_DATA")
    ELSE out = Put("String", SpecText(datum, BufferSize - 1))

\* A TIMESTAMP text in spec 4.5's fixed format "YYYY-MM-DD HH:MM:SS.fffffffff"
\* is written as the instant of its date-time fields with the nine fraction
\* digits as nanoseconds.
SpecTimestampText(t) ==
  /\ Len(t) = DateTimeWidth + 1 + FracWidth
  /\ SubSeq(t, 1, DateTimeWidth) \in DOMAIN EpochOf
  /\ Char(t, DateTimeWidth + 1) = "."
  /\ Len(LeadingDigits(SubSeq(t, DateTimeWidth + 2, Len(t)), FracWidth)) = FracWidth

TimestampAsSpecified ==
  Read /\ infoSet /\ colType = "TIMESTAMP" /\ datum.k = "scalar"
  /\ SpecTimestampText(datum.text) =>
    out = Put("Timestamp",
              <<EpochOf[SubSeq(datum.text, 1, DateTimeWidth)],
                NumberOf(SubSeq(datum.text, DateTimeWidth + 2, Len(datum.text)))>>)

\* An array or row reported as converted successfully holds every element
\* whole: a rendering cut short by an element's temporary buffer is not
\* passed off as SUCCESS (ODBC reports truncation as a warning).
TruncationReported ==
  infoSet /\ datum.k \in {"array", "row"} /\ out.ret = "SUCCESS" =>
    out.val = SpecText(datum, BufferSize * BufferSize * BufferSize)

\* Spec 4.5 keeps a timestamp's "fractional digits as nanosecond offset": a
\* fraction of a second, ".5" being 500000000 ns, and 0 ns for a text with
\* no fraction; the code's %9d reads the digits as an integer count and
\* leaves fractionNs unassigned when there are none.
SpecNanos(t) ==
  LET f == IF Len(t) > DateTimeWidth /\ Char(t, DateTimeWidth + 1) = "."
           THEN LeadingDigits(SubSeq(t, DateTimeWidth + 2, Len(t)), FracWidth)
           ELSE ""
  IN  NumberOf(f) * 10^(FracWidth - Len(f))

FractionAsSpecified ==
  Read /\ infoSet /\ colType = "TIMESTAMP" /\ datum.k = "scalar" =>
    out.val[2] = SpecNanos(datum.text)
=============================================================================
