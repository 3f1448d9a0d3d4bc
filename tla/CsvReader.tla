------------------------------ MODULE CsvReader ------------------------------
(* Fmi::CsvReader::read() (CsvReader.cpp), one character after the other.  What is read
   are rows that someone has written in one of the ways there are, and texts that are
   not CSV.                                                                          *)
EXTENDS Naturals, Sequences, SequencesExt

CONSTANTS
  FieldValues,  \* fields: sequences of characters
  MaxFields,    \* bound: fields of a row
  NotCsv        \* texts to refuse

Characters == {"letter", "comment", "delimiter", "quote", "space", "newline", "return"}

ASSUME CsvAssumption ==
  /\ FieldValues \cup NotCsv \subseteq Seq(Characters)
  /\ MaxFields \in Nat

VARIABLES
  text,      \* what has not been read
  csvState, row, field, field_quoted,
  csvRows,   \* what the callback was given
  expected   \* the rows that were written, or NoRows for a text that is not CSV

csvVars == <<text, csvState, row, field, field_quoted, csvRows, expected>>

NoRows == <<<<>>>>
-----------------------------------------------------------------------------
(* How rows may be written *)

Doubled(f) ==
  FoldLeft(LAMBDA written, c : written \o (IF c = "quote" THEN <<c, c>> ELSE <<c>>), <<>>, f)
InQuotes(f) == <<"quote">> \o Doubled(f) \o <<"quote">>
Chars(f) == {f[i] : i \in DOMAIN f}

MayBeBare(f, isFirst, isOnly) ==
  /\ Chars(f) \cap {"delimiter", "quote", "newline", "return"} = {}
  /\ f = <<>> => ~isOnly
  /\ f # <<>> => f[1] # "space" /\ f[Len(f)] # "space" /\ (isFirst => f[1] # "comment")

WaysToWrite(f, isFirst, isOnly) ==
  {InQuotes(f), <<"space">> \o InQuotes(f)}
  \cup (IF MayBeBare(f, isFirst, isOnly) THEN {f, <<"space">> \o f \o <<"space">>} ELSE {})

LinesBefore == {<<>>, <<"comment", "delimiter", "newline">>, <<"space", "newline">>}
LineEnds == {<<>>, <<"newline">>, <<"return">>, <<"return", "newline">>}
AnotherRow == <<<<"letter">>>>

WaysToWriteRow(r) ==
  IF Len(r) = 1 THEN WaysToWrite(r[1], TRUE, TRUE)
  ELSE {a \o <<"delimiter">> \o b : a \in WaysToWrite(r[1], TRUE, FALSE),
                                    b \in WaysToWrite(r[2], FALSE, FALSE)}

Rows == UNION {[1 .. n -> FieldValues] : n \in 1 .. MaxFields}

ReadBegins ==
  /\ csvState = "ExpectingRecord" /\ row = <<>> /\ field = <<>> /\ field_quoted = FALSE
  /\ csvRows = <<>>

\* An empty file
CsvAtRest == ReadBegins /\ text = <<>> /\ expected = <<>>

CsvInit ==
  /\ ReadBegins
  /\ \/ text = <<>> /\ expected = <<>>
     \/ text \in NotCsv /\ expected = NoRows
     \/ \E r \in Rows : \E before \in LinesBefore, written \in WaysToWriteRow(r), end \in LineEnds :
          \/ text = before \o written \o end /\ expected = <<r>>
          \/ /\ end # <<>>
             /\ text = before \o written \o end \o AnotherRow[1]
             /\ expected = <<r, AnotherRow>>
-----------------------------------------------------------------------------
(* read() *)

AtEnd == text = <<>>
ch == IF AtEnd THEN "eof" ELSE text[1]
EndsRecord == ch \in {"eof", "newline", "return"}

Goes(state) ==
  /\ csvState' = IF AtEnd THEN "End" ELSE state
  /\ text' = IF AtEnd THEN text ELSE Tail(text)

Fails ==
  /\ csvState' = "Failed"
  /\ UNCHANGED <<text, row, field, field_quoted, csvRows, expected>>

\* getline() reads up to a newline, whatever the lines of the file end with.
SkipsComment ==
  /\ csvState = "ExpectingRecord" /\ ch = "comment"
  /\ LET newlines == {i \in DOMAIN text : text[i] = "newline"} IN
     IF newlines = {}
     THEN text' = <<>> /\ csvState' = "End"
     ELSE text' = SubSeq(text, Min(newlines) + 1, Len(text)) /\ UNCHANGED csvState
  /\ UNCHANGED <<row, field, field_quoted, csvRows, expected>>

AtStartOfField ==
  csvState = "ExpectingField" \/ (csvState = "ExpectingRecord" /\ ch # "comment")

\* The last field of a row is empty, or the line is.
NoFieldBegins ==
  /\ AtStartOfField /\ EndsRecord
  /\ LET full == IF csvState = "ExpectingField" THEN Append(row, field) ELSE row
     IN csvRows' = IF full = <<>> THEN csvRows ELSE Append(csvRows, full)
  /\ row' = <<>>
  /\ Goes("ExpectingRecord")
  /\ UNCHANGED <<field, field_quoted, expected>>

FieldIsEmpty ==
  /\ AtStartOfField /\ ch = "delimiter"
  /\ row' = Append(row, <<>>)
  /\ Goes("ExpectingField")
  /\ UNCHANGED <<field, field_quoted, csvRows, expected>>

SkipsSpace ==
  /\ AtStartOfField /\ ch = "space"
  /\ Goes(csvState)
  /\ UNCHANGED <<row, field, field_quoted, csvRows, expected>>

FieldBegins ==
  /\ AtStartOfField /\ ch \in {"letter", "comment", "quote"}
  /\ field_quoted' = (ch = "quote")
  /\ field' = IF ch = "quote" THEN field ELSE Append(field, ch)
  /\ Goes("InsideField")
  /\ UNCHANGED <<row, csvRows, expected>>

FieldGoesOn ==
  /\ csvState = "InsideField"
  /\ ch \in IF field_quoted THEN Characters \ {"quote"} ELSE {"letter", "comment", "space"}
  /\ field' = Append(field, ch)
  /\ Goes("InsideField")
  /\ UNCHANGED <<row, field_quoted, csvRows, expected>>

QuoteIsRead ==
  /\ csvState = "InsideField" /\ ch = "quote"
  /\ Goes("DoubleQuote")
  /\ UNCHANGED <<row, field, field_quoted, csvRows, expected>>

trim(f) ==
  LET inner == {i \in DOMAIN f : f[i] # "space"}
  IN IF inner = {} THEN <<>> ELSE SubSeq(f, Min(inner), Max(inner))

\* mutant: the field goes on in the next row
FieldLeft == field

FieldCleared == <<>>

\* What is to be read next is a field of this row, or another row.
FieldTaken(f) ==
  /\ IF ch = "delimiter"
     THEN /\ row' = Append(row, f)
          /\ Goes("ExpectingField")
          /\ UNCHANGED csvRows
     ELSE /\ csvRows' = Append(csvRows, Append(row, f))
          /\ row' = <<>>
          /\ Goes("ExpectingRecord")
  /\ UNCHANGED <<field_quoted, expected>>

BareFieldEnds ==
  /\ csvState = "InsideField" /\ ~field_quoted /\ (EndsRecord \/ ch = "delimiter")
  /\ FieldTaken(trim(field))
  /\ field' = <<>>

QuotedFieldEnds ==
  /\ csvState = "DoubleQuote" /\ field_quoted /\ (EndsRecord \/ ch = "delimiter")
  /\ FieldTaken(field)
  /\ field' = FieldCleared

\* Two of them stand for one.
QuoteIsDoubled ==
  /\ csvState = "DoubleQuote" /\ ch = "quote"
  /\ field' = Append(field, "quote")
  /\ Goes("InsideField")
  /\ UNCHANGED <<row, field_quoted, csvRows, expected>>

IsNotCsv ==
  /\ \/ csvState = "InsideField" /\ field_quoted /\ AtEnd
     \/ csvState = "DoubleQuote" /\ ~field_quoted /\ (EndsRecord \/ ch = "delimiter")
     \/ csvState = "DoubleQuote" /\ ch \in {"letter", "comment", "space"}
  /\ Fails

CsvNext ==
  \/ SkipsComment \/ NoFieldBegins \/ FieldIsEmpty \/ SkipsSpace \/ FieldBegins
  \/ FieldGoesOn \/ QuoteIsRead \/ BareFieldEnds \/ QuotedFieldEnds \/ QuoteIsDoubled
  \/ IsNotCsv

CsvSpec == CsvInit /\ [][CsvNext]_csvVars
-----------------------------------------------------------------------------
CsvTypeOK ==
  /\ {text, field} \subseteq Seq(Characters)
  /\ csvState \in {"ExpectingRecord", "ExpectingField", "InsideField", "DoubleQuote", "End", "Failed"}
  /\ row \in Seq(Seq(Characters))
  /\ csvRows \in Seq(Seq(Seq(Characters)))
  /\ field_quoted \in BOOLEAN

(* The callback is given the rows that were written, in any way there is to write them,
   after comments and empty lines and with or without an end of the last line; a text
   that is not CSV is refused before a row of it is given (CsvReader.cpp:52-213).      *)
CsvIsExact ==
  IF expected = NoRows
  THEN csvState # "End" /\ csvRows = <<>>
  ELSE /\ csvState # "Failed"
       /\ IsPrefix(csvRows, expected)
       /\ csvState = "End" => csvRows = expected
=============================================================================
