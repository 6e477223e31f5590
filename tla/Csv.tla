---------------------------------- MODULE Csv ----------------------------------
(***************************************************************************)
(* The CSV parser: match_csv on the parser's own miner, the loop of        *)
(* csv_parser_parse around it, the bytes a batch is kept in, and the       *)
(* program that reads them back and parses on until the stream ends.       *)
(* [faulty] marks an operator with a bug, as in module Extractor.           *)
(***************************************************************************)
EXTENDS CsvTexts

VARIABLES
  was,          \* the one of was_delimiter, was_newline and was_eof that is set
  batch,        \* batch->bytes
  row_count, batch_size,
  iter,         \* batch->iter
  parses, read  \* history: calls so far, and what was read of their batches

csvVars == <<input, m, was, batch, row_count, batch_size, iter, pc, parses, read>>

CsvInit ==
  /\ input \in [matcher : {"csv"}, text : BoundedSeq(Symbols, MaxText)]
  /\ m = MinerAt(0)
  /\ was = "nothing" /\ batch = <<>> /\ row_count = 0 /\ batch_size = 0 /\ iter = 0
  /\ pc = "idle"
  /\ parses = 0 /\ read = <<>>

-----------------------------------------------------------------------------
(* reading a batch *)

\* The string behind i bytes
StringAt(i) ==
  LET ends == {k \in i + 1 .. Len(batch) : batch[k] = 0}
  IN SubSeq(batch, i + 1, IF ends = {} THEN Len(batch) ELSE Min(ends) - 1)

\* Behind a length that was cut off a symbol is read as one: any number.
LengthsAt(i) ==
  IF batch[i + 1] \in Symbols THEN 1 .. ByteSpan - 1 ELSE {batch[i + 1]}

-----------------------------------------------------------------------------
(* csv_parser_parse *)

\* A program that stops when the stream has ended
Parse(size) ==
  /\ pc = "idle" /\ parses < MaxParses
  /\ parses = 0 \/ ~AtEnd(text, m)
  /\ was' = "nothing" /\ batch' = <<>> /\ row_count' = 0 /\ batch_size' = size
  /\ pc' = "rows"
  /\ parses' = parses + 1
  /\ UNCHANGED <<input, m, iter, read>>

InRows == pc = "rows" /\ ~AtEnd(text, m)

\* The matcher starts: behind a quote, or where it is.  A mark would fail only
\* in front of end_last, where the parser never stands: that nothing blocks on
\* MayMark is checked as the absence of deadlock.
StartQuoted ==
  /\ InRows /\ Sees(text, m, {Quote}) /\ MayMark(Moved(m, 1))
  /\ m' = MarkStart(Moved(m, 1))
  /\ pc' = "quoted"
  /\ UNCHANGED <<input, was, batch, row_count, batch_size, iter, parses, read>>

StartPlain ==
  /\ InRows /\ ~Sees(text, m, {Quote}) /\ MayMark(m)
  /\ m' = MarkStart(m)
  /\ pc' = "plain"
  /\ UNCHANGED <<input, was, batch, row_count, batch_size, iter, parses, read>>

Doubled == SeesString(text, m, <<Quote, Quote>>)

\* One turn of either loop
Read(n) ==
  /\ m' = Moved(m, n)
  /\ UNCHANGED <<input, was, batch, row_count, batch_size, iter, pc, parses, read>>

ReadQuoted ==
  /\ pc = "quoted"
  /\ \/ Doubled /\ Read(2)
     \/ Sees(text, m, Symbols \ {Quote}) /\ Read(1)

ReadPlain ==
  /\ pc = "plain"
  /\ Sees(text, m, Symbols \ {Quote, Comma, CR, LF})
  /\ Read(1)

CloseQuoted ==
  /\ pc = "quoted" /\ ~Doubled /\ Sees(text, m, {Quote}) /\ MayMark(m)
  /\ m' = Moved(MarkEnd(m), 1)
  /\ pc' = "field"
  /\ UNCHANGED <<input, was, batch, row_count, batch_size, iter, parses, read>>

ClosePlain ==
  /\ pc = "plain" /\ ~Sees(text, m, Symbols \ {Quote, Comma, CR, LF}) /\ MayMark(m)
  /\ m' = MarkEnd(m)
  /\ pc' = "field"
  /\ UNCHANGED <<input, was, batch, row_count, batch_size, iter, parses, read>>

NewlineWidth ==
  IF SeesString(text, m, <<CR, LF>>) THEN 2 ELSE IF Sees(text, m, {CR, LF}) THEN 1 ELSE 0

WithField(bytes) == AddOccurrence(bytes, SubSeq(text, m.start + 1, m.end))

\* The field is an occurrence, which is put into the batch.
EndField(width, flag) ==
  /\ pc = "field" /\ MayMake(m, TRUE)
  /\ m' = RunOver(Moved(Made(m), width))
  /\ was' = flag
  /\ UNCHANGED <<input, batch_size, iter, parses, read>>

FieldEnds ==
  /\ Sees(text, m, {Comma})
  /\ EndField(1, "delimiter")
  /\ batch' = WithField(batch)
  /\ pc' = "rows"
  /\ UNCHANGED row_count

RowEnds ==
  /\ \/ NewlineWidth > 0 /\ EndField(NewlineWidth, "newline")
     \/ AtEnd(text, m) /\ EndField(0, "eof")
  /\ batch' = AddNewline(WithField(batch))
  /\ row_count' = row_count + 1
  /\ pc' = IF row_count + 1 >= batch_size /\ batch_size > 0 THEN "end" ELSE "rows"

\* The matcher returns NULL: a quote that is not closed, or something else
\* behind a field.  The flags stay those of the field before.
FieldFails ==
  /\ \/ pc = "quoted" /\ AtEnd(text, m) /\ m' = RunOver(MarkEnd(m))
     \/ /\ pc = "field" /\ NewlineWidth = 0
        /\ ~AtEnd(text, m) /\ ~Sees(text, m, {Comma})
        /\ m' = RunOver(m)
  /\ pc' = "end"
  /\ UNCHANGED <<input, was, batch, row_count, batch_size, iter, parses, read>>

TextEnds ==
  /\ pc = "rows" /\ AtEnd(text, m)
  /\ pc' = "end"
  /\ UNCHANGED <<input, m, was, batch, row_count, batch_size, iter, parses, read>>

\* [faulty] A field behind the last delimiter is not added.
ReturnWithoutLast ==
  /\ pc = "end"
  /\ IF row_count = 0 THEN pc' = "idle" ELSE pc' = "reading"
  /\ iter' = 0
  /\ UNCHANGED <<input, m, was, batch, row_count, batch_size, parses, read>>

\* Behind a delimiter an empty field is added, but no row counted.  A batch
\* without a row is destroyed and NULL returned.
ReturnBatch ==
  /\ pc = "end"
  /\ IF was = "delimiter"
     THEN LET marked == MarkEnd(MarkStart(m))
          IN /\ MayMake(marked, TRUE)
             /\ m' = Made(marked)
             /\ batch' = AddOccurrence(batch, <<>>)
     ELSE UNCHANGED <<m, batch>>
  /\ IF row_count = 0 THEN pc' = "idle" ELSE pc' = "reading"
  /\ iter' = 0
  /\ UNCHANGED <<input, was, row_count, batch_size, parses, read>>

-----------------------------------------------------------------------------
(* The program reads the batch. *)

\* [faulty] The length is taken to be without the zero byte.
GetNextBeforeZero ==
  /\ pc = "reading" /\ iter < Len(batch)
  /\ \E len \in LengthsAt(iter) :
       /\ iter' = iter + WordBytes + (IF len > 0 THEN len - 1 ELSE 0)
       /\ read' = Append(read, IF len > 0 THEN StringAt(iter + WordBytes) ELSE EndOfRow)
  /\ UNCHANGED <<input, m, was, batch, row_count, batch_size, pc, parses>>

GetNext ==
  /\ pc = "reading" /\ iter < Len(batch)
  /\ \E len \in LengthsAt(iter) :
       /\ iter' = iter + WordBytes + len
       /\ read' = Append(read, IF len > 0 THEN StringAt(iter + WordBytes) ELSE EndOfRow)
  /\ UNCHANGED <<input, m, was, batch, row_count, batch_size, pc, parses>>

\* csv_batch_has_next is false.
BatchRead ==
  /\ pc = "reading" /\ iter >= Len(batch)
  /\ pc' = "idle"
  /\ UNCHANGED <<input, m, was, batch, row_count, batch_size, iter, parses, read>>

\* The program stops parsing.
Stopped ==
  /\ pc = "idle"
  /\ parses = MaxParses \/ (parses > 0 /\ AtEnd(text, m))
  /\ UNCHANGED csvVars

CsvNext ==
  \/ \E size \in BatchSizes : Parse(size)
  \/ StartQuoted \/ StartPlain \/ ReadQuoted \/ ReadPlain \/ CloseQuoted \/ ClosePlain
  \/ FieldEnds \/ RowEnds \/ FieldFails \/ TextEnds
  \/ ReturnBatch \/ GetNext \/ BatchRead
  \/ Stopped

CsvSpec == CsvInit /\ [][CsvNext]_csvVars

-----------------------------------------------------------------------------
\* A text that is well-formed comes out of any sequence of batches as its
\* fields and row ends, each once and in order, whatever the sizes that were
\* asked for: nothing is lost or read twice where one batch ends and the next
\* begins.  One row may be missing, a last one that ends in a delimiter, if
\* the parse that reached the end of the text completed no row.
RowsRead ==
  pc = "idle" /\ AtEnd(text, m) /\ WellFormed(text) /\ FieldsFit(text) =>
    LET entries == AllEntries(text, FieldStarts(text))
    IN read = IF row_count = 0 THEN ClosedRows(entries) ELSE entries

\* A parse without limit delivers a text up to its first malformed field,
\* where the matcher gives up: exactly the fields before, and an empty one for
\* the malformed one behind a delimiter, or nothing if no row was completed.
ErrorsCutOff ==
  pc = "idle" /\ parses = 1 /\ batch_size = 0 /\ FieldsFit(text) =>
    LET entries == AllEntries(text, ProperFields(text))
    IN read = IF ClosedRows(entries) = <<>> THEN <<>> ELSE entries
===============================================================================
