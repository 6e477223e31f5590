------------------------------- MODULE CsvTexts -------------------------------
(***************************************************************************)
(* The texts of the CSV parser, the bytes its batches are made of, and     *)
(* what a text consists of when it is read as CSV.                         *)
(***************************************************************************)
EXTENDS MinerCalls, FiniteSetsExt, SequencesExt

CONSTANTS
  Symbols,      \* what texts consist of
  Quote, Comma, CR, LF, \* the symbols that matter
  EndOfRow,     \* what reading a row's end gives: NULL
  MaxText,      \* bound: symbols of a text
  BatchSizes,   \* the numbers of rows a program asks for; 0 is no limit
  ByteSpan,     \* 256: values of a byte
  MaxParses     \* bound: calls of csv_parser_parse

\* A symbol of a text is told from a byte of a length, and NULL from a string.
ASSUME CsvAssumption ==
  /\ {Quote, Comma, CR, LF} \subseteq Symbols
  /\ Quote \notin {Comma, CR, LF} /\ Comma \notin {CR, LF} /\ CR # LF
  /\ \A c \in Symbols : c \notin Nat
  /\ EndOfRow \notin Seq(Symbols)
  /\ BatchSizes \subseteq Nat
  /\ ByteSpan \in Nat \ {0, 1}
  /\ MaxText \in Nat /\ MaxParses \in Nat

-----------------------------------------------------------------------------
(* A batch.  A field is a size_t, of two bytes here, that counts its symbols  *)
(* and the zero byte, and then these; a row is closed by a size_t of zero.    *)

WordBytes == 2
SizeT(n) == <<n % ByteSpan, n \div ByteSpan>>

AddOccurrence(bytes, field) == bytes \o SizeT(Len(field) + 1) \o field \o <<0>>

AddNewline(bytes) == bytes \o SizeT(0)

-----------------------------------------------------------------------------
(* What a text consists of, found by counting quotes: a separator has an even *)
(* number of them before it.  CR and LF together are one separator.           *)

Outside(t, p) == Cardinality({k \in 1 .. p : t[k] = Quote}) % 2 = 0

Separators(t) ==
  {p \in 0 .. Len(t) - 1 :
     /\ t[p + 1] \in {Comma, CR, LF} /\ Outside(t, p)
     /\ ~(p > 0 /\ t[p] = CR /\ t[p + 1] = LF)}

Behind(t, p) == IF SeesString(t, MinerAt(p), <<CR, LF>>) THEN p + 2 ELSE p + 1

FieldStarts(t) == {s \in {0} \cup {Behind(t, p) : p \in Separators(t)} : s < Len(t)}

FieldEnd(t, s) == Min({p \in Separators(t) : p >= s} \cup {Len(t)})

IsQuoted(t, s) == t[s + 1] = Quote

Content(t, s) ==
  IF IsQuoted(t, s) THEN SubSeq(t, s + 2, FieldEnd(t, s) - 1)
                    ELSE SubSeq(t, s + 1, FieldEnd(t, s))

\* Quotes stand around the whole field or nowhere.  Inside they stand in pairs:
\* every other symbol there has an odd number of them before it, and there is an
\* even number of them in all.
IsField(t, s) ==
  LET e == FieldEnd(t, s)
  IN IF IsQuoted(t, s)
     THEN /\ e > s + 1 /\ t[e] = Quote /\ Outside(t, e)
          /\ \A k \in s + 2 .. e - 1 : t[k] = Quote \/ ~Outside(t, k - 1)
     ELSE \A k \in s + 1 .. e : t[k] # Quote

\* The fields in front of the first that is none
ProperFields(t) == {s \in FieldStarts(t) : \A r \in FieldStarts(t) : r <= s => IsField(t, r)}

WellFormed(t) == \A s \in FieldStarts(t) : IsField(t, s)

\* A length is read back as a byte.
FieldsFit(t) == \A s \in FieldStarts(t) : Len(Content(t, s)) + 1 < ByteSpan

\* Another field of the row is behind field s.
RowGoesOn(t, s) == FieldEnd(t, s) < Len(t) /\ t[FieldEnd(t, s) + 1] = Comma

\* What reading field s gives
Entries(t, s) ==
  IF RowGoesOn(t, s) THEN <<Content(t, s)>> ELSE <<Content(t, s), EndOfRow>>

\* ... and those of the set that start before p, put together field by field
EntriesTo(t, starts) ==
  LET to[p \in 0 .. Len(t)] ==
        IF p = 0 THEN <<>>
        ELSE IF p - 1 \in starts THEN to[p - 1] \o Entries(t, p - 1)
        ELSE to[p - 1]
  IN to

\* What reading the fields gives.  A delimiter with no field behind it has an
\* empty one there, and its row no end.
AllEntries(t, starts) ==
  EntriesTo(t, starts)[Len(t)]
  \o IF starts # {} /\ RowGoesOn(t, Max(starts)) THEN <<<<>>>> ELSE <<>>

\* Without the last row, if that has no end
ClosedRows(entries) ==
  SubSeq(entries, 1, Max({0} \cup {i \in DOMAIN entries : entries[i] = EndOfRow}))
===============================================================================
