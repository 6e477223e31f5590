------------------------------- MODULE MCParts -------------------------------
(***************************************************************************)
(* Instances of what Extractor takes as given of the sequential code:      *)
(* a stream and a copy of it, moved at will; the scan of one miner in the  *)
(* loop of thread_fn; the filter of a result array.  A behaviour is one of *)
(* them; the variables of the others keep their values.                    *)
(***************************************************************************)
EXTENDS Stream, Scan, Filter

StreamRests ==
  /\ content = <<>> /\ cursor = Opened(<<>>) /\ copy = cursor /\ kept = cursor
  /\ moved = 0

\* pc says who moves instead.
ScanRests(who) ==
  /\ text = <<>> /\ stream = Opened(<<>>) /\ own = stream
  /\ start = Unmarked /\ end = Unmarked /\ end_last = 0 /\ pos_last = 0
  /\ mark = MarkOf(stream) /\ saved = mark
  /\ batch = 0 /\ pc = who /\ steps = 0
  /\ ran = <<>> /\ found = <<>>

FilterRests ==
  /\ occs = <<>> /\ cells = <<>> /\ labelled = {} /\ a = 1 /\ b = 1
  /\ freed = {} /\ stage = "done"

MCInit ==
  \/ StreamInit /\ ScanRests("stream") /\ FilterRests
  \/ Init /\ StreamRests /\ FilterRests
  \/ FilterInit /\ StreamRests /\ ScanRests("filter")

Streams == pc = "stream" /\ UNCHANGED <<vars, filterVars>>
Scans   == UNCHANGED <<streamVars, filterVars>>
Filters == pc = "filter" /\ UNCHANGED <<streamVars, vars>>

MCNext ==
  \/ \E m \in Moves : Streams /\ MoveStream(m)
  \/ \E m \in Moves : Streams /\ MoveCopy(m)
  \/ Streams /\ Sync
  \/ Streams /\ MarkCopy
  \/ Streams /\ ResetCopy
  \/ \E n \in Batches : Start(n) /\ Scans
  \/ Skip /\ Scans
  \/ Run /\ Scans
  \/ Leave /\ Scans
  \/ MoveTo(1) /\ Scans
  \/ MoveTo(-1) /\ Scans
  \/ MarkStart /\ Scans
  \/ MarkEnd /\ Scans
  \/ MarkPos /\ Scans
  \/ ResetPos /\ Scans
  \/ ReturnOccurrence /\ Scans
  \/ ReturnNull /\ Scans
  \/ NextA /\ Filters
  \/ SkipB /\ Filters
  \/ Compare /\ Filters
  \/ Compared /\ Filters
  \/ KeepB /\ Filters
  \/ FreeB /\ Filters
  \/ Packed /\ Filters
  \/ /\ (pc = "idle" /\ Eof(stream)) \/ (pc = "filter" /\ stage = "done")
     /\ UNCHANGED <<streamVars, vars, filterVars>>

MCSpec == MCInit /\ [][MCNext]_<<streamVars, vars, filterVars>>

-----------------------------------------------------------------------------
\* A stream is opened on no bytes; on symbols of one to four bytes, next to
\* each other and at both ends; on a text that ends inside a symbol, where
\* unicode_offset drifts and wraps
MCContents ==
  { <<>>,
    <<"lead2">>,
    <<"ascii", "lead2", "cont", "ascii", "ascii">>,
    <<"lead3", "cont", "cont", "ascii">>,
    <<"lead4", "cont", "cont", "cont", "ascii">> }

MCMoves == {-3, -1, 0, 1, 2}

\* Texts that are scanned
MCTexts ==
  { <<"ascii", "ascii", "ascii", "ascii">>,
    <<"lead2", "cont", "ascii", "lead2", "cont">> }

\* What is filtered: nested, crossing, equal and empty ranges
MCRanges == { [pos |-> p, len |-> l] : p \in 0 .. 2, l \in 0 .. 3 }
===============================================================================
