-------------------------------- MODULE Mining --------------------------------
(***************************************************************************)
(* What extractor_c promises: next(batch) is one step that hands out what  *)
(* the miners find in the next batch positions.  There are no threads, no  *)
(* jobs and no batches inside a miner: Hits is one scan of the whole text. *)
(***************************************************************************)
EXTENDS Integers, Sequences, FiniteSets

CONSTANTS Miners, Given, Texts, Unreadable, Size, Matcher, Batches, NoText, AllFlags

VARIABLES
  miners,      \* the set of miners added
  text, at,    \* the stream that is set and its position
  origin,      \* where the stream stood when it was set
  flags, last_max,
  delivered,   \* what was handed out since the stream was set
  alive

mvars == <<miners, text, at, origin, flags, last_max, delivered, alive>>

Occ(m, r) == [miner |-> m, start |-> r.start, end |-> r.end]

\* One scan of t by m at s.at: the matcher is run there if it may be, and may
\* be run again behind what it has read and returned.
Runs(t, s) == s.at < Size[t] /\ s.on <= s.at

Returns(s, r) == r.end > 0 /\ r.start >= s.last

Furthest(S) == CHOOSE x \in S : \A y \in S : x >= y

Pass(m, t, s) ==
  LET r == Matcher[m][t][s.at]
  IN [at   |-> s.at + 1,
      on   |-> IF Runs(t, s) THEN Furthest({r.end, r.to, s.at + 1}) ELSE s.on,
      last |-> IF Runs(t, s) /\ Returns(s, r) THEN r.end ELSE s.last]

\* What the scan from the position o on knows when it has passed n positions
Scan(m, t, o) ==
  LET s[n \in Nat] == IF n = 0 THEN [at |-> o, on |-> o, last |-> 0] ELSE Pass(m, t, s[n - 1])
  IN s

\* The occurrence m's scan of t from o on finds at p, if any
HitAt(m, t, o, p) ==
  LET s == Scan(m, t, o)[p - o]
      r == Matcher[m][t][p]
  IN {x \in {Occ(m, r)} : Runs(t, s) /\ Returns(s, r)}

HitsOf(m, t, o, lo, hi) == UNION {HitAt(m, t, o, p) : p \in lo .. hi - 1}

Hits(lo, hi) == UNION {HitsOf(m, text, origin, lo, hi) : m \in miners}

\* The occurrences of S that no other range of S encloses
Longest(S) ==
  {o \in S : \A a \in S :
     a.start <= o.start /\ o.end <= a.end => a.start = o.start /\ a.end = o.end}

\* What is left of a batch under E_NO_ENCLOSED_OCCURRENCES
Unenclosed(S) == Longest({o \in S : last_max = 0 \/ o.end > last_max})

Init ==
  /\ \E s \in Given : miners = {s[i] : i \in DOMAIN s}
  /\ text = NoText /\ at = 0 /\ origin = 0
  /\ flags = {} /\ last_max = 0 /\ delivered = {} /\ alive = TRUE

Add(m) ==
  /\ alive /\ text = NoText /\ m \notin miners
  /\ miners' = miners \cup {m}
  /\ UNCHANGED <<text, at, origin, flags, last_max, delivered, alive>>

Detach ==
  /\ alive
  /\ text' = NoText /\ at' = 0 /\ origin' = 0 /\ delivered' = {}
  /\ UNCHANGED <<miners, flags, last_max, alive>>

Attach(t) ==
  /\ alive /\ text = NoText
  /\ text' = t /\ last_max' = 0
  /\ at' \in 0 .. Size[t] /\ origin' = at'
  /\ UNCHANGED <<miners, flags, delivered, alive>>

SetFlags(fs) ==
  /\ alive /\ flags' = fs
  /\ UNCHANGED <<miners, text, at, origin, last_max, delivered, alive>>

Extract(b) ==
  /\ alive /\ text # NoText
  /\ at' = IF at + b < Size[text] THEN at + b ELSE Size[text]
  /\ LET found == Hits(at, at')
         kept  == IF "E_NO_ENCLOSED_OCCURRENCES" \in flags THEN Unenclosed(found) ELSE found
     IN /\ delivered' = delivered \cup kept
        /\ last_max' = IF "E_NO_ENCLOSED_OCCURRENCES" \in flags
                       THEN Furthest({last_max} \cup {o.end : o \in kept})
                       ELSE last_max
  /\ UNCHANGED <<miners, text, origin, flags, alive>>

Destroy ==
  /\ alive /\ text = NoText
  /\ alive' = FALSE
  /\ UNCHANGED <<miners, text, at, origin, flags, last_max, delivered>>

Next ==
  \/ \E m \in Miners : Add(m)
  \/ Detach
  \/ \E t \in Texts \ Unreadable : Attach(t)
  \/ \E fs \in SUBSET AllFlags : SetFlags(fs)
  \/ \E b \in Batches : Extract(b)
  \/ Destroy

Spec == Init /\ [][Next]_mvars
==============================================================================
