----------------------------- MODULE MCExtractor ------------------------------
(***************************************************************************)
(* Instances of Extractor.  The texts and what the matchers do on them are *)
(* small cases of tests/enclosed.c: the text "b b", and the text of a      *)
(* newline, a space and an "a"; the globs "b b", "b", "a" and " a" of      *)
(* glob_entities.c.                                                        *)
(***************************************************************************)
EXTENDS ExtractorMining, Globs

\* Miners may be there from the start.
MCGiven == {<<>>, <<CHOOSE m \in Miners : TRUE>>}

MCSize == [t \in Texts |-> IF t = "unreadable" THEN 0 ELSE 3]

MCMatcher ==
  [m \in Miners |-> [t \in Texts |-> IF t = "unreadable" THEN <<>> ELSE GlobTable[t][m]]]
\* No glob has an occurrence without characters: the hypothesis of the theorem
\* OccurrencesOnce holds of these instances.
ASSUME MCNonEmpty == NonEmpty

\* And that of MiningImplemented: the filter is not switched during a call.
ASSUME MCSteadyFlags == SteadyFlags
==============================================================================
