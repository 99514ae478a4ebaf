-------------------------------- MODULE Ranking --------------------------------
(***************************************************************************)
(* The merging of ranked matches: mergeRankedFileMatches,                  *)
(* mergeRankedMemoryMatches and mergeRankedSymbolMatches of                *)
(* service/internal/app/integrations.go, which differ in the key of a      *)
(* match and in what orders matches of one score.                          *)
(*                                                                         *)
(* Groups of matches, found in different ways, are merged: matches of one  *)
(* key become one with the sum of their scores and the union of their      *)
(* reasons.  The merged matches are taken out of a Go map, in random       *)
(* order, sorted by falling score with a stable sort, and cut off at a     *)
(* limit.  Two matches of one score and one label stay in the order in     *)
(* which they came out of the map.                                         *)
(***************************************************************************)
EXTENDS Integers, Sequences, FiniteSets, Functions

CONSTANTS
  MatchKeys,  \* keys of matches: a path, an id, a place of a symbol
  Reasons,    \* why something matches
  LabelOf,    \* LabelOf[k]: what orders matches of one score, a number
  Found,      \* what the groups may hold, a set of sequences of matches
  RankLimit,  \* the limit
  MaxReasons  \* 4: reasons that are kept

Matches == [key : MatchKeys, score : Int, reasons : Seq(Reasons)]

ASSUME RankAssumption ==
  /\ "" \notin MatchKeys  \* a match without a key is passed over
  /\ LabelOf \in [MatchKeys -> Int]
  /\ Found \subseteq Seq(Matches)
  /\ RankLimit \in Nat \ {0} /\ MaxReasons \in Nat

VARIABLES
  found,    \* the matches of all groups, one after the other
  taken,    \* how many of them are merged
  merged,   \* the map, with a match of no reasons and score 0 for no entry
  ranked,   \* the result
  rankPc    \* "merging" or "ranked"

rankVars == <<found, taken, merged, ranked, rankPc>>

Match(k, score, reasons) == [key |-> k, score |-> score, reasons |-> reasons]
NoMatch == [key |-> "", score |-> 0, reasons |-> <<>>]

RankInit ==
  /\ found \in Found
  /\ taken = 0
  /\ merged = [k \in MatchKeys |-> NoMatch]
  /\ ranked = <<>>
  /\ rankPc = "merging"

-----------------------------------------------------------------------------
(* Merging *)

\* mergeUniqueStrings keeps the first of each.
UniqueReasons(a, b) ==
  LET all == a \o b
      kept[n \in 0..Len(all)] ==
        IF n = 0 THEN <<>>
        ELSE IF all[n] \in Range(kept[n - 1]) THEN kept[n - 1] ELSE Append(kept[n - 1], all[n])
  IN kept[Len(all)]

\* Mutated form of Combined: the better score counts.
BetterOf(m, n) ==
  [m EXCEPT !.score = IF @ < n.score THEN n.score ELSE @,
            !.reasons = UniqueReasons(@, n.reasons)]

\* A match joins what the map has of its key.
Combined(m, n) ==
  [m EXCEPT !.score = @ + n.score, !.reasons = UniqueReasons(@, n.reasons)]

MergeNext ==
  /\ rankPc = "merging" /\ taken < Len(found)
  /\ LET n == found[taken + 1]
     IN merged' = [merged EXCEPT ![n.key] = IF @ = NoMatch THEN n ELSE Combined(@, n)]
  /\ taken' = taken + 1
  /\ UNCHANGED <<found, ranked, rankPc>>

-----------------------------------------------------------------------------
(* Sorting and cutting *)

\* Mutated form of Before: the score rises.
Rising(m, n) ==
  \/ m.score < n.score
  \/ m.score = n.score /\ LabelOf[m.key] < LabelOf[n.key]

Before(m, n) ==
  \/ m.score > n.score
  \/ m.score = n.score /\ LabelOf[m.key] < LabelOf[n.key]

Merged == {merged[k] : k \in MatchKeys} \ {NoMatch}

AtMost(n, s) == IF Len(s) > n THEN SubSeq(s, 1, n) ELSE s
Shortened(m) == [m EXCEPT !.reasons = AtMost(MaxReasons, @)]

\* What the stable sort can make of the map's random order.
Sorted(s) == \A i, j \in DOMAIN s : i < j => ~Before(s[j], s[i])
Orders == {s \in [1..Cardinality(Merged) -> Merged] : IsInjective(s) /\ Sorted(s)}

Cut(s) == AtMost(RankLimit, s)

Rank ==
  /\ rankPc = "merging" /\ taken = Len(found)
  /\ \E s \in Orders : ranked' = [i \in DOMAIN Cut(s) |-> Shortened(Cut(s)[i])]
  /\ rankPc' = "ranked"
  /\ UNCHANGED <<found, taken, merged>>

RankNext == MergeNext \/ Rank

RankSpec == RankInit /\ [][RankNext]_rankVars

-----------------------------------------------------------------------------
(* Properties *)

\* What the matches f of all groups together say of a key.
FoundAt(f, k) == {n \in DOMAIN f : f[n].key = k}
Totals(f, k) ==
  LET total[n \in 0..Len(f)] ==
        IF n = 0 THEN 0 ELSE total[n - 1] + (IF f[n].key = k THEN f[n].score ELSE 0)
  IN total
Total(f, k) == Totals(f, k)[Len(f)]
ReasonsFor(f, k) == UNION {Range(f[n].reasons) : n \in FoundAt(f, k)}

FoundKeys(f) == {k \in MatchKeys : FoundAt(f, k) # {}}
Equals(f, k) == {l \in FoundKeys(f) : Total(f, l) = Total(f, k)}
Better(f, k) ==
  {l \in FoundKeys(f) : Total(f, l) > Total(f, k)}
  \cup {l \in Equals(f, k) : LabelOf[l] < LabelOf[k]}
Rivals(f, k) == {l \in Equals(f, k) \ {k} : LabelOf[l] = LabelOf[k]}

\* Matches are shown, each key once, as many as there are up to the limit.
FillsLimit(f, r) ==
  /\ \A i, j \in DOMAIN r : r[i].key = r[j].key => i = j
  /\ Len(r) = IF Cardinality(FoundKeys(f)) < RankLimit
              THEN Cardinality(FoundKeys(f)) ELSE RankLimit

\* A match has its total score, and its place is behind those that are better;
\* one without a rival of its score and label has one place, whatever order
\* the map had.
InItsPlace(f, m, i) ==
  /\ m.key \in FoundKeys(f) /\ m.score = Total(f, m.key)
  /\ i - Cardinality(Better(f, m.key)) \in 1..Cardinality(Rivals(f, m.key)) + 1

\* The reasons shown for a match are reasons given for it, and at most
\* MaxReasons.
GivenReasons(f, m) ==
  Len(m.reasons) <= MaxReasons /\ Range(m.reasons) \subseteq ReasonsFor(f, m.key)

\* No match is left out unless others of its rank or better fill the limit.
NoneMissed(f, r) ==
  \A k \in FoundKeys(f) :
    Cardinality(Better(f, k) \cup Rivals(f, k)) < RankLimit => \E i \in DOMAIN r : r[i].key = k

\* Together: the model is shown the matches of the highest total scores, each
\* once, the best first, with reasons that are theirs.
TopRanked ==
  rankPc = "ranked" =>
    /\ FillsLimit(found, ranked) /\ NoneMissed(found, ranked)
    /\ \A i \in DOMAIN ranked : InItsPlace(found, ranked[i], i) /\ GivenReasons(found, ranked[i])
=============================================================================
