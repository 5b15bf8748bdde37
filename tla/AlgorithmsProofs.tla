-------------------------- MODULE AlgorithmsProofs --------------------------
(***************************************************************************)
(* Proofs about the two algorithms that keep no state between calls.  The  *)
(* first part is about the tally of the juries, for any jurors, candidates *)
(* and judgments: it reads the votes as a table and adds it up both ways.  *)
(* The second part is about the HTTP attempts of a council call, for any   *)
(* status codes, any max_attempts and any number of calls for a slot.      *)
(***************************************************************************)
EXTENDS Aggregation, ProviderHttp, FiniteSums

(* The length of a ranking: _validate_jury_decision wants every label once.*)
Size == Cardinality(Candidate)

(* There are finitely many candidates, and at least one.                   *)
LEMMA Candidates == IsFiniteSet(Candidate) /\ Size \in Nat /\ Size > 0
  <1>1. IsFiniteSet(Candidate)
    BY AggregationAssumption, FS_Subset
  <1> QED BY <1>1, AggregationAssumption, FS_CardinalityType, FS_EmptySet DEF Size

(* A ranking that parse_jury accepts is a list without repetitions.        *)
LEMMA RankingIsSeq ==
  ASSUME NEW r \in RankingOf
  PROVE  /\ r \in [1 .. Size -> Candidate] /\ DOMAIN r = 1 .. Size
         /\ r \in Seq(Candidate) /\ Len(r) = Size
         /\ \A i \in 1 .. Size : \A j \in 1 .. Size : r[i] = r[j] => i = j
  <1>1. r \in [1 .. Size -> Candidate] /\ IsInjective(r)
    BY DEF RankingOf, Size
  <1>2. \A i \in 1 .. Size : \A j \in 1 .. Size : r[i] = r[j] => i = j
    BY <1>1 DEF IsInjective
  <1>3. r \in Seq(Candidate) /\ Len(r) = Size
    BY <1>1, Candidates
  <1> QED BY <1>1, <1>2, <1>3

(* It ranks every candidate, at one position (an injection between finite  *)
(* sets of one size is onto).                                              *)
LEMMA RankingIsComplete ==
  ASSUME NEW r \in RankingOf, NEW c \in Candidate
  PROVE  /\ c \in Range(r)
         /\ Position(r, c) \in 1 .. Size /\ r[Position(r, c)] = c
         /\ \A i \in 1 .. Size : r[i] = c => i = Position(r, c)
  <1>1. r \in Injection(1 .. Size, Candidate)
    BY RankingIsSeq DEF Injection, IsInjective
  <1>2. Cardinality(1 .. Size) = Cardinality(Candidate)
    <2>1. Cardinality(1 .. Size) = Size
      BY Candidates, FS_Interval
    <2> QED BY <2>1 DEF Size
  <1>3. r \in Surjection(1 .. Size, Candidate)
    BY <1>1, <1>2, Candidates, FS_Injection
  <1>4. \E i \in 1 .. Size : r[i] = c
    BY <1>3 DEF Surjection
  <1>5. DOMAIN r = 1 .. Size
    BY RankingIsSeq
  <1>6. Position(r, c) \in 1 .. Size /\ r[Position(r, c)] = c
    BY <1>4, <1>5 DEF Position
  <1> QED BY <1>4, <1>5, <1>6, RankingIsSeq DEF Range

(* The candidates that a ranking puts behind c.                            *)
Behind(r, c) == {d \in Candidate \ {c} : Position(r, c) < Position(r, d)}

(* The Borda points of a ranking (len - index - 1, protocol.py:1034) count *)
(* the candidates behind c.                                                *)
LEMMA ScoreCounts ==
  ASSUME NEW r \in RankingOf, NEW c \in Candidate
  PROVE  Score(r, c) = Cardinality(Behind(r, c)) /\ Score(r, c) \in Nat
  <1> DEFINE p == Position(r, c)
             f == [i \in (p + 1) .. Size |-> r[i]]
  <1>1. p \in 1 .. Size /\ r[p] = c /\ c \in Range(r) /\ Size \in Nat
    BY RankingIsComplete, Candidates
  <1>2. Score(r, c) = Size - p /\ Score(r, c) \in Nat
    BY <1>1, RankingIsSeq DEF Score
  <1>3. f \in [(p + 1) .. Size -> Behind(r, c)]
    <2> SUFFICES ASSUME NEW i \in (p + 1) .. Size
                 PROVE  r[i] \in Behind(r, c)
      OBVIOUS
    <2>1. i \in 1 .. Size /\ i > p
      BY <1>1
    <2>2. r[i] \in Candidate /\ Position(r, r[i]) = i
      <3>1. r[i] \in Candidate BY <2>1, RankingIsSeq
      <3>2. \A j \in 1 .. Size : r[j] = r[i] => j = Position(r, r[i])
        BY <3>1, RankingIsComplete, Zenon
      <3> QED BY <2>1, <3>1, <3>2, Zenon
    <2> QED BY <2>1, <2>2, <1>1 DEF Behind
  <1>4. \A i \in (p + 1) .. Size : \A j \in (p + 1) .. Size : f[i] = f[j] => i = j
    BY <1>1, RankingIsSeq
  <1>5. \A d \in Behind(r, c) : \E i \in (p + 1) .. Size : f[i] = d
    <2> SUFFICES ASSUME NEW d \in Behind(r, c)
                 PROVE  \E i \in (p + 1) .. Size : f[i] = d
      OBVIOUS
    <2>1. d \in Candidate /\ Position(r, d) > p
      BY DEF Behind
    <2>2. Position(r, d) \in 1 .. Size /\ r[Position(r, d)] = d
      BY <2>1, RankingIsComplete
    <2>3. Position(r, d) \in (p + 1) .. Size
      BY <2>1, <2>2, <1>1
    <2> QED BY <2>2, <2>3
  <1> HIDE DEF f, p
  <1>6. f \in Bijection((p + 1) .. Size, Behind(r, c))
    BY <1>3, <1>4, <1>5 DEF Bijection, Injection, Surjection, IsInjective
  <1>7. /\ IsFiniteSet((p + 1) .. Size)
        /\ Cardinality((p + 1) .. Size) = Size - p
    BY <1>1, FS_Interval
  <1>8. Cardinality(Behind(r, c)) = Cardinality((p + 1) .. Size)
    BY <1>6, <1>7, FS_Bijection DEF ExistsBijection
  <1> QED BY <1>2, <1>7, <1>8

(* What _tally is given: finitely many counted rankings, by juror.         *)
Ballots(b) == IsFiniteSet(DOMAIN b) /\ \A j \in DOMAIN b : b[j] \in RankingOf

(* The jurors that prefer c to d.                                          *)
Preferring(b, c, d) == {j \in DOMAIN b : Position(b[j], c) < Position(b[j], d)}

(* They are some of the jurors counted.                                    *)
LEMMA PreferringIsFinite ==
  ASSUME NEW b, Ballots(b), NEW c, NEW d
  PROVE  /\ Preferring(b, c, d) \in SUBSET DOMAIN b
         /\ IsFiniteSet(Preferring(b, c, d))
         /\ Cardinality(Preferring(b, c, d)) \in Nat
  <1>1. Preferring(b, c, d) \in SUBSET DOMAIN b
    BY DEF Preferring
  <1> QED BY <1>1, FS_Subset, FS_CardinalityType DEF Ballots

(* The points of c, which _tally sums ranking by ranking, are its pairwise *)
(* victories, summed opponent by opponent: the same table of votes, added up*)
(* by rows and by columns.                                                 *)
LEMMA PointsAreVictories ==
  ASSUME NEW b, Ballots(b), NEW c \in Candidate
  PROVE  /\ Points(b)[c]
              = SumFunction([d \in Candidate \ {c} |-> Cardinality(Preferring(b, c, d))])
         /\ Points(b)[c] \in Nat
  <1> DEFINE J == DOMAIN b
             D == Candidate \ {c}
             F == [j \in J |-> [d \in D |->
                     IF Position(b[j], c) < Position(b[j], d) THEN 1 ELSE 0]]
             G == [d \in D |-> [j \in J |->
                     IF Position(b[j], c) < Position(b[j], d) THEN 1 ELSE 0]]
             rows == [j \in J |-> Score(b[j], c)]
             cols == [d \in D |-> Cardinality(Preferring(b, c, d))]
  <1>1. IsFiniteSet(J) /\ IsFiniteSet(D)
    BY Candidates, FS_Subset DEF Ballots
  <1>2. \A j \in J : \A d \in D : F[j][d] \in Nat /\ G[d][j] = F[j][d]
    OBVIOUS
  <1>3. ASSUME NEW j \in J
        PROVE  rows[j] \in Nat /\ rows[j] = SumFunctionOnSet(F[j], D)
    <2>1. b[j] \in RankingOf
      BY DEF Ballots
    <2>2. Behind(b[j], c) \in SUBSET D
      BY DEF Behind
    <2>3. \A d \in D : F[j][d] = IF d \in Behind(b[j], c) THEN 1 ELSE 0
      BY DEF Behind
    <2>4. rows[j] = Cardinality(Behind(b[j], c)) /\ rows[j] \in Nat
      BY <2>1, ScoreCounts
    <2> HIDE DEF F, rows, D
    <2> QED BY <1>1, <2>2, <2>3, <2>4, SumCounts
  <1>4. ASSUME NEW d \in D
        PROVE  cols[d] = SumFunctionOnSet(G[d], J)
    <2>1. \A j \in J : G[d][j] = IF j \in Preferring(b, c, d) THEN 1 ELSE 0
      BY DEF Preferring
    <2>2. Preferring(b, c, d) \in SUBSET J /\ cols[d] = Cardinality(Preferring(b, c, d))
      BY DEF Preferring
    <2> HIDE DEF G, cols, J
    <2> QED BY <1>1, <2>1, <2>2, SumCounts
  <1>5. /\ Points(b)[c] = SumFunctionOnSet(rows, J)
        /\ SumFunction(cols) = SumFunctionOnSet(cols, D)
    BY DEF Points, SumFunction
  <1>6. SumFunctionOnSet(rows, J) = SumFunctionOnSet(cols, D)
    <2> HIDE DEF F, G, rows, cols, J, D
    <2>1. Grid(F, G, J, D) /\ RowSums(rows, F, J, D) /\ RowSums(cols, G, D, J)
      BY <1>2, <1>3, <1>4 DEF Grid, RowSums
    <2> QED BY <1>1, <2>1, SumExchange
  <1>7. SumFunctionOnSet(rows, J) \in Nat
    <2> HIDE DEF rows, J
    <2> QED BY <1>1, <1>3, SumNat
  <1> QED BY <1>5, <1>6, <1>7

(* First places are counted.                                               *)
LEMMA WinsAreNats ==
  ASSUME NEW b, Ballots(b), NEW c \in Candidate
  PROVE  Wins(b)[c] \in Nat
  <1>1. {j \in DOMAIN b : b[j][1] = c} \in SUBSET DOMAIN b
    OBVIOUS
  <1>2. Wins(b)[c] = Cardinality({j \in DOMAIN b : b[j][1] = c})
    BY DEF Wins
  <1> QED BY <1>1, <1>2, FS_Subset, FS_CardinalityType DEF Ballots

(* Who leads, without the helper: most points, then most first places.     *)
LEMMA LeadingIs ==
  ASSUME NEW b
  PROVE  Leading(b) =
           {c \in Candidate :
              /\ \A d \in Candidate : Points(b)[d] <= Points(b)[c]
              /\ \A d \in Candidate :
                   (\A e \in Candidate : Points(b)[e] <= Points(b)[d])
                     => Wins(b)[d] <= Wins(b)[c]}
  BY DEF Leading, Highest

(* c is ahead of d by points, or by first places when the points are equal.*)
Better(b, c, d) ==
  \/ Points(b)[c] > Points(b)[d]
  \/ Points(b)[c] = Points(b)[d] /\ Wins(b)[c] > Wins(b)[d]

(* One candidate leads alone exactly when it is ahead of every other one.  *)
LEMMA OneLeader ==
  ASSUME NEW b, Ballots(b), NEW c \in Candidate
  PROVE  Leading(b) = {c} <=> \A d \in Candidate \ {c} : Better(b, c, d)
  <1> DEFINE P(d) == Points(b)[d]
             W(d) == Wins(b)[d]
  <1>1. \A d \in Candidate : P(d) \in Nat /\ W(d) \in Nat
    BY PointsAreVictories, WinsAreNats
  <1>2. Leading(b) = {x \in Candidate :
              /\ \A d \in Candidate : P(d) <= P(x)
              /\ \A d \in Candidate :
                   (\A e \in Candidate : P(e) <= P(d)) => W(d) <= W(x)}
    BY LeadingIs
  <1>3. \A d : Better(b, c, d) <=> P(c) > P(d) \/ (P(c) = P(d) /\ W(c) > W(d))
    BY DEF Better
  <1> HIDE DEF P, W
  <1>4. ASSUME Leading(b) = {c}, NEW d \in Candidate, d # c
        PROVE  P(c) > P(d) \/ (P(c) = P(d) /\ W(c) > W(d))
    <2>1. /\ c \in Leading(b) /\ d \notin Leading(b)
      BY <1>4
    <2>2. /\ \A e \in Candidate : P(e) <= P(c)
          /\ (\A e \in Candidate : P(e) <= P(d)) => W(d) <= W(c)
      BY <1>2, <2>1
    <2>3. CASE P(d) # P(c)
      BY <1>1, <2>2, <2>3
    <2>4. CASE P(d) = P(c)
      <3>1. W(d) <= W(c)
        BY <2>2, <2>4
      <3>2. W(d) # W(c)
        BY <1>2, <2>1, <2>2, <2>4
      <3> QED BY <2>4, <3>1, <3>2, <1>1
    <2> QED BY <2>3, <2>4
  <1>5. ASSUME \A d \in Candidate \ {c} : P(c) > P(d) \/ (P(c) = P(d) /\ W(c) > W(d))
        PROVE  Leading(b) = {c}
    <2>1. \A d \in Candidate : P(d) <= P(c)
      BY <1>1, <1>5
    <2>2. ASSUME NEW d \in Candidate, \A e \in Candidate : P(e) <= P(d), d # c
          PROVE  W(d) < W(c) /\ P(d) = P(c)
      <3>1. P(c) <= P(d) /\ (P(c) > P(d) \/ (P(c) = P(d) /\ W(c) > W(d)))
        BY <1>5, <2>2
      <3> QED BY <3>1, <1>1
    <2>3. c \in Leading(b)
      <3> SUFFICES ASSUME NEW d \in Candidate, \A e \in Candidate : P(e) <= P(d)
                   PROVE  W(d) <= W(c)
        BY <1>2, <2>1
      <3>1. CASE d = c
        BY <3>1, <1>1
      <3>2. CASE d # c
        BY <3>2, <2>2, <1>1
      <3> QED BY <3>1, <3>2
    <2>4. ASSUME NEW d \in Leading(b), d # c
          PROVE  FALSE
      <3>1. d \in Candidate /\ \A e \in Candidate : P(e) <= P(d)
        BY <1>2
      <3>2. W(c) <= W(d)
        BY <1>2, <2>1
      <3> QED BY <3>1, <3>2, <2>2, <2>4, <1>1
    <2> QED BY <2>3, <2>4
  <1> QED BY <1>3, <1>4, <1>5

(* The table of pairwise votes, and the same table read the other way.     *)
Votes(b) == [c \in Candidate |-> [d \in Candidate |-> Cardinality(Preferring(b, c, d))]]
Against(b) == [d \in Candidate |-> [c \in Candidate |-> Votes(b)[c][d]]]

(* What each candidate gains and loses in all its comparisons.             *)
Gained(b) == [c \in Candidate |-> SumFunctionOnSet(Votes(b)[c], Candidate)]
Lost(b) == [c \in Candidate |-> SumFunctionOnSet(Against(b)[c], Candidate)]

(* Each counted ranking votes in each pair of candidates, for one of them. *)
LEMMA VotesAreNats ==
  ASSUME NEW b, Ballots(b), NEW c \in Candidate, NEW d \in Candidate
  PROVE  /\ Votes(b)[c][d] \in Nat /\ Against(b)[d][c] = Votes(b)[c][d]
         /\ Votes(b)[c][c] = 0
         /\ c # d => Votes(b)[c][d] + Votes(b)[d][c] = Cardinality(DOMAIN b)
  <1> DEFINE S == Preferring(b, c, d)
             T == Preferring(b, d, c)
  <1>1. /\ Votes(b)[c][d] = Cardinality(S) /\ Votes(b)[d][c] = Cardinality(T)
        /\ Votes(b)[c][c] = Cardinality(Preferring(b, c, c))
        /\ Against(b)[d][c] = Votes(b)[c][d]
    BY DEF Votes, Against
  <1>2. /\ IsFiniteSet(S) /\ IsFiniteSet(T)
        /\ Cardinality(S) \in Nat /\ Cardinality(T) \in Nat
    BY PreferringIsFinite
  <1>3. ASSUME NEW j \in DOMAIN b
        PROVE  /\ Position(b[j], c) \in Nat /\ Position(b[j], d) \in Nat
               /\ c # d => Position(b[j], c) # Position(b[j], d)
    <2>1. /\ Position(b[j], c) \in 1 .. Size /\ Position(b[j], d) \in 1 .. Size
          /\ b[j][Position(b[j], c)] = c /\ b[j][Position(b[j], d)] = d
      BY RankingIsComplete DEF Ballots
    <2> QED BY <2>1, Candidates
  <1>4. Preferring(b, c, c) = {}
    BY <1>3 DEF Preferring
  <1>5. ASSUME c # d
        PROVE  Cardinality(S) + Cardinality(T) = Cardinality(DOMAIN b)
    <2>1. S \cup T = DOMAIN b /\ S \cap T = {}
      BY <1>3, <1>5 DEF Preferring
    <2>2. Cardinality(S \cup T) = Cardinality(S) + Cardinality(T) - Cardinality(S \cap T)
      BY <1>2, FS_Union
    <2>3. Cardinality(S \cap T) = 0
      BY <2>1, FS_EmptySet
    <2> HIDE DEF S, T
    <2> QED BY <2>1, <2>2, <2>3, <1>2
  <1> QED BY <1>1, <1>2, <1>4, <1>5, FS_EmptySet

(* What a candidate gains in its comparisons is its points.                *)
LEMMA GainedArePoints ==
  ASSUME NEW b, Ballots(b), NEW c \in Candidate
  PROVE  Gained(b)[c] = Points(b)[c] /\ Gained(b)[c] \in Nat /\ Lost(b)[c] \in Nat
  <1> DEFINE rest == Candidate \ {c}
             f == [d \in rest |-> Cardinality(Preferring(b, c, d))]
  <1>1. \A d \in Candidate : /\ Votes(b)[c][d] \in Nat /\ Against(b)[c][d] \in Nat
                             /\ Votes(b)[c][c] = 0
    BY VotesAreNats
  <1>2. SumFunctionOnSet(Votes(b)[c], Candidate) = SumFunctionOnSet(Votes(b)[c], rest)
    <2>1. rest \in SUBSET Candidate /\ \A d \in Candidate \ rest : Votes(b)[c][d] = 0
      BY <1>1
    <2> HIDE DEF rest
    <2> QED BY <1>1, <2>1, Candidates, SumSkipsZeros
  <1>3. SumFunctionOnSet(Votes(b)[c], rest) = SumFunctionOnSet(f, rest)
    <2>1. \A d \in rest : Votes(b)[c][d] = f[d]
      BY DEF Votes
    <2>2. IsFiniteSet(rest)
      BY Candidates, FS_Subset
    <2> HIDE DEF f, rest
    <2> QED BY <2>1, <2>2, SumAgrees
  <1>4. SumFunction(f) = SumFunctionOnSet(f, rest)
    BY DEF SumFunction
  <1>5. Points(b)[c] = SumFunction(f)
    BY PointsAreVictories
  <1>6. /\ Gained(b)[c] = SumFunctionOnSet(Votes(b)[c], Candidate)
        /\ Lost(b)[c] = SumFunctionOnSet(Against(b)[c], Candidate)
    BY DEF Gained, Lost
  <1>7. /\ SumFunctionOnSet(Votes(b)[c], Candidate) \in Nat
        /\ SumFunctionOnSet(Against(b)[c], Candidate) \in Nat
    BY <1>1, Candidates, SumNat
  <1> QED BY <1>2, <1>3, <1>4, <1>5, <1>6, <1>7

(* Gains and losses add up to the same number for every candidate.         *)
LEMMA EveryPairIsJudged ==
  ASSUME NEW b, Ballots(b)
  PROVE  \E n \in Nat : \A c \in Candidate : Gained(b)[c] + Lost(b)[c] = n
  <1> DEFINE all == [d \in Candidate |-> Cardinality(DOMAIN b)]
             total == SumFunctionOnSet(all, Candidate)
  <1>1. Cardinality(DOMAIN b) \in Nat
    BY FS_CardinalityType DEF Ballots
  <1>2. \A d \in Candidate : all[d] = Cardinality(DOMAIN b)
    OBVIOUS
  <1>3. total \in Nat
    <2> HIDE DEF all
    <2> QED BY <1>1, <1>2, Candidates, SumNat
  <1>4. ASSUME NEW c \in Candidate
        PROVE  Gained(b)[c] + Lost(b)[c] = total - Cardinality(DOMAIN b)
    <2> DEFINE both == [d \in Candidate |-> Votes(b)[c][d] + Against(b)[c][d]]
               rest == Candidate \ {c}
    <2>1. ASSUME NEW d \in Candidate
          PROVE  /\ Votes(b)[c][d] \in Nat /\ Against(b)[c][d] \in Nat
                 /\ both[d] = Votes(b)[c][d] + Against(b)[c][d] /\ both[d] \in Nat
                 /\ both[d] = IF d = c THEN 0 ELSE Cardinality(DOMAIN b)
      <3>1. /\ Votes(b)[c][d] \in Nat /\ Votes(b)[d][c] \in Nat
            /\ Against(b)[c][d] = Votes(b)[d][c]
            /\ Votes(b)[c][c] = 0
            /\ c # d => Votes(b)[c][d] + Votes(b)[d][c] = Cardinality(DOMAIN b)
        BY VotesAreNats
      <3>2. both[d] = Votes(b)[c][d] + Against(b)[c][d]
        OBVIOUS
      <3> HIDE DEF both
      <3> QED BY <3>1, <3>2
    <2>2. IsFiniteSet(rest) /\ c \in Candidate
      BY Candidates, FS_Subset
    <2>3. /\ Gained(b)[c] = SumFunctionOnSet(Votes(b)[c], Candidate)
          /\ Lost(b)[c] = SumFunctionOnSet(Against(b)[c], Candidate)
      BY DEF Gained, Lost
    <2> HIDE DEF both, all
    <2>4. SumFunctionOnSet(both, Candidate) = Gained(b)[c] + Lost(b)[c]
      BY <2>1, <2>3, Candidates, SumAdds
    <2>5. SumFunctionOnSet(both, Candidate) = both[c] + SumFunctionOnSet(both, rest)
      BY <2>1, Candidates, SumTake
    <2>6. total = all[c] + SumFunctionOnSet(all, rest)
      BY <1>1, <1>2, Candidates, SumTake
    <2>7. SumFunctionOnSet(both, rest) = SumFunctionOnSet(all, rest)
      <3>1. \A d \in rest : both[d] = all[d]
        BY <1>2, <2>1
      <3> HIDE DEF rest
      <3> QED BY <2>2, <3>1, SumAgrees
    <2>8. SumFunctionOnSet(all, rest) \in Nat
      <3>1. \A d \in rest : all[d] \in Nat
        BY <1>1, <1>2
      <3> HIDE DEF rest
      <3> QED BY <2>2, <3>1, SumNat
    <2>9. both[c] = 0 /\ all[c] = Cardinality(DOMAIN b)
      BY <1>2, <2>1
    <2> HIDE DEF rest, total
    <2> QED BY <1>1, <1>3, <2>4, <2>5, <2>6, <2>7, <2>8, <2>9
  <1>5. PICK c \in Candidate : TRUE
    BY AggregationAssumption
  <1>6. Gained(b)[c] + Lost(b)[c] \in Nat
    BY GainedArePoints
  <1> HIDE DEF total
  <1> QED BY <1>4, <1>6

(* A candidate that every other one beats does not have the most points.   *)
(* If it had, it would lose more than it gains, so would every candidate with*)
(* no more points, but all that is gained is lost by another one.          *)
LEMMA BeatenDoesNotLead ==
  ASSUME NEW b, Ballots(b), NEW c \in Candidate, Candidate # {c},
         \A d \in Candidate \ {c} :
           Cardinality(Preferring(b, c, d)) < Cardinality(Preferring(b, d, c))
  PROVE  c \notin Leading(b)
  <1> SUFFICES ASSUME \A d \in Candidate : Points(b)[d] <= Points(b)[c]
               PROVE  FALSE
    BY LeadingIs
  <1> DEFINE W == Gained(b)
             L == Lost(b)
  <1>1. \A d \in Candidate : W[d] \in Nat /\ L[d] \in Nat /\ W[d] <= W[c]
    BY GainedArePoints
  <1>2. SumFunctionOnSet(W, Candidate) = SumFunctionOnSet(L, Candidate)
    <2>1. Grid(Votes(b), Against(b), Candidate, Candidate)
      BY VotesAreNats DEF Grid
    <2>2. /\ RowSums(W, Votes(b), Candidate, Candidate)
          /\ RowSums(L, Against(b), Candidate, Candidate)
      BY DEF RowSums, Gained, Lost
    <2> QED BY <2>1, <2>2, Candidates, SumExchange
  <1>3. W[c] < L[c]
    <2> DEFINE f == Votes(b)[c]
               g == Against(b)[c]
    <2>1. \A d \in Candidate :
            /\ f[d] \in Nat /\ g[d] \in Nat
            /\ d # c => f[d] < g[d]
            /\ d = c => f[d] = g[d]
      BY VotesAreNats DEF Votes, Against
    <2>2. PICK y \in Candidate : y # c
      OBVIOUS
    <2>3. W[c] = SumFunctionOnSet(f, Candidate) /\ L[c] = SumFunctionOnSet(g, Candidate)
      BY DEF Gained, Lost
    <2> HIDE DEF f, g
    <2>4. /\ \A d \in Candidate : f[d] \in Nat /\ g[d] \in Nat /\ f[d] <= g[d]
          /\ f[y] < g[y]
      BY <2>1, <2>2
    <2>5. SumFunctionOnSet(f, Candidate) < SumFunctionOnSet(g, Candidate)
      BY <2>4, Candidates, SumLess
    <2> QED BY <2>3, <2>5
  <1>4. PICK n \in Nat : \A d \in Candidate : W[d] + L[d] = n
    BY EveryPairIsJudged
  <1> HIDE DEF W, L
  <1>5. \A d \in Candidate : W[d] \in Nat /\ L[d] \in Nat /\ W[d] < L[d]
    <2> SUFFICES ASSUME NEW d \in Candidate
                 PROVE  W[d] < L[d]
      BY <1>1
    <2>1. /\ W[d] + L[d] = n /\ W[c] + L[c] = n /\ W[d] <= W[c]
          /\ W[d] \in Nat /\ L[d] \in Nat /\ W[c] \in Nat /\ L[c] \in Nat
      BY <1>1, <1>4
    <2> QED BY <2>1, <1>3
  <1>6. SumFunctionOnSet(W, Candidate) < SumFunctionOnSet(L, Candidate)
    BY <1>5, Candidates, SumLess
  <1>7. SumFunctionOnSet(W, Candidate) \in Nat /\ SumFunctionOnSet(L, Candidate) \in Nat
    BY <1>5, Candidates, SumNat
  <1> QED BY <1>2, <1>6, <1>7

(* The entries tallied so far: each juror's ranking, abstention or refusal.*)
TallyTypeOK ==
  /\ DOMAIN judgment \subseteq Juror
  /\ judgment \in [DOMAIN judgment -> RankingOf \cup {Abstain, Invalid}]

(* The inputs of the tally keep their type.                                *)
LEMMA EntriesTyped == AggregationSpec => []TallyTypeOK
  <1>1. AggregationInit => TallyTypeOK
    BY DEF AggregationInit, TallyTypeOK
  <1>2. TallyTypeOK /\ [AggregationNext]_aggregationVars => TallyTypeOK'
    <2> SUFFICES ASSUME TallyTypeOK, [AggregationNext]_aggregationVars
                 PROVE  TallyTypeOK'
      OBVIOUS
    <2>1. ASSUME NEW j \in Juror, NEW b \in RankingOf \cup {Abstain, Invalid}, Tally(j, b)
          PROVE  TallyTypeOK'
      BY <2>1 DEF Tally, TallyTypeOK
    <2>2. CASE UNCHANGED aggregationVars
      BY <2>2 DEF aggregationVars, TallyTypeOK
    <2> QED BY <2>1, <2>2 DEF AggregationNext
  <1> QED BY <1>1, <1>2, PTL DEF AggregationSpec

(* The judgments counted are rankings, of finitely many jurors.            *)
LEMMA CountedAreBallots ==
  ASSUME TallyTypeOK
  PROVE  Ballots(Counted(judgment))
  <1>1. DOMAIN Counted(judgment) \in SUBSET Juror
    BY DEF Counted, TallyTypeOK
  <1>2. \A j \in DOMAIN Counted(judgment) : Counted(judgment)[j] \in RankingOf
    BY DEF Counted
  <1> QED BY <1>1, <1>2, AggregationAssumption, FS_Subset DEF Ballots

(* The reference counts the jurors that prefer one candidate to another.   *)
LEMMA PreferIs == \A c, d : Prefer(c, d) = Cardinality(Preferring(Counted(judgment), c, d))
  BY DEF Prefer, Preferring

(* The outcome of a tally: a winner is the only leader, a tie lists them all.*)
LEMMA DecidedIs ==
  ASSUME NEW b, Ballots(b)
  PROVE  /\ Leading(b) \subseteq Candidate
         /\ \A c \in Candidate : Decided(b).winner = c <=> Leading(b) = {c}
         /\ Decided(b).outcome \in {"winner", "tie"}
         /\ Decided(b).outcome = "winner" =>
              Decided(b).winner \in Leading(b) /\ Decided(b).tied = {}
         /\ Decided(b).outcome = "tie" =>
              Decided(b).winner = NoWinner /\ Decided(b).tied = Leading(b)
  <1>1. Leading(b) \subseteq Candidate /\ IsFiniteSet(Leading(b))
    <2>1. Leading(b) \subseteq Candidate
      BY LeadingIs
    <2> QED BY <2>1, Candidates, FS_Subset
  <1>2. CASE Cardinality(Leading(b)) = 1
    <2>1. PICK x : Leading(b) = {x}
      BY <1>1, <1>2, FS_Singleton
    <2>2. (CHOOSE c \in Candidate : c \in Leading(b)) = x
      BY <1>1, <2>1
    <2>3. Decided(b) = [outcome |-> "winner", tied |-> {}, winner |-> x]
      BY <1>2, <2>2 DEF Decided
    <2> QED BY <1>1, <2>1, <2>3
  <1>3. CASE Cardinality(Leading(b)) # 1
    <2>1. Decided(b) = [outcome |-> "tie", winner |-> NoWinner, tied |-> Leading(b)]
      BY <1>3 DEF Decided
    <2>2. \A c : Leading(b) # {c}
      BY <1>3, FS_Singleton
    <2> QED BY <1>1, <2>1, <2>2, AggregationAssumption
  <1> QED BY <1>2, <1>3

(* Without a counted ranking nobody wins and nobody is tied.               *)
LEMMA UndecidedIs ==
  \A o : /\ Undecided(o).outcome = o /\ Undecided(o).winner = NoWinner
         /\ Undecided(o).tied = {}
  BY DEF Undecided

(* The winner is the best by pairwise victories and then first places.     *)
LEMMA WinnerBest == TallyTypeOK => WinnerIsBest
  <1> DEFINE b == Counted(judgment)
             victories(c) == SumFunction([d \in Candidate \ {c} |-> Prefer(c, d)])
             firsts(c) == Cardinality({j \in DOMAIN b : Head(judgment[j]) = c})
             better(c, d) == \/ victories(c) > victories(d)
                             \/ victories(c) = victories(d) /\ firsts(c) > firsts(d)
  <1> SUFFICES ASSUME TallyTypeOK, NEW c \in Candidate, DOMAIN b # {}
               PROVE  aggregate_juries(judgment).winner = c
                        <=> \A d \in Candidate \ {c} : better(c, d)
    BY DEF WinnerIsBest
  <1>1. Ballots(b)
    BY CountedAreBallots
  <1>2. ASSUME NEW d \in Candidate
        PROVE  victories(d) = Points(b)[d]
    <2>1. [e \in Candidate \ {d} |-> Prefer(d, e)]
            = [e \in Candidate \ {d} |-> Cardinality(Preferring(b, d, e))]
      BY PreferIs
    <2> QED BY <1>1, <2>1, PointsAreVictories
  <1>3. ASSUME NEW d \in Candidate
        PROVE  firsts(d) = Wins(b)[d]
    <2>1. ASSUME NEW j \in DOMAIN b
          PROVE  Head(judgment[j]) = b[j][1]
      <3>1. b[j] = judgment[j] /\ judgment[j] \in RankingOf
        BY DEF Counted
      <3> QED BY <3>1, RankingIsSeq, Candidates
    <2>2. {j \in DOMAIN b : Head(judgment[j]) = d} = {j \in DOMAIN b : b[j][1] = d}
      BY <2>1
    <2> QED BY <2>2 DEF Wins
  <1>4. \A d \in Candidate : better(c, d) <=> Better(b, c, d)
    BY <1>2, <1>3 DEF Better
  <1>5. aggregate_juries(judgment) = Decided(b)
    BY DEF aggregate_juries
  <1> HIDE DEF better, b
  <1>6. Decided(b).winner = c <=> Leading(b) = {c}
    BY <1>1, DecidedIs
  <1>7. Leading(b) = {c} <=> \A d \in Candidate \ {c} : Better(b, c, d)
    BY <1>1, OneLeader
  <1> QED BY <1>4, <1>5, <1>6, <1>7

(* A candidate that every other one beats is not chosen.                   *)
LEMMA LoserLoses == TallyTypeOK => LoserNeverChosen
  <1> DEFINE b == Counted(judgment)
             agg == aggregate_juries(judgment)
  <1> SUFFICES ASSUME TallyTypeOK, NEW c \in Candidate, Candidate # {c},
                      \A d \in Candidate \ {c} : Prefer(c, d) < Prefer(d, c)
               PROVE  c # agg.winner /\ c \notin agg.tied
    BY DEF LoserNeverChosen
  <1>1. Ballots(b)
    BY CountedAreBallots
  <1>2. \A d \in Candidate \ {c} :
          Cardinality(Preferring(b, c, d)) < Cardinality(Preferring(b, d, c))
    BY PreferIs
  <1>3. CASE DOMAIN b # {}
    <2>1. agg = Decided(b)
      BY <1>3 DEF aggregate_juries
    <2>2. c \notin Leading(b)
      BY <1>1, <1>2, BeatenDoesNotLead
    <2> HIDE DEF b, agg
    <2> QED BY <1>1, <2>1, <2>2, DecidedIs, AggregationAssumption
  <1>4. CASE DOMAIN b = {}
    <2>1. agg.winner = NoWinner /\ agg.tied = {}
      BY <1>4, UndecidedIs DEF aggregate_juries
    <2> QED BY <2>1, AggregationAssumption
  <1> QED BY <1>3, <1>4

(* A ranking without c ranks c nowhere, and is the ranking itself when c is*)
(* no candidate.                                                           *)
LEMMA WithoutIs ==
  ASSUME NEW r \in RankingOf, NEW c
  PROVE  /\ Without(r, c) \in Seq(Candidate) /\ c \notin Range(Without(r, c))
         /\ c \notin Candidate => Without(r, c) = r
  <1>0. /\ r \in [1 .. Size -> Candidate] /\ DOMAIN r = 1 .. Size /\ Len(r) = Size
        /\ r \in Seq(Candidate) /\ Size \in Nat
    BY RankingIsSeq, Candidates
  <1>1. CASE c \in Range(r)
    <2>1. c \in Candidate
      BY <1>0, <1>1 DEF Range
    <2> DEFINE p == Position(r, c)
               w == [i \in 1 .. Size - 1 |-> IF i < p THEN r[i] ELSE r[i + 1]]
    <2>2. p \in 1 .. Size /\ \A i \in 1 .. Size : r[i] = c => i = p
      BY <2>1, RankingIsComplete
    <2>3. Without(r, c) = w
      BY <1>0, <1>1 DEF Without
    <2> HIDE DEF p
    <2>4. \A i \in 1 .. Size - 1 : w[i] \in Candidate /\ w[i] # c
      <3> SUFFICES ASSUME NEW i \in 1 .. Size - 1
                   PROVE  w[i] \in Candidate /\ w[i] # c
        OBVIOUS
      <3>1. i \in 1 .. Size /\ i + 1 \in 1 .. Size
        BY <1>0
      <3>2. CASE i < p
        BY <3>1, <3>2, <2>2, <1>0
      <3>3. CASE ~(i < p)
        <4>1. i + 1 # p
          BY <3>1, <3>3, <2>2, <1>0
        <4> QED BY <3>1, <3>3, <4>1, <2>2, <1>0
      <3> QED BY <3>2, <3>3
    <2>5. DOMAIN w = 1 .. Size - 1 /\ w = [i \in 1 .. Size - 1 |-> w[i]]
      OBVIOUS
    <2> HIDE DEF w
    <2>6. w \in [1 .. Size - 1 -> Candidate]
      BY <2>4, <2>5
    <2>7. Size - 1 \in Nat
      BY <1>0, Candidates
    <2>8. w \in Seq(Candidate)
      BY <2>6, <2>7
    <2>9. c \notin Range(w)
      BY <2>4, <2>5 DEF Range
    <2> QED BY <2>1, <2>3, <2>8, <2>9
  <1>2. CASE c \notin Range(r)
    BY <1>0, <1>2 DEF Without
  <1>3. c \notin Candidate => c \notin Range(r)
    BY <1>0 DEF Range
  <1> QED BY <1>0, <1>1, <1>2, <1>3 DEF Without

(* A candidate that is not ranked has no points.                           *)
LEMMA ScoreOfSeq ==
  ASSUME NEW s \in Seq(Candidate), NEW c
  PROVE  Score(s, c) \in Nat /\ (c \notin Range(s) => Score(s, c) = 0)
  <1>1. DOMAIN s = 1 .. Len(s) /\ Len(s) \in Nat
    OBVIOUS
  <1>2. CASE c \in Range(s)
    <2>1. Position(s, c) \in DOMAIN s
      BY <1>2 DEF Position, Range
    <2> QED BY <1>1, <1>2, <2>1 DEF Score
  <1>3. CASE c \notin Range(s)
    BY <1>3 DEF Score
  <1> QED BY <1>2, <1>3

(* What is counted without self-votes.                                     *)
LEMMA OthersIs ==
  ASSUME NEW judged, NEW k \in DOMAIN Others(judged)
  PROVE  /\ k \in DOMAIN judged /\ judged[k] \in RankingOf
         /\ Others(judged)[k] = Without(judged[k], k)
  BY DEF Others, Counted

(* Without self-votes, a candidate's points are those that the other jurors*)
(* give: the author's own shortened ranking adds nothing to them.          *)
LEMMA PointsOfOthers ==
  ASSUME NEW judged, IsFiniteSet(DOMAIN judged), NEW c \in Candidate
  PROVE  Points(Others(judged))[c] =
           SumFunctionOnSet([k \in DOMAIN Others(judged) |-> Score(Others(judged)[k], c)],
                            DOMAIN Others(judged) \ {c})
  <1> DEFINE D == DOMAIN Others(judged)
             f == [k \in D |-> Score(Others(judged)[k], c)]
             R == D \ {c}
  <1>1. IsFiniteSet(D)
    <2>1. D \in SUBSET DOMAIN judged
      BY OthersIs
    <2> HIDE DEF D
    <2> QED BY <2>1, FS_Subset
  <1>2. Points(Others(judged))[c] = SumFunctionOnSet(f, D)
    BY DEF Points, SumFunction
  <1>3. ASSUME NEW k \in D
        PROVE  f[k] \in Nat /\ (k = c => f[k] = 0)
    <2>1. /\ judged[k] \in RankingOf /\ Others(judged)[k] = Without(judged[k], k)
      BY OthersIs
    <2>2. Without(judged[k], k) \in Seq(Candidate) /\ k \notin Range(Without(judged[k], k))
      BY <2>1, WithoutIs
    <2> QED BY <2>1, <2>2, ScoreOfSeq
  <1>4. R \in SUBSET D /\ \A k \in D \ R : f[k] = 0
    BY <1>3
  <1>5. SumFunctionOnSet(f, D) = SumFunctionOnSet(f, R)
    <2> HIDE DEF D, f, R
    <2> QED BY <1>1, <1>3, <1>4, SumSkipsZeros
  <1> QED BY <1>2, <1>5

(* An author cannot move its own candidate's points by its ballot, and     *)
(* without authors among the jurors the two tallies agree.                 *)
LEMMA OwnVote == TallyTypeOK => OwnVoteInert
  <1> SUFFICES ASSUME TallyTypeOK
               PROVE  OwnVoteInert
    OBVIOUS
  <1> DEFINE b == Counted(judgment)
             recast(j, r) == [b EXCEPT ![j] = r]
  <1>1. IsFiniteSet(DOMAIN b) /\ IsFiniteSet(DOMAIN judgment)
    <2>1. IsFiniteSet(DOMAIN judgment)
      BY AggregationAssumption, FS_Subset DEF TallyTypeOK
    <2> QED BY <2>1, CountedAreBallots DEF Ballots
  <1>2. \A k \in DOMAIN b : /\ b[k] = judgment[k] /\ judgment[k] \in RankingOf
                            /\ k \in DOMAIN judgment
    BY DEF Counted
  <1>3. ASSUME NEW j \in DOMAIN b \cap Candidate, NEW r \in RankingOf
        PROVE  Points(Others(recast(j, r)))[j] = Points(Others(judgment))[j]
    <2> DEFINE new == recast(j, r)
               D1 == DOMAIN Others(new)
               D2 == DOMAIN Others(judgment)
               f1 == [k \in D1 |-> Score(Others(new)[k], j)]
               f2 == [k \in D2 |-> Score(Others(judgment)[k], j)]
    <2>1. /\ DOMAIN new = DOMAIN b /\ new[j] = r
          /\ \A k \in DOMAIN b : k # j => new[k] = judgment[k]
          /\ \A k \in DOMAIN b : new[k] \in RankingOf
      BY <1>2 DEF Counted
    <2> HIDE DEF new
    <2>2. D1 = {k \in DOMAIN b : Without(new[k], k) # <<>>}
      BY <2>1 DEF Others, Counted
    <2>3. D2 = {k \in DOMAIN b : Without(judgment[k], k) # <<>>}
      BY DEF Others
    <2> HIDE DEF b
    <2>4. D1 \ {j} = D2 \ {j}
      BY <2>1, <2>2, <2>3
    <2>5. ASSUME NEW k \in D1 \ {j}
          PROVE  f1[k] = f2[k]
      <3>1. k \in D1 /\ k \in D2 /\ k \in DOMAIN b /\ k # j
        BY <2>2, <2>4
      <3>2. Others(new)[k] = Without(new[k], k) /\ Others(judgment)[k] = Without(judgment[k], k)
        BY <3>1, OthersIs
      <3> QED BY <3>1, <3>2, <2>1
    <2>6. IsFiniteSet(D1 \ {j})
      BY <1>1, <2>2, FS_Subset
    <2>7. /\ Points(Others(new))[j] = SumFunctionOnSet(f1, D1 \ {j})
          /\ Points(Others(judgment))[j] = SumFunctionOnSet(f2, D2 \ {j})
      BY <1>1, <2>1, PointsOfOthers
    <2>8. SumFunctionOnSet(f1, D1 \ {j}) = SumFunctionOnSet(f2, D1 \ {j})
      <3> HIDE DEF D1, f1, f2
      <3> QED BY <2>5, <2>6, SumAgrees
    <2> QED BY <2>4, <2>7, <2>8 DEF new
  <1>4. ASSUME DOMAIN b \cap Candidate = {}
        PROVE  ~OutcomeChanges(judgment)
    <2>1. \A k \in DOMAIN b : Without(judgment[k], k) = judgment[k] /\ judgment[k] # <<>>
      <3> SUFFICES ASSUME NEW k \in DOMAIN b
                   PROVE  Without(judgment[k], k) = judgment[k] /\ judgment[k] # <<>>
        OBVIOUS
      <3>1. judgment[k] \in RankingOf /\ k \notin Candidate
        BY <1>2, <1>4
      <3>2. Len(judgment[k]) = Size /\ Size > 0
        BY <3>1, RankingIsSeq, Candidates
      <3> QED BY <3>1, <3>2, WithoutIs
    <2>2. Others(judgment) = b
      BY <2>1 DEF Others, Counted
    <2>3. CASE DOMAIN b # {}
      BY <2>2, <2>3 DEF OutcomeChanges, aggregate_juries, aggregate_excluding_self_votes
    <2>4. CASE DOMAIN b = {}
      <3>1. /\ aggregate_juries(judgment).winner = NoWinner
            /\ aggregate_juries(judgment).outcome # "tie"
        BY <2>4, UndecidedIs DEF aggregate_juries
      <3>2. /\ aggregate_excluding_self_votes(judgment).winner = NoWinner
            /\ aggregate_excluding_self_votes(judgment).outcome # "tie"
        BY <2>2, <2>4, UndecidedIs DEF aggregate_excluding_self_votes
      <3> QED BY <3>1, <3>2 DEF OutcomeChanges
    <2> QED BY <2>3, <2>4
  <1> QED BY <1>3, <1>4 DEF OwnVoteInert

(* After any entries in any order, the winner is the best by pairwise      *)
(* victories, a candidate every other one beats is neither winner nor tied,*)
(* and the tally without self-votes is out of the authors' hands (_tally and*)
(* aggregate_excluding_self_votes, protocol.py:961, 1074).                 *)
THEOREM TallyHoldsUp == AggregationSpec => []TallyDefensible
  <1>1. TallyTypeOK => TallyDefensible
    BY WinnerBest, LoserLoses, OwnVote DEF TallyDefensible
  <1> QED BY <1>1, EntriesTyped, PTL

-----------------------------------------------------------------------------
(* What an attempt can come back with.                                     *)
Outcome == {"refused", "unknown", "blank", "body"}

HttpTypeOK ==
  /\ attempt \in 1 .. AttemptsAllowed
  /\ post \in 1 .. MaxPosts
  /\ phase \in {"sending", "answered", "failed"}
  /\ error \in ProviderError
  /\ exchange \in Seq(Outcome)
  /\ adapter \in {"finish", "text"}

HttpInv == HttpTypeOK /\ NoBlindRepeat

(* An attempt is only made while no earlier one is in doubt.               *)
LEMMA NothingInDoubt ==
  ASSUME HttpInv, phase = "sending" \/ ~error.ambiguous
  PROVE  \A i \in DOMAIN exchange : exchange[i] \notin Doubtful
  BY DEF HttpInv, NoBlindRepeat

(* An outcome added to such an exchange is its only one in doubt, if the   *)
(* call then ends with an ambiguous error.                                 *)
LEMMA OneMore ==
  ASSUME HttpInv, phase = "sending", NEW what \in Outcome, Received(what),
         what \in Doubtful => phase' = "failed" /\ error'.ambiguous
  PROVE  exchange' \in Seq(Outcome) /\ NoBlindRepeat'
  <1>1. exchange \in Seq(Outcome) /\ exchange' = Append(exchange, what)
    BY DEF HttpInv, HttpTypeOK, Received
  <1>2. /\ exchange' \in Seq(Outcome) /\ Len(exchange') = Len(exchange) + 1
        /\ DOMAIN exchange' = 1 .. Len(exchange) + 1
        /\ DOMAIN exchange = 1 .. Len(exchange) /\ Len(exchange) \in Nat
        /\ \A i \in 1 .. Len(exchange) : exchange'[i] = exchange[i]
        /\ exchange'[Len(exchange) + 1] = what
    BY <1>1
  <1>3. \A i \in DOMAIN exchange : exchange[i] \notin Doubtful
    BY NothingInDoubt
  <1>4. ASSUME NEW i \in DOMAIN exchange', exchange'[i] \in Doubtful
        PROVE  i = Len(exchange')
    BY <1>2, <1>3, <1>4
  <1>5. ASSUME NEW i \in DOMAIN exchange', exchange'[i] \in Doubtful
        PROVE  phase' = "failed" /\ error'.ambiguous
    BY <1>2, <1>4, <1>5
  <1> QED BY <1>2, <1>4, <1>5 DEF NoBlindRepeat

(* HttpInv holds in every reachable state.                                 *)
THEOREM HttpInvHolds == HttpSpec => []HttpInv
  <1> USE HttpAssumption DEF ProviderError
  <1>1. HttpInit => HttpInv
    BY DEF HttpInit, HttpInv, HttpTypeOK, NoBlindRepeat, NoError, Outcome
  <1>2. HttpInv /\ [HttpNext]_httpVars => HttpInv'
    <2> SUFFICES ASSUME HttpInv, [HttpNext]_httpVars
                 PROVE  HttpInv'
      OBVIOUS
    <2>a. CASE UNCHANGED httpVars
      BY <2>a DEF httpVars, HttpInv, HttpTypeOK, NoBlindRepeat
    <2> SUFFICES ASSUME adapter' = adapter, HttpNext
                 PROVE  HttpInv'
      BY <2>a DEF HttpNext
    <2>1. ASSUME NEW s \in Status, ExplicitFailure(s)
          PROVE  HttpInv'
      <3>1. exchange' \in Seq(Outcome) /\ NoBlindRepeat'
        BY <2>1, OneMore DEF ExplicitFailure, Outcome, Doubtful
      <3>2. Classified(s) \in ProviderError
        BY DEF Classified, Definite, Retryable
      <3>3. CASE Raise(Classified(s))
        BY <3>1, <3>2, <3>3 DEF Raise, HttpInv, HttpTypeOK
      <3>4. CASE /\ MaySendAgain(Classified(s)) /\ attempt' = attempt + 1
                 /\ UNCHANGED <<post, phase, error>>
        BY <3>1, <3>4 DEF MaySendAgain, HttpInv, HttpTypeOK
      <3> QED BY <2>1, <3>3, <3>4 DEF ExplicitFailure
    <2>2. ASSUME NEW r \in BOOLEAN, TransportFails(r)
          PROVE  HttpInv'
      <3>1. exchange' \in Seq(Outcome) /\ NoBlindRepeat'
        BY <2>2, OneMore DEF TransportFails, Outcome, Raise, InDoubt
      <3> QED BY <2>2, <3>1 DEF TransportFails, Raise, InDoubt, HttpInv, HttpTypeOK
    <2>3. CASE Unreadable
      <3>1. exchange' \in Seq(Outcome) /\ NoBlindRepeat'
        BY <2>3, OneMore DEF Unreadable, Outcome, Raise, UnreadableError, InDoubt
      <3> QED BY <2>3, <3>1 DEF Unreadable, Raise, UnreadableError, InDoubt, HttpInv,
                            HttpTypeOK
    <2>4. ASSUME NEW finish \in {"stop", "length", "abnormal"}, NEW text \in {"none", "some"},
                 Answered(finish, text)
          PROVE  HttpInv'
      <3> DEFINE what == IF finish = "stop" /\ text = "none" THEN "blank" ELSE "body"
      <3>1. what \in Outcome
        BY DEF Outcome
      <3>2. Received(what) /\ phase = "sending"
        BY <2>4, Zenon DEF Answered
      <3>3. CASE finish = "stop" /\ text = "some" /\ phase' = "answered"
                 /\ UNCHANGED <<attempt, post, error>>
        <4>1. what \notin Doubtful
          BY <3>3 DEF Doubtful
        <4> HIDE DEF what
        <4>2. exchange' \in Seq(Outcome) /\ NoBlindRepeat'
          BY <3>1, <3>2, <4>1, OneMore
        <4> QED BY <3>3, <4>2 DEF HttpInv, HttpTypeOK
      <3>4. ASSUME NEW e \in ProviderError, BodyError(finish, text, e), Raise(e)
            PROVE  HttpInv'
        <4>1. what \in Doubtful => e.ambiguous
          <5> SUFFICES ASSUME finish = "stop", text = "none"
                       PROVE  e.ambiguous
            BY DEF Doubtful
          <5>1. e = InDoubt(FALSE)
            BY <3>4 DEF BodyError
          <5> QED BY <5>1 DEF InDoubt
        <4>2. what \in Doubtful => phase' = "failed" /\ error'.ambiguous
          BY <3>4, <4>1, Zenon DEF Raise
        <4> HIDE DEF what
        <4>3. exchange' \in Seq(Outcome) /\ NoBlindRepeat'
          BY <3>1, <3>2, <4>2, OneMore
        <4> QED BY <3>4, <4>3 DEF Raise, HttpInv, HttpTypeOK
      <3> QED BY <2>4, <3>3, <3>4 DEF Answered
    <2>5. CASE RepeatCall
      <3>1. \A i \in DOMAIN exchange : exchange[i] \notin Doubtful
        BY <2>5, NothingInDoubt DEF RepeatCall, MayRepeatCall
      <3>2. NoBlindRepeat'
        BY <2>5, <3>1 DEF RepeatCall, NoBlindRepeat
      <3> QED BY <2>5, <3>2 DEF RepeatCall, NoError, HttpInv, HttpTypeOK
    <2>6. ASSUME NEW r \in BOOLEAN, TransportRefuses(r)
          PROVE  HttpInv'
      <3>1. exchange' \in Seq(Outcome) /\ NoBlindRepeat'
        BY <2>6, OneMore DEF TransportRefuses, Outcome, Doubtful
      <3> QED BY <2>6, <3>1 DEF TransportRefuses, Raise, Definite, HttpInv, HttpTypeOK
    <2> QED BY <2>1, <2>2, <2>3, <2>4, <2>5, <2>6 DEF HttpNext
  <1> QED BY <1>1, <1>2, PTL DEF HttpSpec

(* Nothing is sent for a slot after a doubtful attempt: the loop of        *)
(* post_json only continues on an explicit refusal, every adapter calls a  *)
(* complete reply without text ambiguous, and a resumed run makes no new   *)
(* call after an ambiguous error.                                          *)
THEOREM NothingSentBlindly == HttpSpec => []NoBlindRepeat
  <1>1. HttpInv => NoBlindRepeat
    BY DEF HttpInv
  <1> QED BY <1>1, HttpInvHolds, PTL
=============================================================================
