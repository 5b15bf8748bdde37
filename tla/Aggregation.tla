----------------------------- MODULE Aggregation ----------------------------
(***************************************************************************)
(* The deterministic part of the council's verdict (protocol.py): the      *)
(* Borda tally of the juries and the same tally without the jurors' own    *)
(* candidates.  A candidate is named by its author, so Candidate is a set  *)
(* of jurors.                                                              *)
(***************************************************************************)
EXTENDS Naturals, Sequences, FiniteSetsExt, Functions

CONSTANTS
  Juror, Candidate,
  Abstain,    \* a valid judgment that abstains
  Invalid,    \* an entry parse_jury or _validate_jury_object refuses
  NoWinner

ASSUME AggregationAssumption ==
  /\ IsFiniteSet(Juror) /\ Candidate \subseteq Juror /\ Candidate # {}
  /\ NoWinner \notin Candidate

(* _validate_jury_decision: every candidate label exactly once.            *)
RankingOf ==
  {r \in [1 .. Cardinality(Candidate) -> Candidate] : IsInjective(r)}

VARIABLE judgment   \* the entries tallied so far, by juror

aggregationVars == <<judgment>>

AggregationInit == judgment = <<>>

(* One turn of the loop over the entries; the order is the caller's.       *)
Tally(j, b) ==
  /\ j \notin DOMAIN judgment
  /\ judgment' = [k \in DOMAIN judgment \cup {j} |->
                    IF k = j THEN b ELSE judgment[k]]

AggregationNext ==
  \E j \in Juror, b \in RankingOf \cup {Abstain, Invalid} : Tally(j, b)

AggregationSpec == AggregationInit /\ [][AggregationNext]_aggregationVars

-----------------------------------------------------------------------------
(* The Borda rule, over the counted rankings of a set of jurors.           *)
Position(r, c) == CHOOSE i \in DOMAIN r : r[i] = c

Score(r, c) == IF c \in Range(r) THEN Len(r) - Position(r, c) ELSE 0

Points(ballots) ==
  [c \in Candidate |->
     SumFunction([j \in DOMAIN ballots |-> Score(ballots[j], c)])]

Wins(ballots) ==
  [c \in Candidate |->
     Cardinality({j \in DOMAIN ballots : ballots[j][1] = c})]

Highest(f, S) == {c \in S : \A d \in S : f[d] <= f[c]}

(* The point leaders with the most first places.                           *)
Leading_PointsOnly(ballots) == Highest(Points(ballots), Candidate)
Leading(ballots) ==
  Highest(Wins(ballots), Highest(Points(ballots), Candidate))

Counted(judged) ==
  [j \in {k \in DOMAIN judged : judged[k] \in RankingOf} |-> judged[j]]

(* The aggregate: the outcome, the winner and the tied candidates.         *)
Decided(ballots) ==
  IF Cardinality(Leading(ballots)) = 1
  THEN [outcome |-> "winner", tied |-> {},
        winner |-> CHOOSE c \in Candidate : c \in Leading(ballots)]
  ELSE [outcome |-> "tie", winner |-> NoWinner, tied |-> Leading(ballots)]

Undecided(outcome) == [outcome |-> outcome, winner |-> NoWinner, tied |-> {}]

aggregate_juries(judged) ==
  IF DOMAIN Counted(judged) # {} THEN Decided(Counted(judged))
  ELSE Undecided(IF \E j \in DOMAIN judged : judged[j] = Abstain
                 THEN "abstained" ELSE "invalid")

(* A ranking without one candidate: those behind it move up.               *)
Without(r, c) ==
  IF c \in Range(r)
  THEN [i \in 1 .. Len(r) - 1 |-> IF i < Position(r, c) THEN r[i] ELSE r[i + 1]]
  ELSE r

(* The tally without the jurors' own candidates.  A ranking with nothing   *)
(* left is not counted.                                                    *)
Others_KeepOwn(judged) == Counted(judged)
Others(judged) ==
  LET rest(j) == Without(judged[j], j)
  IN  [j \in {k \in DOMAIN Counted(judged) : rest(k) # <<>>} |-> rest(j)]

aggregate_excluding_self_votes(judged) ==
  IF DOMAIN Others(judged) # {} THEN Decided(Others(judged))
  ELSE Undecided("no_counted_judgments")

(* self_vote_report: does the exclusion change the winner or the tie?      *)
OutcomeChanges(judged) ==
  LET with == aggregate_juries(judged)
      without == aggregate_excluding_self_votes(judged)
  IN  <<with.winner, with.outcome = "tie">>
        # <<without.winner, without.outcome = "tie">>

-----------------------------------------------------------------------------
(* The reference: c is preferred to d by that many counted rankings.       *)
Prefer(c, d) ==
  LET ballots == Counted(judgment)
  IN  Cardinality({j \in DOMAIN ballots :
        Position(ballots[j], c) < Position(ballots[j], d)})

(* Judged by its pairwise victories and then its first places, the winner  *)
(* is better than every other candidate, and a candidate that is so wins.  *)
WinnerIsBest ==
  LET victories(c) == SumFunction([d \in Candidate \ {c} |-> Prefer(c, d)])
      firsts(c) == Cardinality({j \in DOMAIN Counted(judgment) :
                                  Head(judgment[j]) = c})
      better(c, d) == \/ victories(c) > victories(d)
                      \/ victories(c) = victories(d) /\ firsts(c) > firsts(d)
  IN  \A c \in Candidate :
        DOMAIN Counted(judgment) # {} =>
          (aggregate_juries(judgment).winner = c
             <=> \A d \in Candidate \ {c} : better(c, d))

(* A candidate that loses to every other one is neither the winner nor     *)
(* among the tied, whatever its first places.                              *)
LoserNeverChosen ==
  LET agg == aggregate_juries(judgment)
      beaten(c) ==
        Candidate # {c} /\ \A d \in Candidate \ {c} : Prefer(c, d) < Prefer(d, c)
  IN  \A c \in Candidate :
        beaten(c) => c # agg.winner /\ c \notin agg.tied

(* Without self-votes an author's ballot cannot move its own candidate's   *)
(* points, and without authors on the jury nothing changes.                *)
OwnVoteInert ==
  LET ballots == Counted(judgment)
      recast(j, r) == [ballots EXCEPT ![j] = r]
  IN  /\ \A j \in DOMAIN ballots \cap Candidate, r \in RankingOf :
           Points(Others(recast(j, r)))[j] = Points(Others(judgment))[j]
      /\ DOMAIN ballots \cap Candidate = {} => ~OutcomeChanges(judgment)

(* The tally holds up against its ballots, in every order they come in and *)
(* with any mix of abstentions and refused entries: the winner is the best *)
(* by pairwise victories, a candidate every other one beats is never       *)
(* chosen, and the tally without self-votes is out of the authors' own     *)
(* hands (protocol.py:961, 1074).                                          *)
TallyDefensible == WinnerIsBest /\ LoserNeverChosen /\ OwnVoteInert
=============================================================================
