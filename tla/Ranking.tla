------------------------------ MODULE Ranking ------------------------------
(***************************************************************************)
(* Why TraverseRule and TestRule come to an end, whatever the tokens are:  *)
(* the rules of a table can be ranked so that none calls one of its own    *)
(* rank, or a higher one, before a token has been consumed.                *)
(***************************************************************************)
EXTENDS RuleEngine

CONSTANTS
  Nullable, \* the rules that may answer True and have consumed nothing
  Rank      \* how many rules may wait for each other at one token below a rule

\* r may match nothing when the rules of N may: an option and a "zero or more" always,
\* a "one or more" when its lookahead fails.
MatchesNothing(r, N) ==
  \/ Kind(r) \in {"RepeatStar", "Options"}
  \/ Kind(r) = "RepeatDagger" /\ Lookahead(r) > 0
  \/ Kind(r) = "Select" /\ \E i \in 1..Len(Subs(r)) : Subs(r)[i] \in N
  \/ Kind(r) = "Sequence" /\ \A i \in 1..Len(Subs(r)) : Subs(r)[i] \in N

\* The i-th sub-rule of r may be called at the token that r was called at.
LeftCorner(r, i, N) == Kind(r) = "Select" \/ \A j \in 1..i - 1 : Subs(r)[j] \in N

ASSUME RankingAssumption ==
  /\ \A r \in RuleName : MatchesNothing(r, Nullable) => r \in Nullable
  /\ Rank \in [RuleName -> Nat]
  /\ \A r \in RuleName : Kind(r) # "Terminal" =>
       \A i \in 1..Len(Subs(r)) : LeftCorner(r, i, Nullable) => Rank[Subs(r)[i]] < Rank[r]

\* A repetition has something to consume.
ASSUME ConsumingAssumption ==
  \A r \in RuleName : Repeats(r) => \E i \in 1..Len(Subs(r)) : Subs(r)[i] \notin Nullable

-----------------------------------------------------------------------------

\* From position p the activation f has consumed a token since its backup, or is at a
\* sub-rule that may be called without.
Far(f, p) == p > f.tok_pos \/ LeftCorner(f.rule, f.i, Nullable)

\* Along the call stack the position grows, or else the rank falls; a rule outside
\* Nullable that has answered True has consumed a token.
Ranked ==
  /\ \A k \in 1..Len(frames) - 1 : Far(frames[k], frames[k + 1].pos0)
  /\ \A k, l \in 1..Len(frames) : k < l =>
       /\ frames[k].pos0 <= frames[l].pos0
       /\ frames[k].pos0 = frames[l].pos0 => Rank[frames[l].rule] < Rank[frames[k].rule]
  /\ IF Top.phase = "ret" THEN Top.res /\ Top.rule \notin Nullable => cur_tok_ > Top.pos0
     ELSE Far(Top, cur_tok_)
=============================================================================
