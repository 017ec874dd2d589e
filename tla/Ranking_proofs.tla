--------------------------- MODULE Ranking_proofs ---------------------------
(***************************************************************************)
(* Proofs about RuleEngine on every rule table that has ranks: no rule     *)
(* calls itself before it has consumed a token and every iteration of a    *)
(* repetition consumes one.                                                *)
(***************************************************************************)
EXTENDS Ranking, RuleEngine_proofs

\* A sub-rule that may be called at the token its caller was called at has a lower rank.
LEMMA RankFalls ==
  ASSUME NEW r \in RuleName, Kind(r) # "Terminal", NEW i \in 1..Len(Subs(r)),
         LeftCorner(r, i, Nullable)
  PROVE  /\ Rank[Subs(r)[i]] \in Nat /\ Rank[r] \in Nat /\ Rank[Subs(r)[i]] < Rank[r]
<1>1. Subs(r)[i] \in RuleName
  BY RuleType
<1> QED BY <1>1, RankingAssumption

\* Ranks are numbers.
LEMMA RankType ==
  ASSUME NEW f \in Frame
  PROVE  f.rule \in RuleName /\ Rank[f.rule] \in Nat /\ f.pos0 \in Nat /\ f.tok_pos \in Nat
BY RankingAssumption DEF Frame

\* The first sub-rule is always a left corner.
LEMMA FarAtFirst ==
  ASSUME NEW f, f.i = 1, NEW p
  PROVE  Far(f, p)
BY DEF Far, LeftCorner

\* A call preserves the ranks.
LEMMA PushRanked ==
  ASSUME IInv, Ranked, NEW f \in Frame, Calls(Top, f), f.phase # "ret", f.i = 1,
         f.tok_pos = cur_tok_, f.pos0 = cur_tok_,
         frames' = Append(frames, f), UNCHANGED cur_tok_
  PROVE  Ranked'
<1> DEFINE n == Len(frames)
<1>1. /\ Len(frames') = n + 1
      /\ \A k \in 1..n : frames'[k] = frames[k]
      /\ frames'[n + 1] = f
  BY Pushed DEF IInv, TypeOK
<1>2. n \in Nat \ {0} /\ \A k \in 1..n : frames[k] \in Frame
  BY Typed DEF IInv
<1>3. cur_tok_ \in Nat /\ Top.phase # "ret" /\ Far(Top, cur_tok_) /\ Top = frames[n]
  BY Typed DEF IInv, Calls, Ranked, Top
<1>4. ASSUME NEW k \in 1..n PROVE Far(frames'[k], frames'[k + 1].pos0)
  <2>1. CASE k = n
    BY <2>1, <1>1, <1>2, <1>3
  <2>2. CASE k < n
    BY <2>2, <1>1, <1>2 DEF Ranked
  <2> QED BY <2>1, <2>2, <1>2
<1>5. Top.pos0 <= cur_tok_ /\ (Top.pos0 = cur_tok_ => Rank[f.rule] < Rank[Top.rule])
  <2>1. Top \in Frame /\ Top.rule \in RuleName /\ Top.i \in 1..Len(Subs(Top.rule))
    BY TopFacts
  <2>2. Top.pos0 <= Top.tok_pos /\ Top.tok_pos <= cur_tok_
    BY <1>2 DEF IInv, Positions, Top
  <2>3. Top.pos0 \in Nat /\ Top.tok_pos \in Nat
    BY <2>1, RankType
  <2>4. ASSUME Top.pos0 = cur_tok_ PROVE Rank[f.rule] < Rank[Top.rule]
    <3>1. ~(cur_tok_ > Top.tok_pos)
      BY <2>2, <2>3, <2>4, <1>3
    <3>2. LeftCorner(Top.rule, Top.i, Nullable)
      BY <3>1, <1>3 DEF Far
    <3> QED BY <3>2, <2>1, RankFalls DEF Calls
  <2> QED BY <2>2, <2>3, <2>4, <1>3
<1>6. ASSUME NEW k \in 1..n + 1, NEW l \in 1..n + 1, k < l
      PROVE  /\ frames'[k].pos0 <= frames'[l].pos0
             /\ frames'[k].pos0 = frames'[l].pos0 =>
                  Rank[frames'[l].rule] < Rank[frames'[k].rule]
  <2>1. CASE l <= n
    BY <2>1, <1>1, <1>2, <1>6 DEF Ranked
  <2>2. CASE l = n + 1 /\ k = n
    BY <2>2, <1>1, <1>3, <1>5
  <2>3. CASE l = n + 1 /\ k < n
    <3>1. /\ frames[k].pos0 <= Top.pos0
          /\ frames[k].pos0 = Top.pos0 => Rank[Top.rule] < Rank[frames[k].rule]
      BY <2>3, <1>2, <1>3 DEF Ranked
    <3>2. /\ frames[k] \in Frame /\ Top \in Frame
          /\ frames'[k] = frames[k] /\ frames'[l] = f
      BY <2>3, <1>1, <1>2, <1>3
    <3>3. /\ frames[k].pos0 \in Nat /\ Top.pos0 \in Nat /\ Rank[f.rule] \in Nat
          /\ Rank[Top.rule] \in Nat /\ Rank[frames[k].rule] \in Nat
      BY <3>2, RankType
    <3> QED BY <3>1, <3>2, <3>3, <1>3, <1>5
  <2> QED BY <2>1, <2>2, <2>3, <1>2, <1>6
<1>7. Top' = f /\ Far(f, cur_tok_')
  BY <1>1, FarAtFirst DEF Top
<1> QED BY <1>1, <1>4, <1>6, <1>7 DEF Ranked, Far

\* A frame f that takes the place of frames[m + 1] and of all above it preserves the
\* ranks, when it is Far or has answered.
LEMMA RewriteRanked ==
  ASSUME IInv, Ranked, NEW f \in Frame, NEW m \in 0..Len(frames) - 1,
         f.rule = frames[m + 1].rule, f.pos0 = frames[m + 1].pos0,
         IF f.phase = "ret" THEN f.res /\ f.rule \notin Nullable => cur_tok_' > f.pos0
         ELSE Far(f, cur_tok_'),
         frames' = Append(SubSeq(frames, 1, m), f)
  PROVE  Ranked'
<1>1. Len(frames) \in Nat \ {0} /\ frames \in Seq(Frame)
  BY Typed DEF IInv
<1>2. /\ Len(frames') = m + 1
      /\ \A k \in 1..m : frames'[k] = frames[k]
      /\ frames'[m + 1] = f
  <2>1. m \in 0..Len(frames)
    BY <1>1
  <2> QED BY <1>1, <2>1, CutBack
<1>3. \A k \in 1..m + 1 : /\ frames'[k].pos0 = frames[k].pos0
                          /\ frames'[k].rule = frames[k].rule
  BY <1>2
<1>4. ASSUME NEW k \in 1..m PROVE Far(frames'[k], frames'[k + 1].pos0)
  <2>1. k \in 1..Len(frames) - 1 /\ k + 1 \in 1..m + 1 /\ frames'[k] = frames[k]
    BY <1>1, <1>2
  <2> QED BY <2>1, <1>3 DEF Ranked
<1>5. ASSUME NEW k \in 1..m + 1, NEW l \in 1..m + 1, k < l
      PROVE  /\ frames'[k].pos0 <= frames'[l].pos0
             /\ frames'[k].pos0 = frames'[l].pos0 =>
                  Rank[frames'[l].rule] < Rank[frames'[k].rule]
  <2>1. k \in 1..Len(frames) /\ l \in 1..Len(frames)
    BY <1>1
  <2> QED BY <2>1, <1>3, <1>5 DEF Ranked
<1>6. Top' = f
  BY <1>2 DEF Top
<1> QED BY <1>2, <1>4, <1>5, <1>6 DEF Ranked, Far

\* The caller goes on as f.
LEMMA ResumeRanked ==
  ASSUME IInv, Ranked, HasCaller, NEW f \in Frame, f.rule = Caller.rule, f.pos0 = Caller.pos0,
         IF f.phase = "ret" THEN f.res /\ f.rule \notin Nullable => cur_tok_' > f.pos0
         ELSE Far(f, cur_tok_'),
         frames' = Resume(f)
  PROVE  Ranked'
<1> DEFINE m == Len(frames) - 2
<1>1. m \in 0..Len(frames) - 1 /\ m + 1 = Len(frames) - 1
  BY CallerFacts
<1>2. frames' = Append(SubSeq(frames, 1, m), f)
  BY DEF Resume, Callers
<1>3. f.rule = frames[m + 1].rule /\ f.pos0 = frames[m + 1].pos0
  BY <1>1 DEF Caller
<1> HIDE DEF m
<1> QED BY <1>1, <1>2, <1>3, RewriteRanked

\* An assert, or the end of the parse, leaves the activations as they are.
LEMMA StillRanked ==
  ASSUME Ranked, UNCHANGED <<cur_tok_, frames>>
  PROVE  Ranked'
<1>1. Top' = Top
  BY DEF Top
<1> QED BY <1>1 DEF Ranked, Far

-----------------------------------------------------------------------------
(* What a callee that has answered tells its caller                         *)

\* When a sub-rule has matched, a token has been consumed since the caller's backup, or
\* all sub-rules so far may match nothing.
LEMMA Matched ==
  ASSUME IInv, Ranked, HasCaller, Top.phase = "ret", Top.res
  PROVE  \/ cur_tok_ > Caller.tok_pos
         \/ /\ LeftCorner(Caller.rule, Caller.i, Nullable)
            /\ Subs(Caller.rule)[Caller.i] \in Nullable
<1>1. /\ Len(frames) \in Nat /\ Len(frames) > 1 /\ cur_tok_ \in Nat /\ Caller \in Frame
      /\ Top.rule = Subs(Caller.rule)[Caller.i]
  BY CallerFacts DEF Calls
<1>2. Top \in Frame
  BY TopFacts
<1>3. Far(Caller, Top.pos0)
  BY <1>1 DEF Ranked, Caller, Top
<1>4. Caller.tok_pos <= Top.pos0 /\ Top.pos0 <= Top.tok_pos /\ Top.tok_pos <= cur_tok_
  BY <1>1 DEF IInv, Positions, Caller, Top
<1>5. /\ Caller.tok_pos \in Nat /\ Top.pos0 \in Nat /\ Top.tok_pos \in Nat
  BY <1>1, <1>2, RankType
<1>6. CASE Top.rule \notin Nullable
  <2>1. cur_tok_ > Top.pos0
    BY <1>6 DEF Ranked
  <2> QED BY <2>1, <1>1, <1>4, <1>5
<1>7. CASE Top.rule \in Nullable
  <2>1. CASE Top.pos0 > Caller.tok_pos
    BY <2>1, <1>1, <1>4, <1>5
  <2>2. CASE LeftCorner(Caller.rule, Caller.i, Nullable)
    BY <2>2, <1>1, <1>7
  <2> QED BY <2>1, <2>2, <1>3 DEF Far
<1> QED BY <1>6, <1>7

\* The caller goes on to its next sub-rule.
LEMMA NextRanked ==
  ASSUME IInv, Ranked, HasCaller, Top.phase = "ret",
         ~AtLast \/ Caller.phase = "look", Caller.phase # "ret",
         Kind(Caller.rule) = "Select" \/ (Top.res /\ UNCHANGED cur_tok_),
         frames' = Resume([Caller EXCEPT !.i = @ + 1])
  PROVE  Ranked'
<1> DEFINE f == [Caller EXCEPT !.i = @ + 1]
<1>1. /\ f \in Frame /\ f.rule = Caller.rule /\ f.pos0 = Caller.pos0
      /\ f.tok_pos = Caller.tok_pos /\ f.phase = Caller.phase /\ f.i = Caller.i + 1
  BY NextSub
<1>2. frames' = Resume(f)
  OBVIOUS
<1> HIDE DEF f
<1>3. Caller.i \in Nat
  BY CallerFacts DEF Frame
<1>4. Far(f, cur_tok_')
  <2>1. CASE Kind(Caller.rule) = "Select"
    BY <2>1, <1>1 DEF Far, LeftCorner
  <2>2. CASE Top.res /\ UNCHANGED cur_tok_
    BY <2>2, <1>1, <1>3, Matched DEF Far, LeftCorner
  <2> QED BY <2>1, <2>2
<1> QED BY <1>1, <1>2, <1>4, ResumeRanked

\* The caller begins again at its first sub-rule.
LEMMA FirstRanked ==
  ASSUME IInv, Ranked, HasCaller, NEW f \in Frame, f.rule = Caller.rule,
         f.pos0 = Caller.pos0, f.i = 1, f.phase # "ret", frames' = Resume(f)
  PROVE  Ranked'
BY FarAtFirst, ResumeRanked

\* The caller returns: False, or True although nothing has been consumed, ...
LEMMA NothingRanked ==
  ASSUME IInv, Ranked, HasCaller, NEW res \in BOOLEAN,
         res => Caller.rule \in Nullable, frames' = Resume(Return(Caller, res))
  PROVE  Ranked'
<1>1. Caller \in Frame
  BY CallerFacts
<1> DEFINE f == Return(Caller, res)
<1>2. f \in Frame /\ f.rule = Caller.rule /\ f.pos0 = Caller.pos0 /\ f.phase = "ret"
      /\ f.res = res
  BY <1>1, Returned
<1>3. frames' = Resume(f)
  OBVIOUS
<1> HIDE DEF f
<1> QED BY <1>2, <1>3, ResumeRanked

\* ... or True because its last sub-rule, or an alternative, has matched.
LEMMA MatchRanked ==
  ASSUME IInv, Ranked, HasCaller, Top.phase = "ret", Top.res,
         AtLast \/ Kind(Caller.rule) = "Select", Kind(Caller.rule) \in {"Select", "Sequence"},
         frames' = Resume(Return(Caller, TRUE)), UNCHANGED cur_tok_
  PROVE  Ranked'
<1> DEFINE r == Caller.rule
<1>1. /\ Caller \in Frame /\ r \in RuleName /\ Caller.tok_pos >= Caller.pos0
      /\ cur_tok_ \in Nat /\ FrameOK(Caller)
  BY CallerFacts, RankType DEF Backup
<1>2. Caller.pos0 \in Nat /\ Caller.tok_pos \in Nat
  BY <1>1, RankType
<1>3. Caller.i \in 1..Len(Subs(r)) /\ Len(Subs(r)) \in Nat
  BY <1>1, RuleType DEF FrameOK, Frame
<1> DEFINE f == Return(Caller, TRUE)
<1>4. f \in Frame /\ f.rule = r /\ f.pos0 = Caller.pos0 /\ f.phase = "ret"
  BY <1>1, Returned
<1>5. frames' = Resume(f)
  OBVIOUS
<1> HIDE DEF f
<1>6. ASSUME r \notin Nullable PROVE cur_tok_ > Caller.tok_pos
  <2>1. ~MatchesNothing(r, Nullable)
    BY <1>1, <1>6, RankingAssumption
  <2>2. CASE Kind(r) = "Select"
    <3>1. Subs(r)[Caller.i] \notin Nullable
      BY <2>1, <2>2, <1>3 DEF MatchesNothing
    <3> QED BY <3>1, Matched
  <2>3. CASE Kind(r) = "Sequence"
    <3>1. Caller.i = Len(Subs(r)) /\ Kind(r) # "Select"
      BY <2>3 DEF AtLast
    <3>2. PICK j \in 1..Len(Subs(r)) : Subs(r)[j] \notin Nullable
      BY <2>1, <2>3 DEF MatchesNothing
    <3>3. CASE j = Caller.i
      BY <3>2, <3>3, Matched
    <3>4. CASE j \in 1..Caller.i - 1
      BY <3>1, <3>2, <3>4, Matched DEF LeftCorner
    <3> QED BY <3>1, <3>3, <3>4, <1>3
  <2> QED BY <2>2, <2>3
<1>7. r \notin Nullable => cur_tok_' > f.pos0
  BY <1>1, <1>2, <1>4, <1>6
<1> QED BY <1>4, <1>5, <1>7, ResumeRanked

\* A token rule answers: True behind the token, False at it.
LEMMA AnswerRanked ==
  ASSUME IInv, Ranked, Top.phase = "body", Kind(Top.rule) = "Terminal", NEW res \in BOOLEAN,
         frames' = Append(BelowTop, Return(Top, res)),
         cur_tok_' = IF res THEN cur_tok_ + 1 ELSE cur_tok_
  PROVE  Ranked'
<1> DEFINE m == Len(frames) - 1
           f == Return(Top, res)
<1>1. Len(frames) \in Nat \ {0} /\ Top \in Frame /\ cur_tok_ \in Nat
  BY Typed DEF IInv
<1>2. m \in 0..Len(frames) - 1 /\ frames[m + 1] = Top
  BY <1>1 DEF Top
<1>3. cur_tok_ = Top.pos0
  BY DEF IInv, Positions
<1>4. f \in Frame /\ f.rule = Top.rule /\ f.pos0 = Top.pos0 /\ f.phase = "ret" /\ f.res = res
  BY <1>1, Returned
<1>5. f.res => cur_tok_' > f.pos0
  BY <1>1, <1>3, <1>4
<1>6. frames' = Append(SubSeq(frames, 1, m), f)
  BY DEF BelowTop
<1> HIDE DEF m, f
<1> QED BY <1>2, <1>4, <1>5, <1>6, RewriteRanked

-----------------------------------------------------------------------------
(* The steps                                                                *)

\* Calls, for a lookahead and for a sub-rule.
LEMMA CallRanked ==
  ASSUME IInv, Ranked, LookAhead \/ Descend
  PROVE  Ranked'
<1> DEFINE r == Subs(Top.rule)[Top.i]
<1>1. /\ cur_tok_ \in Nat /\ r \in RuleName /\ Top.test \in BOOLEAN /\ Top.ut \in BOOLEAN
      /\ ChecksUserType(Top.rule) \in BOOLEAN
  BY Typed, TopFacts DEF IInv, ChecksUserType
<1>2. SUFFICES ASSUME NEW test \in BOOLEAN, NEW ut \in BOOLEAN,
                      test = (Top.test \/ Top.phase = "look"),
                      Top.phase # "ret", Kind(Top.rule) # "Terminal",
                      frames' = Append(frames, NewFrame(r, test, ut)), UNCHANGED cur_tok_
               PROVE  Ranked'
  <2>1. CASE LookAhead
    <3>1. TRUE = (Top.test \/ Top.phase = "look")
      BY <2>1 DEF LookAhead
    <3> QED BY <2>1, <3>1, <1>1, <1>2, TopFacts DEF LookAhead
  <2>2. CASE Descend
    <3>1. Top.test = (Top.test \/ Top.phase = "look")
      <4>1. Top.phase # "look"
        BY <2>2 DEF Descend
      <4>2. CASE Top.test = TRUE
        BY <4>2
      <4>3. CASE Top.test = FALSE
        BY <4>1, <4>3
      <4> QED BY <4>2, <4>3, <1>1
    <3> QED BY <2>2, <3>1, <1>1, <1>2 DEF Descend
  <2> QED BY <2>1, <2>2
<1> DEFINE f == NewFrame(r, test, ut)
<1>3. /\ f \in Frame /\ f.rule = r /\ f.test = test /\ f.phase # "ret"
      /\ f.tok_pos = cur_tok_ /\ f.pos0 = cur_tok_
  BY <1>1, Called
<1>4. f.i = 1
  BY DEF NewFrame
<1>5. Calls(Top, f) /\ frames' = Append(frames, f)
  BY <1>2, <1>3 DEF Calls
<1> HIDE DEF f
<1> QED BY <1>2, <1>3, <1>4, <1>5, PushRanked

\* A rule that repeats or is optional may match nothing, and so may every rule whose
\* lookahead can fail without failing it.
LEMMA OptionalRules ==
  ASSUME NEW r \in RuleName
  PROVE  /\ Kind(r) \in {"RepeatStar", "Options"} => r \in Nullable
         /\ Kind(r) = "RepeatDagger" /\ Lookahead(r) > 0 => r \in Nullable
BY RankingAssumption DEF MatchesNothing

\* A lookahead has answered.
LEMMA LookRanked ==
  ASSUME IInv, Ranked, LookaheadTrue \/ LookaheadFalse
  PROVE  Ranked'
<1>1. /\ HasCaller /\ Caller.phase = "look" /\ Top.phase = "ret"
      /\ Caller \in Frame /\ Caller.rule \in RuleName /\ FrameOK(Caller)
  BY CallerFacts DEF LookaheadTrue, LookaheadFalse, Looked
<1>2. Lookahead(Caller.rule) > 0
  <2>1. Caller.i \in Nat \ {0} /\ Caller.i <= Lookahead(Caller.rule)
        /\ Lookahead(Caller.rule) \in Nat
    BY <1>1, RuleType DEF FrameOK, Frame
  <2> QED BY <2>1
<1>3. CASE LookaheadFalse
  <2>1. (Kind(Caller.rule) # "Sequence") \in BOOLEAN
    OBVIOUS
  <2>2. Kind(Caller.rule) # "Sequence" => Caller.rule \in Nullable
    <3>1. Kind(Caller.rule) \in Kinds
      BY <1>1, RuleType
    <3>2. Kind(Caller.rule) \notin {"Select", "Terminal"}
      BY <1>2 DEF Lookahead
    <3> QED BY <1>1, <1>2, <3>1, <3>2, OptionalRules DEF Kinds
  <2>3. frames' = Resume(Return(Caller, Kind(Caller.rule) # "Sequence"))
    BY <1>3 DEF LookaheadFalse
  <2> QED BY <1>1, <2>1, <2>2, <2>3, NothingRanked
<1>4. CASE LookaheadTrue /\ Caller.i < Lookahead(Caller.rule)
  <2>1. /\ Top.res /\ UNCHANGED cur_tok_
        /\ frames' = Resume([Caller EXCEPT !.i = @ + 1])
    BY <1>4 DEF LookaheadTrue, Looked
  <2> QED BY <1>1, <2>1, NextRanked
<1>5. CASE LookaheadTrue /\ ~(Caller.i < Lookahead(Caller.rule))
  <2> DEFINE h == [Caller EXCEPT !.phase = "body"]
             f == [Caller EXCEPT !.phase = "body", !.i = 1]
  <2>1. h \in Frame /\ h.rule = Caller.rule /\ h.pos0 = Caller.pos0 /\ h.phase = "body"
    BY <1>1 DEF Frame, Phases
  <2>2. f = [h EXCEPT !.i = 1]
    OBVIOUS
  <2>3. frames' = Resume(f)
    BY <1>5 DEF LookaheadTrue
  <2> HIDE DEF h, f
  <2>4. f \in Frame /\ f.rule = Caller.rule /\ f.pos0 = Caller.pos0 /\ f.phase = "body"
        /\ f.i = 1
    BY <2>1, <2>2 DEF Frame
  <2> QED BY <1>1, <2>3, <2>4, FirstRanked
<1> QED BY <1>3, <1>4, <1>5

\* A token rule looks at the current token.
LEMMA TerminalRanked ==
  ASSUME IInv, Ranked, TerminalMatch \/ TerminalMismatch \/ TestTerminal
  PROVE  Ranked'
<1>1. Top.phase = "body" /\ Kind(Top.rule) = "Terminal"
  BY DEF TerminalMatch, TerminalMismatch, TestTerminal
<1>2. CASE TerminalMatch
  <2>1. SUFFICES ASSUME frames' = Append(BelowTop, Return(Top, TRUE)), cur_tok_' = cur_tok_ + 1
                 PROVE  Ranked'
    BY <1>2, StillRanked DEF TerminalMatch, RunAction
  <2> QED BY <1>1, <2>1, AnswerRanked
<1>3. CASE TerminalMismatch
  <2>1. SUFFICES ASSUME frames' = Append(BelowTop, Return(Top, FALSE)), cur_tok_' = cur_tok_
                 PROVE  Ranked'
    BY <1>3, StillRanked DEF TerminalMismatch, RunFail
  <2> QED BY <1>1, <2>1, AnswerRanked
<1>4. CASE TestTerminal
  <2> DEFINE match == Tok.type = Subs(Top.rule)[1] /\ (Top.ut => HasType(ac_, Tok))
  <2>1. /\ frames' = Append(BelowTop, Return(Top, match))
        /\ cur_tok_' = IF match THEN cur_tok_ + 1 ELSE cur_tok_
    BY <1>4 DEF TestTerminal
  <2>2. match \in BOOLEAN
    OBVIOUS
  <2> HIDE DEF match
  <2> QED BY <1>1, <2>1, <2>2, AnswerRanked
<1> QED BY <1>2, <1>3, <1>4

\* A repetition has matched its last sub-rule.
LEMMA IterateRanked ==
  ASSUME IInv, Ranked, RepeatStarIterate \/ RepeatDaggerIterate \/ TestIterate
  PROVE  Ranked'
<1>1. HasCaller /\ Caller.phase = "body"
  BY DEF RepeatStarIterate, RepeatDaggerIterate, TestIterate, Traversed, Tested
<1>2. Caller \in Frame /\ cur_tok_ \in Nat
  BY <1>1, CallerFacts
<1>3. CASE RepeatStarIterate \/ RepeatDaggerIterate
  <2> DEFINE f == NextIteration(Caller)
  <2>1. /\ f \in Frame /\ f.rule = Caller.rule /\ f.pos0 = Caller.pos0 /\ f.i = 1
        /\ f.phase # "ret"
    BY <1>2, Iterated
  <2>2. SUFFICES ASSUME frames' = Resume(f) PROVE Ranked'
    BY <1>3, StillRanked DEF RepeatStarIterate, RepeatDaggerIterate, RunAction
  <2> HIDE DEF f
  <2> QED BY <1>1, <2>1, <2>2, FirstRanked
<1>4. CASE TestIterate
  <2> DEFINE h == [Caller EXCEPT !.i = 1]
             f == [Caller EXCEPT !.i = 1, !.tok_pos = cur_tok_]
  <2>1. h \in Frame /\ h.rule = Caller.rule /\ h.pos0 = Caller.pos0 /\ h.i = 1 /\ h.phase = "body"
    BY <1>1, <1>2 DEF Frame
  <2>2. f = [h EXCEPT !.tok_pos = cur_tok_]
    OBVIOUS
  <2>3. frames' = Resume(f)
    BY <1>4 DEF TestIterate
  <2> HIDE DEF f, h
  <2>4. /\ f \in Frame /\ f.rule = Caller.rule /\ f.pos0 = Caller.pos0 /\ f.i = 1
        /\ f.phase = "body"
    BY <2>1, <2>2, <1>2 DEF Frame
  <2> QED BY <1>1, <2>3, <2>4, FirstRanked
<1> QED BY <1>3, <1>4

\* A repetition, sequence or option whose iteration or body has failed.
LEMMA StopRanked ==
  ASSUME IInv, Ranked,
         \/ RepeatStarStop \/ RepeatDaggerStop \/ SequenceFail \/ OptionsSkip
         \/ TestStop \/ (TestSequence /\ ~Top.res)
  PROVE  Ranked'
<1>1. HasCaller
  BY DEF RepeatStarStop, RepeatDaggerStop, SequenceFail, OptionsSkip, TestStop, TestSequence,
         Traversed, Tested
<1>2. Caller.rule \in RuleName
  BY <1>1, CallerFacts
<1>3. SUFFICES ASSUME NEW res \in BOOLEAN,
                      res => Kind(Caller.rule) \in {"RepeatStar", "Options"},
                      frames' = Resume(Return(Caller, res))
               PROVE  Ranked'
  <2>1. CASE RepeatStarStop
    BY <2>1, <1>3, StillRanked DEF RepeatStarStop, Traversed, RunFail
  <2>2. CASE RepeatDaggerStop
    BY <2>2, <1>3, StillRanked DEF RepeatDaggerStop, RunFail
  <2>3. CASE SequenceFail
    BY <2>3, <1>3, StillRanked DEF SequenceFail, RunFail
  <2>4. CASE OptionsSkip
    BY <2>4, <1>3, StillRanked DEF OptionsSkip, Traversed, RunFail
  <2>5. CASE TestStop
    <3>1. (Kind(Caller.rule) = "RepeatStar") \in BOOLEAN
      OBVIOUS
    <3> QED BY <2>5, <3>1, <1>3 DEF TestStop
  <2>6. CASE TestSequence /\ ~Top.res
    <3>1. (Kind(Caller.rule) = "Options") \in BOOLEAN
      OBVIOUS
    <3>2. frames' = Resume(Return(Caller, Kind(Caller.rule) = "Options"))
      BY <2>6 DEF TestSequence, Tested
    <3> QED BY <3>1, <3>2, <1>3
  <2> QED BY <2>1, <2>2, <2>3, <2>4, <2>5, <2>6
<1> QED BY <1>1, <1>2, <1>3, OptionalRules, NothingRanked

\* A rule whose last sub-rule, or one of whose alternatives, has matched.
LEMMA MatchedRanked ==
  ASSUME IInv, Ranked,
         \/ SelectTake \/ SequenceMatch \/ OptionsMatch
         \/ (TestSelect \/ TestSequence) /\ Top.res
  PROVE  Ranked'
<1>1. /\ HasCaller /\ Top.phase = "ret" /\ Top.res
      /\ AtLast \/ Kind(Caller.rule) = "Select"
      /\ Kind(Caller.rule) \in {"Select", "Sequence", "Options"}
  BY DEF SelectTake, SequenceMatch, OptionsMatch, TestSelect, TestSequence, Traversed, Tested
<1>2. SUFFICES ASSUME frames' = Resume(Return(Caller, TRUE)), UNCHANGED cur_tok_
               PROVE  Ranked'
  <2>1. CASE SelectTake \/ SequenceMatch \/ OptionsMatch
    BY <2>1, <1>2, StillRanked DEF SelectTake, SequenceMatch, OptionsMatch, RunAction
  <2>2. CASE (TestSelect \/ TestSequence) /\ Top.res
    BY <2>2, <1>2 DEF TestSelect, TestSequence, Tested
  <2> QED BY <2>1, <2>2
<1>3. CASE Kind(Caller.rule) = "Options"
  <2>1. Caller.rule \in Nullable
    BY <1>1, <1>3, CallerFacts, OptionalRules
  <2> QED BY <1>1, <1>2, <2>1, NothingRanked
<1>4. CASE Kind(Caller.rule) # "Options"
  BY <1>1, <1>2, <1>4, MatchRanked
<1> QED BY <1>3, <1>4

\* An alternative that has failed.
LEMMA AlternativeRanked ==
  ASSUME IInv, Ranked, SelectNext \/ (TestSelect /\ ~Top.res)
  PROVE  Ranked'
<1>1. HasCaller /\ Caller.phase = "body" /\ Kind(Caller.rule) = "Select" /\ Top.phase = "ret"
  BY DEF SelectNext, TestSelect, Traversed, Tested
<1>2. SUFFICES ASSUME frames' = Resume(IF AtLast THEN Return(Caller, FALSE)
                                       ELSE [Caller EXCEPT !.i = @ + 1])
               PROVE  Ranked'
  <2>1. CASE SelectNext
    BY <2>1, <1>2, StillRanked DEF SelectNext, RunFail
  <2>2. CASE TestSelect /\ ~Top.res
    BY <2>2, <1>2 DEF TestSelect, Tested
  <2> QED BY <2>1, <2>2
<1>3. CASE AtLast
  BY <1>1, <1>2, <1>3, NothingRanked
<1>4. CASE ~AtLast
  BY <1>1, <1>2, <1>4, NextRanked
<1> QED BY <1>3, <1>4

\* Every step preserves the ranks.
LEMMA NextKeepsRanks ==
  ASSUME IInv, Ranked, [Next]_vars
  PROVE  Ranked'
<1>1. CASE LookAhead \/ Descend
  BY <1>1, CallRanked
<1>2. CASE LookaheadTrue \/ LookaheadFalse
  BY <1>2, LookRanked
<1>3. CASE TerminalMatch \/ TerminalMismatch \/ TestTerminal
  BY <1>3, TerminalRanked
<1>4. CASE Advance
  BY <1>4, NextRanked DEF Advance
<1>5. CASE RepeatStarIterate \/ RepeatDaggerIterate \/ TestIterate
  BY <1>5, IterateRanked
<1>6. CASE RepeatStarStop \/ RepeatDaggerStop \/ SequenceFail \/ OptionsSkip \/ TestStop
  BY <1>6, StopRanked
<1>7. CASE SelectTake \/ SequenceMatch \/ OptionsMatch
  BY <1>7, MatchedRanked
<1>8. CASE SelectNext
  BY <1>8, AlternativeRanked
<1>9. CASE TestSelect
  BY <1>9, MatchedRanked, AlternativeRanked
<1>10. CASE TestSequence
  BY <1>10, MatchedRanked, StopRanked
<1>11. CASE Finish
  BY <1>11, StillRanked DEF Finish
<1>12. CASE UNCHANGED vars
  BY <1>12, StillRanked DEF vars
<1> QED
  BY <1>1, <1>2, <1>3, <1>4, <1>5, <1>6, <1>7, <1>8, <1>9, <1>10, <1>11, <1>12
  DEF Next, TraverseRule, TestRule, Terminated

\* One activation, at its first sub-rule, is in order.
LEMMA InitRanked ==
  ASSUME Init
  PROVE  Ranked
<1>1. Len(frames) = 1 /\ Top.i = 1 /\ Top.phase = "body"
  BY DEF Init, Top
<1>2. (\A k \in 1..Len(frames) - 1 : FALSE) /\ \A k, l \in 1..Len(frames) : ~(k < l)
  BY <1>1
<1> QED BY <1>1, <1>2, FarAtFirst DEF Ranked

-----------------------------------------------------------------------------
(* The theorems                                                             *)

\* In a table with ranks every call goes to a lower rank or stands behind a token.
THEOREM RanksFall == Spec => [](IInv /\ Ranked)
<1>1. Init => IInv /\ Ranked
  BY InitIInv, InitRanked
<1>2. IInv /\ Ranked /\ [Next]_vars => (IInv /\ Ranked)'
  BY NextIInv, NextKeepsRanks
<1> QED BY <1>1, <1>2, PTL DEF Spec

\* No rule of such a table is called while the same one runs from the same token, so
\* the C++ stack is never deeper than the ranks and the tokens allow.
THEOREM LeftRecursionFree == Spec => []NoLeftRecursion
<1>1. IInv /\ Ranked => NoLeftRecursion
  <2>1. SUFFICES ASSUME IInv, Ranked, NEW k \in DOMAIN frames, NEW l \in DOMAIN frames,
                        k < l, frames[k].rule = frames[l].rule
                 PROVE  frames[k].pos0 < frames[l].pos0
    BY DEF NoLeftRecursion
  <2>2. k \in 1..Len(frames) /\ l \in 1..Len(frames)
        /\ frames[k] \in Frame /\ frames[l] \in Frame
    BY <2>1, Typed DEF IInv
  <2>3. /\ frames[k].pos0 <= frames[l].pos0
        /\ frames[k].pos0 = frames[l].pos0 => Rank[frames[l].rule] < Rank[frames[k].rule]
    BY <2>1, <2>2 DEF Ranked
  <2>4. frames[k].pos0 \in Nat /\ frames[l].pos0 \in Nat /\ Rank[frames[k].rule] \in Nat
    BY <2>2, RankType
  <2> QED BY <2>1, <2>3, <2>4
<1> QED BY <1>1, RanksFall, PTL

\* Every iteration of a repetition of such a table has consumed a token when the next
\* one begins.
THEOREM RepetitionsConsume == Spec => []RepeatProgress
<1>1. IInv /\ Ranked => RepeatProgress
  <2>1. SUFFICES ASSUME IInv, Ranked, HasCaller, Top.phase = "ret", Top.res,
                        Repeats(Caller.rule), AtLast
                 PROVE  cur_tok_ > Caller.tok_pos
    BY DEF RepeatProgress
  <2>2. Caller.rule \in RuleName /\ Len(Subs(Caller.rule)) \in Nat
    BY <2>1, CallerFacts, RuleType
  <2>3. PICK i \in 1..Len(Subs(Caller.rule)) : Subs(Caller.rule)[i] \notin Nullable
    BY <2>1, <2>2, ConsumingAssumption
  <2>4. Kind(Caller.rule) # "Select" /\ Caller.i = Len(Subs(Caller.rule))
    BY <2>1 DEF Repeats, AtLast
  <2>5. CASE i = Caller.i
    BY <2>1, <2>3, <2>5, Matched
  <2>6. CASE i \in 1..Caller.i - 1
    BY <2>1, <2>3, <2>4, <2>6, Matched DEF LeftCorner
  <2> QED BY <2>2, <2>4, <2>5, <2>6
<1> QED BY <1>1, RanksFall, PTL
=============================================================================
