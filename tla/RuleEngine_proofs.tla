-------------------------- MODULE RuleEngine_proofs --------------------------
(***************************************************************************)
(* Proofs about RuleEngine, for every rule table, token stream and set of  *)
(* semantic actions its assumptions allow.                                 *)
(***************************************************************************)
EXTENDS RuleEngine, TLAPS

\* What the table assumption says of one rule.
LEMMA RuleType ==
  ASSUME NEW r \in RuleName
  PROVE  /\ Kind(r) \in Kinds /\ Subs(r) \in Seq(RuleName) /\ Len(Subs(r)) \in Nat \ {0}
         /\ Lookahead(r) \in Nat /\ Lookahead(r) <= Len(Subs(r))
         /\ Lookahead(r) > 0 => Kind(r) # "Terminal"
         /\ \A i \in 1..Len(Subs(r)) : Subs(r)[i] \in RuleName
<1>1. /\ rules_[r] \in [action_: Kinds, lookahead_: 0..16, sub_rules_: Seq(RuleName)]
      /\ rules_[r].sub_rules_ # <<>>
  BY TableAssumption
<1>2. Kind(r) \in Kinds /\ Subs(r) \in Seq(RuleName) /\ Len(Subs(r)) \in Nat \ {0}
  BY <1>1 DEF Kind, Subs
<1>3. rules_[r].lookahead_ \in 0..16
  BY <1>1
<1>4. Lookahead(r) \in Nat /\ Lookahead(r) <= Len(Subs(r))
  BY <1>2, <1>3, LookaheadAssumption DEF Lookahead, ChecksUserType, Subs
<1>5. Lookahead(r) > 0 => Kind(r) # "Terminal"
  BY DEF Lookahead
<1> QED BY <1>2, <1>4, <1>5

\* A new frame on top of the others.
LEMMA Pushed ==
  ASSUME NEW f \in Frame, frames \in Seq(Frame), frames' = Append(frames, f)
  PROVE  /\ frames' \in Seq(Frame) /\ Len(frames') = Len(frames) + 1 /\ frames' # <<>>
         /\ \A k \in 1..Len(frames) : frames'[k] = frames[k]
         /\ frames'[Len(frames')] = f
OBVIOUS

\* The frames above the first m give way to f.
LEMMA CutBack ==
  ASSUME NEW f \in Frame, frames \in Seq(Frame), NEW m \in 0..Len(frames),
         frames' = Append(SubSeq(frames, 1, m), f)
  PROVE  /\ frames' \in Seq(Frame) /\ Len(frames') = m + 1 /\ frames' # <<>>
         /\ \A k \in 1..m : frames'[k] = frames[k]
         /\ frames'[m + 1] = f
<1>1. SubSeq(frames, 1, m) \in Seq(Frame) /\ Len(SubSeq(frames, 1, m)) = m
      /\ \A k \in 1..m : SubSeq(frames, 1, m)[k] = frames[k]
  OBVIOUS
<1> QED BY <1>1

\* What IInv says of the positions of one frame.
Backup(f, tokens) ==
  /\ f.pos0 <= f.tok_pos /\ f.tok_pos < Len(tokens)
  /\ ~Repeats(f.rule) => f.tok_pos = f.pos0

\* What the type invariant says of the frames and the position.
LEMMA Typed ==
  ASSUME TypeOK
  PROVE  /\ frames \in Seq(Frame) /\ Len(frames) \in Nat \ {0} /\ Top \in Frame
         /\ \A k \in 1..Len(frames) : frames[k] \in Frame
         /\ HasCaller => Caller \in Frame
         /\ Len(tokens_) \in Nat /\ cur_tok_ \in Nat
<1>1. frames \in Seq(Frame) /\ Len(frames) \in Nat \ {0}
  BY DEF TypeOK
<1>2. tokens_ \in Seq([type: RuleName, c: STRING])
  BY StreamAssumption DEF TypeOK
<1> QED BY <1>1, <1>2 DEF TypeOK, Top, Caller, HasCaller

\* A call preserves the invariant.
LEMMA PushStep ==
  ASSUME IInv, NEW f \in Frame, FrameOK(f), Calls(Top, f), f.phase # "ret",
         f.tok_pos = cur_tok_, f.pos0 = cur_tok_, Top.phase # "ret",
         frames' = Append(frames, f), UNCHANGED <<tokens_, cur_tok_, verdict>>
  PROVE  IInv'
<1> DEFINE n == Len(frames)
<1>1. /\ frames' \in Seq(Frame) /\ Len(frames') = n + 1 /\ frames' # <<>>
      /\ \A k \in 1..n : frames'[k] = frames[k]
      /\ frames'[n + 1] = f
  BY Pushed DEF IInv, TypeOK
<1>2. n \in Nat \ {0} /\ \A k \in 1..n : frames[k] \in Frame
  BY Typed DEF IInv
<1>3. cur_tok_ \in Nat /\ Len(tokens_) \in Nat /\ cur_tok_ < Len(tokens_)
  BY Typed DEF IInv, Positions, AtEnd, TypeOK
<1>4. TypeOK'
  BY <1>1 DEF IInv, TypeOK
<1>5. CallChain'
  <2>1. frames'[1].rule = Start /\ ~frames'[1].test
    BY <1>1, <1>2 DEF IInv, CallChain
  <2>2. ASSUME NEW k \in 1..Len(frames') PROVE FrameOK(frames'[k])
    BY <1>1, <1>2, <2>2 DEF IInv, CallChain
  <2>3. ASSUME NEW k \in 1..Len(frames') - 1 PROVE Calls(frames'[k], frames'[k + 1])
    <3>1. CASE k = n
      BY <3>1, <1>1, <1>2 DEF Top
    <3>2. CASE k < n
      BY <3>2, <1>1, <1>2 DEF IInv, CallChain
    <3> QED BY <3>1, <3>2, <1>1, <1>2
  <2> QED BY <2>1, <2>2, <2>3 DEF CallChain
<1>6. Positions'
  <2>1. ASSUME NEW k \in 1..Len(frames') PROVE Backup(frames'[k], tokens_')
    <3>1. CASE k = n + 1
      BY <3>1, <1>1, <1>3 DEF Backup, Repeats, Frame
    <3>2. CASE k \in 1..n
      BY <3>2, <1>1 DEF Backup, IInv, Positions
    <3> QED BY <3>1, <3>2, <1>1, <1>2
  <2>2. ASSUME NEW k \in 1..Len(frames') - 1 PROVE frames'[k].tok_pos <= frames'[k + 1].pos0
    BY <1>1, <1>2 DEF IInv, Positions, Top
  <2>3. Top'.tok_pos <= cur_tok_' /\ cur_tok_' # Len(tokens_')
        /\ cur_tok_' = Top'.pos0
    BY <1>1, <1>3 DEF Top
  <2> QED BY <2>1, <2>2, <2>3 DEF Positions, Backup
<1>7. FalseRestores'
  BY <1>1, <1>2 DEF FalseRestores, Top
<1> QED BY <1>4, <1>5, <1>6, <1>7 DEF IInv

\* A frame f that takes the place of frames[m + 1] and of all above it preserves
\* the invariant, when its positions and its answer fit.
LEMMA RewriteStep ==
  ASSUME IInv, NEW f \in Frame, NEW m \in 0..Len(frames) - 1,
         f.rule = frames[m + 1].rule, f.test = frames[m + 1].test, f.pos0 = frames[m + 1].pos0,
         FrameOK(f), Backup(f, tokens_),
         cur_tok_' \in f.tok_pos..Len(tokens_),
         cur_tok_' = Len(tokens_) =>
           f.phase = "ret" /\ f.res /\ (m = 0 \/ (m = 1 /\ f.rule = Eof)),
         f.phase = "ret" /\ ~f.res /\ Kind(f.rule) # "RepeatDagger" => cur_tok_' = f.pos0,
         f.phase = "body" => Kind(f.rule) # "Terminal",
         frames' = Append(SubSeq(frames, 1, m), f), UNCHANGED <<tokens_, verdict>>
  PROVE  IInv'
<1>1. /\ frames' \in Seq(Frame) /\ Len(frames') = m + 1 /\ frames' # <<>>
      /\ \A k \in 1..m : frames'[k] = frames[k]
      /\ frames'[m + 1] = f
  <2>1. frames \in Seq(Frame) /\ m \in 0..Len(frames)
    BY Typed DEF IInv
  <2> QED BY <2>1, CutBack
<1>2. Len(frames) \in Nat \ {0} /\ \A k \in 1..Len(frames) : frames[k] \in Frame
  BY Typed DEF IInv
<1>3. f.tok_pos \in Nat /\ f.pos0 \in Nat /\ Len(tokens_) \in Nat
  BY Typed DEF IInv, Frame
<1>4. TypeOK'
  <2>1. cur_tok_' \in 0..Len(tokens_)
    BY <1>3
  <2> QED BY <1>1, <2>1 DEF IInv, TypeOK
<1>5. CallChain'
  <2>1. frames'[1].rule = Start /\ ~frames'[1].test
    BY <1>1, <1>2 DEF IInv, CallChain
  <2>2. ASSUME NEW k \in 1..Len(frames') PROVE FrameOK(frames'[k])
    BY <1>1, <1>2, <2>2 DEF IInv, CallChain
  <2>3. ASSUME NEW k \in 1..Len(frames') - 1 PROVE Calls(frames'[k], frames'[k + 1])
    <3>1. k \in 1..m /\ Calls(frames[k], frames[k + 1])
      BY <1>1, <1>2 DEF IInv, CallChain
    <3>2. frames'[k] = frames[k] /\ frames'[k + 1].rule = frames[k + 1].rule
          /\ frames'[k + 1].test = frames[k + 1].test
      <4>1. CASE k = m
        BY <4>1, <3>1, <1>1
      <4>2. CASE k + 1 \in 1..m
        BY <4>2, <3>1, <1>1
      <4> QED BY <3>1, <4>1, <4>2
    <3> QED BY <3>1, <3>2 DEF Calls
  <2> QED BY <2>1, <2>2, <2>3 DEF CallChain
<1>6. Positions'
  <2>1. ASSUME NEW k \in 1..Len(frames') PROVE Backup(frames'[k], tokens_')
    <3>1. CASE k = m + 1
      BY <3>1, <1>1
    <3>2. CASE k \in 1..m
      BY <3>2, <1>1, <1>2 DEF Backup, IInv, Positions
    <3> QED BY <3>1, <3>2, <1>1
  <2>2. ASSUME NEW k \in 1..Len(frames') - 1 PROVE frames'[k].tok_pos <= frames'[k + 1].pos0
    <3>1. k \in 1..m /\ frames[k].tok_pos <= frames[k + 1].pos0
      BY <1>1, <1>2 DEF IInv, Positions
    <3>2. frames'[k] = frames[k] /\ frames'[k + 1].pos0 = frames[k + 1].pos0
      <4>1. CASE k = m
        BY <4>1, <3>1, <1>1
      <4>2. CASE k + 1 \in 1..m
        BY <4>2, <3>1, <1>1
      <4> QED BY <3>1, <4>1, <4>2
    <3> QED BY <3>1, <3>2
  <2>3. Top' = f
    BY <1>1 DEF Top
  <2>4. Top'.tok_pos <= cur_tok_'
    BY <2>3, <1>3
  <2>5. cur_tok_' = Len(tokens_') => AtEnd'
    BY <2>3, <1>1 DEF AtEnd
  <2>6. ~(Top'.phase = "body" /\ Kind(Top'.rule) = "Terminal")
    BY <2>3
  <2> QED BY <2>1, <2>2, <2>4, <2>5, <2>6 DEF Positions, Backup
<1>7. FalseRestores'
  BY <1>1 DEF FalseRestores, Top
<1> QED BY <1>4, <1>5, <1>6, <1>7 DEF IInv

\* An assert, or the end of the parse, leaves everything but the verdict.
LEMMA VerdictStep ==
  ASSUME IInv, UNCHANGED <<tokens_, cur_tok_, frames>>,
         verdict' \in {verdict, "True", "False", "SyntaxError", "ActionError"}
  PROVE  IInv'
<1>1. Top' = Top /\ (AtEnd' <=> AtEnd)
  BY DEF Top, AtEnd
<1>2. TypeOK'
  BY DEF IInv, TypeOK
<1>3. CallChain'
  BY DEF IInv, CallChain
<1>4. Positions'
  BY <1>1 DEF IInv, Positions
<1>5. FalseRestores'
  BY <1>1 DEF IInv, FalseRestores
<1> QED BY <1>2, <1>3, <1>4, <1>5 DEF IInv

\* An assert in a semantic action, or else the rest of the step: frames g, position p.
LEMMA ActionStep ==
  ASSUME IInv, NEW r, NEW g, NEW p, RunAction(r, g, p),
         ~(frames' = g /\ cur_tok_' = p /\ UNCHANGED <<tokens_, verdict>>)
  PROVE  IInv'
BY VerdictStep DEF RunAction

\* An error of a fail action, or else the rest of the step.
LEMMA FailStep ==
  ASSUME IInv, NEW r, NEW g, NEW p, RunFail(r, g, p),
         ~(frames' = g /\ cur_tok_' = p /\ UNCHANGED <<tokens_, verdict>>)
  PROVE  IInv'
BY VerdictStep DEF RunFail, Stay

\* Start runs at the bottom of the call stack and nowhere else.
LEMMA StartAtBottom ==
  ASSUME IInv, NEW k \in 2..Len(frames)
  PROVE  frames[k].rule # Start
<1>1. Calls(frames[k - 1], frames[k]) /\ frames[k - 1] \in Frame /\ FrameOK(frames[k - 1])
  BY Typed DEF IInv, CallChain
<1>2. /\ frames[k - 1].rule \in RuleName
      /\ frames[k - 1].i \in 1..Len(Subs(frames[k - 1].rule))
  BY <1>1, RuleType DEF Frame, FrameOK
<1> QED BY <1>1, <1>2, StartAssumption DEF Calls, Subs

\* Eof is only ever called by Start, for its last sub-rule.
LEMMA EofCalled ==
  ASSUME IInv, HasCaller, Top.rule = Eof
  PROVE  Len(frames) = 2 /\ Caller.rule = Start /\ ~Caller.test /\ AtLast
<1>1. Len(frames) \in Nat /\ Len(frames) > 1 /\ Calls(Caller, Top)
      /\ Caller \in Frame /\ FrameOK(Caller)
  BY Typed DEF IInv, CallChain, HasCaller, Caller, Top
<1>2. Caller.rule \in RuleName /\ Caller.i \in 1..Len(Subs(Caller.rule))
  BY <1>1, RuleType DEF Frame, FrameOK
<1>3. Caller.rule = Start /\ AtLast
  BY <1>1, <1>2, EofAssumption DEF Calls, AtLast, Subs, Kind
<1>4. Len(frames) = 2
  <2>1. CASE Len(frames) > 2
    <3>1. Len(frames) - 1 \in 2..Len(frames)
      BY <1>1, <2>1
    <3> QED BY <3>1, <1>3, StartAtBottom DEF Caller
  <2> QED BY <1>1, <2>1
<1> QED BY <1>3, <1>4 DEF IInv, CallChain, Caller

\* What the invariant says of the activation below the top one.
LEMMA CallerFacts ==
  ASSUME IInv, HasCaller
  PROVE  /\ Len(frames) \in Nat /\ Len(frames) > 1
         /\ Caller \in Frame /\ Caller.rule \in RuleName /\ FrameOK(Caller)
         /\ Calls(Caller, Top) /\ Backup(Caller, tokens_)
         /\ Caller.tok_pos \in Nat /\ Caller.tok_pos <= cur_tok_
         /\ cur_tok_ \in Nat /\ Len(tokens_) \in Nat /\ cur_tok_ <= Len(tokens_)
         /\ cur_tok_ = Len(tokens_) =>
              Len(frames) = 2 /\ Caller.rule = Start /\ ~Caller.test /\ AtLast /\ Top.res
<1>1. Len(frames) \in Nat /\ Len(frames) > 1 /\ Caller \in Frame /\ Top \in Frame
      /\ cur_tok_ \in Nat /\ Len(tokens_) \in Nat /\ cur_tok_ <= Len(tokens_)
  BY Typed DEF IInv, HasCaller, TypeOK
<1>2. Caller.rule \in RuleName /\ Caller.tok_pos \in Nat /\ Top.tok_pos \in Nat /\ Top.pos0 \in Nat
  BY <1>1 DEF Frame
<1>3. FrameOK(Caller) /\ Calls(Caller, Top)
  BY <1>1 DEF IInv, CallChain, Caller, Top
<1>4. Backup(Caller, tokens_) /\ Caller.tok_pos <= Top.pos0 /\ Top.pos0 <= Top.tok_pos
      /\ Top.tok_pos <= cur_tok_
  BY <1>1 DEF IInv, Positions, Caller, Top, Backup
<1>5. cur_tok_ = Len(tokens_) => Top.res /\ Top.rule = Eof
  BY <1>1 DEF IInv, Positions, AtEnd
<1> QED BY <1>1, <1>2, <1>3, <1>4, <1>5, EofCalled

\* The caller goes on as f.
LEMMA ResumeStep ==
  ASSUME IInv, HasCaller, NEW f \in Frame,
         f.rule = Caller.rule, f.test = Caller.test, f.pos0 = Caller.pos0,
         FrameOK(f), Backup(f, tokens_),
         cur_tok_' \in f.tok_pos..Len(tokens_),
         cur_tok_' = Len(tokens_) => f.phase = "ret" /\ f.res /\ Len(frames) = 2,
         f.phase = "ret" /\ ~f.res /\ Kind(f.rule) # "RepeatDagger" => cur_tok_' = f.pos0,
         frames' = Resume(f), UNCHANGED <<tokens_, verdict>>
  PROVE  IInv'
<1> DEFINE m == Len(frames) - 2
<1>1. m \in 0..Len(frames) - 1 /\ m + 1 = Len(frames) - 1
  BY CallerFacts
<1>2. f.phase = "body" => Kind(f.rule) # "Terminal"
  BY CallerFacts DEF Calls
<1>3. frames' = Append(SubSeq(frames, 1, m), f)
  BY DEF Resume, Callers
<1>4. f.rule = frames[m + 1].rule /\ f.test = frames[m + 1].test /\ f.pos0 = frames[m + 1].pos0
  BY <1>1 DEF Caller
<1>5. Len(frames) = 2 => m = 0
  OBVIOUS
<1> HIDE DEF m
<1> QED BY <1>1, <1>2, <1>3, <1>4, <1>5, RewriteStep

\* The caller goes back to where its backup points.
LEMMA BackStep ==
  ASSUME IInv, HasCaller, NEW f \in Frame,
         f.rule = Caller.rule, f.test = Caller.test, f.pos0 = Caller.pos0,
         f.tok_pos = Caller.tok_pos, FrameOK(f),
         f.phase = "ret" /\ ~f.res => Kind(f.rule) # "RepeatStar",
         frames' = Resume(f), cur_tok_' = Caller.tok_pos, UNCHANGED <<tokens_, verdict>>
  PROVE  IInv'
<1>1. Backup(f, tokens_) /\ f.tok_pos \in Nat /\ f.tok_pos < Len(tokens_) /\ Len(tokens_) \in Nat
  BY CallerFacts DEF Backup
<1>2. f.phase = "ret" /\ ~f.res /\ Kind(f.rule) # "RepeatDagger" => cur_tok_' = f.pos0
  BY CallerFacts DEF Backup, Repeats
<1> QED BY <1>1, <1>2, ResumeStep

\* The caller goes on from the current token, with the same backup.
LEMMA OnStep ==
  ASSUME IInv, HasCaller, NEW f \in Frame,
         f.rule = Caller.rule, f.test = Caller.test, f.pos0 = Caller.pos0,
         f.tok_pos = Caller.tok_pos, FrameOK(f),
         f.phase = "ret" => f.res,
         cur_tok_ = Len(tokens_) => f.phase = "ret",
         frames' = Resume(f), UNCHANGED <<tokens_, cur_tok_, verdict>>
  PROVE  IInv'
<1>1. Backup(f, tokens_) /\ cur_tok_ \in f.tok_pos..Len(tokens_)
  BY CallerFacts DEF Backup
<1>2. cur_tok_ = Len(tokens_) => f.phase = "ret" /\ f.res /\ Len(frames) = 2
  BY CallerFacts
<1> QED BY <1>1, <1>2, ResumeStep

\* What returning does to a frame.
LEMMA Returned ==
  ASSUME NEW f \in Frame, NEW res \in BOOLEAN
  PROVE  /\ Return(f, res) \in Frame
         /\ Return(f, res).rule = f.rule /\ Return(f, res).test = f.test
         /\ Return(f, res).pos0 = f.pos0 /\ Return(f, res).tok_pos = f.tok_pos
         /\ Return(f, res).phase = "ret" /\ Return(f, res).res = res
         /\ FrameOK(f) => FrameOK(Return(f, res))
BY DEF Frame, Return, FrameOK, Phases

\* The caller returns, back at its backup or at the current token.
LEMMA ReturnBack ==
  ASSUME IInv, HasCaller, NEW res \in BOOLEAN, res \/ Kind(Caller.rule) # "RepeatStar",
         frames' = Resume(Return(Caller, res)), cur_tok_' = Caller.tok_pos,
         UNCHANGED <<tokens_, verdict>>
  PROVE  IInv'
<1>1. Caller \in Frame /\ FrameOK(Caller)
  BY CallerFacts
<1>2. Return(Caller, res) \in Frame
  BY <1>1, Returned
<1> QED BY <1>1, <1>2, Returned, BackStep

\* The caller returns True at the current token.
LEMMA ReturnOn ==
  ASSUME IInv, HasCaller, frames' = Resume(Return(Caller, TRUE)),
         UNCHANGED <<tokens_, cur_tok_, verdict>>
  PROVE  IInv'
<1>1. Caller \in Frame /\ FrameOK(Caller)
  BY CallerFacts
<1>2. Return(Caller, TRUE) \in Frame
  BY <1>1, Returned
<1> QED BY <1>1, <1>2, Returned, OnStep

\* The caller turns to its next sub-rule, or tests its next lookahead.
LEMMA NextSub ==
  ASSUME IInv, HasCaller, ~AtLast \/ Caller.phase = "look"
  PROVE  LET f == [Caller EXCEPT !.i = @ + 1] IN
         /\ f \in Frame /\ f.rule = Caller.rule /\ f.test = Caller.test /\ f.pos0 = Caller.pos0
         /\ f.tok_pos = Caller.tok_pos /\ f.phase = Caller.phase /\ f.i = Caller.i + 1
         /\ (Caller.phase = "look" => Caller.i < Lookahead(Caller.rule)) => FrameOK(f)
<1> DEFINE f == [Caller EXCEPT !.i = @ + 1]
<1>1. Caller \in Frame /\ FrameOK(Caller) /\ Caller.rule \in RuleName
  BY CallerFacts
<1>2. /\ f \in Frame /\ f.rule = Caller.rule /\ f.test = Caller.test /\ f.pos0 = Caller.pos0
      /\ f.tok_pos = Caller.tok_pos /\ f.phase = Caller.phase /\ f.i = Caller.i + 1
  BY <1>1 DEF Frame
<1>3. /\ Caller.i \in Nat /\ Len(Subs(Caller.rule)) \in Nat /\ Lookahead(Caller.rule) \in Nat
      /\ Lookahead(Caller.rule) <= Len(Subs(Caller.rule))
      /\ Caller.i <= Len(Subs(Caller.rule))
      /\ Caller.phase = "look" => ~Caller.test
  BY <1>1, RuleType DEF Frame, FrameOK
<1>4. (Caller.phase = "look" => Caller.i < Lookahead(Caller.rule)) => FrameOK(f)
  BY <1>2, <1>3 DEF FrameOK, AtLast
<1> QED BY <1>2, <1>4

\* A repetition begins again behind what it has consumed.
LEMMA AgainStep ==
  ASSUME IInv, HasCaller, NEW f \in Frame, Repeats(Caller.rule),
         f.rule = Caller.rule, f.test = Caller.test, f.pos0 = Caller.pos0,
         f.tok_pos = cur_tok_, f.i = 1, f.phase # "ret",
         f.phase = "look" => ~f.test /\ Lookahead(f.rule) > 0,
         frames' = Resume(f), UNCHANGED <<tokens_, cur_tok_, verdict>>
  PROVE  IInv'
<1>1. cur_tok_ # Len(tokens_)
  BY CallerFacts, StartAssumption DEF Repeats, Kind
<1>2. Backup(f, tokens_) /\ cur_tok_ \in f.tok_pos..Len(tokens_)
  BY <1>1, CallerFacts DEF Backup, Frame
<1>3. FrameOK(f)
  <2>1. f.rule \in RuleName
    BY CallerFacts
  <2>2. Len(Subs(f.rule)) \in Nat \ {0} /\ Lookahead(f.rule) \in Nat
    BY <2>1, RuleType
  <2> QED BY <2>2 DEF FrameOK
<1> QED BY <1>1, <1>2, <1>3, ResumeStep

\* The frame of a repetition that begins a new iteration.
LEMMA Iterated ==
  ASSUME NEW f \in Frame, cur_tok_ \in Nat
  PROVE  /\ NextIteration(f) \in Frame
         /\ NextIteration(f).rule = f.rule /\ NextIteration(f).test = f.test
         /\ NextIteration(f).pos0 = f.pos0 /\ NextIteration(f).tok_pos = cur_tok_
         /\ NextIteration(f).i = 1
         /\ NextIteration(f).phase = IF Lookahead(f.rule) > 0 THEN "look" ELSE "body"
<1> DEFINE h == [f EXCEPT !.i = 1]
           k == [h EXCEPT !.tok_pos = cur_tok_]
<1>1. h \in Frame /\ h.rule = f.rule /\ h.test = f.test /\ h.pos0 = f.pos0 /\ h.i = 1
  BY DEF Frame
<1>2. k \in Frame /\ k.rule = h.rule /\ k.test = h.test /\ k.pos0 = h.pos0 /\ k.i = h.i
      /\ k.tok_pos = cur_tok_
  BY <1>1 DEF Frame
<1>3. NextIteration(f) = [k EXCEPT !.phase = IF Lookahead(f.rule) > 0 THEN "look" ELSE "body"]
  BY DEF NextIteration
<1> HIDE DEF h, k
<1> QED BY <1>1, <1>2, <1>3 DEF Frame, Phases

\* Without a caller there is one frame.
LEMMA Alone ==
  ASSUME TypeOK, ~HasCaller
  PROVE  Len(frames) = 1
<1>1. frames \in Seq(Frame) /\ Len(frames) \in Nat /\ Len(frames) # 0
  BY Typed
<1>2. \A n \in Nat : n # 0 /\ ~(n > 1) => n = 1
  OBVIOUS
<1> QED BY <1>1, <1>2 DEF HasCaller

\* A token rule answers where it was called.
LEMMA AnswerStep ==
  ASSUME IInv, Top.phase = "body", Kind(Top.rule) = "Terminal", NEW res \in BOOLEAN,
         res => Tok.type = Subs(Top.rule)[1],
         frames' = Append(BelowTop, Return(Top, res)),
         cur_tok_' = IF res THEN cur_tok_ + 1 ELSE cur_tok_, UNCHANGED <<tokens_, verdict>>
  PROVE  IInv'
<1> DEFINE m == Len(frames) - 1
           f == Return(Top, res)
<1>1. /\ Len(frames) \in Nat \ {0} /\ Top \in Frame /\ cur_tok_ \in Nat /\ Len(tokens_) \in Nat
      /\ Top.rule \in RuleName /\ Top.pos0 \in Nat
  BY Typed DEF IInv, Frame
<1>2. m \in 0..Len(frames) - 1 /\ frames[m + 1] = Top
  BY <1>1 DEF Top
<1>3. FrameOK(Top) /\ Backup(Top, tokens_) /\ Top.tok_pos <= cur_tok_ /\ cur_tok_ = Top.pos0
  BY <1>1 DEF IInv, CallChain, Positions, Top, Backup
<1>4. f \in Frame /\ f.rule = Top.rule /\ f.test = Top.test /\ f.pos0 = Top.pos0
      /\ f.tok_pos = Top.tok_pos /\ f.phase = "ret" /\ f.res = res /\ FrameOK(f)
  BY <1>1, <1>3, Returned
<1>5. Backup(f, tokens_)
  BY <1>3, <1>4 DEF Backup
<1>6. cur_tok_ < Len(tokens_)
  BY <1>1 DEF IInv, TypeOK, Positions, AtEnd
<1>7. cur_tok_' \in f.tok_pos..Len(tokens_)
  BY <1>1, <1>3, <1>4, <1>6 DEF Backup, Frame
<1>8. cur_tok_' = Len(tokens_) => f.res /\ (m = 0 \/ (m = 1 /\ f.rule = Eof))
  <2>1. SUFFICES ASSUME cur_tok_' = Len(tokens_) PROVE f.res /\ (m = 0 \/ (m = 1 /\ f.rule = Eof))
    OBVIOUS
  <2>2. res /\ cur_tok_ + 1 = Len(tokens_)
    BY <2>1, <1>6, <1>1
  <2>3. Tok.type = Eof
    BY <2>2, <1>1, StreamAssumption DEF IInv, TypeOK, Tok
  <2>4. Top.rule = Eof
    BY <2>2, <2>3, <1>1, StartAssumption DEF Subs, Kind
  <2>5. f.res /\ f.rule = Eof
    BY <2>2, <2>4, <1>4
  <2>6. CASE HasCaller
    <3>1. m = 1
      BY <2>4, <2>6, EofCalled
    <3> QED BY <3>1, <2>5
  <2>7. CASE ~HasCaller
    <3>1. m = 0
      BY <2>7, Alone DEF IInv
    <3> QED BY <3>1, <2>5
  <2> QED BY <2>6, <2>7
<1>9. frames' = Append(SubSeq(frames, 1, m), f)
  BY DEF BelowTop
<1> HIDE DEF m, f
<1> QED BY <1>2, <1>3, <1>4, <1>5, <1>7, <1>8, <1>9, RewriteStep

\* A new activation.
LEMMA Called ==
  ASSUME cur_tok_ \in Nat, NEW r \in RuleName, NEW test \in BOOLEAN, NEW ut \in BOOLEAN
  PROVE  /\ NewFrame(r, test, ut) \in Frame /\ FrameOK(NewFrame(r, test, ut))
         /\ NewFrame(r, test, ut).rule = r /\ NewFrame(r, test, ut).test = test
         /\ NewFrame(r, test, ut).phase # "ret"
         /\ NewFrame(r, test, ut).tok_pos = cur_tok_ /\ NewFrame(r, test, ut).pos0 = cur_tok_
<1>1. Len(Subs(r)) \in Nat \ {0} /\ Lookahead(r) \in Nat
  BY RuleType
<1>2. CASE ~test /\ Lookahead(r) > 0
  BY <1>1, <1>2 DEF NewFrame, Frame, FrameOK, Phases
<1>3. CASE ~(~test /\ Lookahead(r) > 0)
  BY <1>1, <1>3 DEF NewFrame, Frame, FrameOK, Phases
<1> QED BY <1>2, <1>3

\* The top activation, when it has not returned, is at one of its sub-rules.
LEMMA TopFacts ==
  ASSUME IInv
  PROVE  /\ Top \in Frame /\ Top.rule \in RuleName /\ FrameOK(Top)
         /\ Top.i \in 1..Len(Subs(Top.rule)) /\ Subs(Top.rule)[Top.i] \in RuleName
         /\ Top.test \in BOOLEAN /\ Top.ut \in BOOLEAN
         /\ Top.phase = "look" => ~Top.test /\ Kind(Top.rule) # "Terminal"
<1>1. Top \in Frame /\ Len(frames) \in Nat \ {0}
  BY Typed DEF IInv
<1>2. FrameOK(Top)
  BY <1>1 DEF IInv, CallChain, Top
<1>3. Top.rule \in RuleName /\ Top.i \in Nat \ {0} /\ Top.test \in BOOLEAN /\ Top.ut \in BOOLEAN
  BY <1>1 DEF Frame
<1>4. Top.i \in 1..Len(Subs(Top.rule))
  BY <1>2, <1>3, RuleType DEF FrameOK
<1>5. Top.phase = "look" => ~Top.test /\ Lookahead(Top.rule) > 0
  <2>1. \A i \in Nat \ {0}, n \in Nat : i <= n => n > 0
    OBVIOUS
  <2>2. Lookahead(Top.rule) \in Nat
    BY <1>3, RuleType
  <2> QED BY <1>2, <1>3, <2>1, <2>2 DEF FrameOK
<1> QED BY <1>1, <1>2, <1>3, <1>4, <1>5, RuleType

\* Calls, for a lookahead and for a sub-rule.
LEMMA CallStep ==
  ASSUME IInv, LookAhead \/ Descend
  PROVE  IInv'
<1> DEFINE r == Subs(Top.rule)[Top.i]
<1>1. cur_tok_ \in Nat /\ r \in RuleName /\ Top.test \in BOOLEAN /\ Top.ut \in BOOLEAN
      /\ ChecksUserType(Top.rule) \in BOOLEAN
  BY Typed, TopFacts DEF IInv, ChecksUserType
<1>2. CASE LookAhead
  <2> DEFINE f == NewFrame(r, TRUE, ChecksUserType(Top.rule))
  <2>1. /\ f \in Frame /\ FrameOK(f) /\ f.rule = r /\ f.test = TRUE /\ f.phase # "ret"
        /\ f.tok_pos = cur_tok_ /\ f.pos0 = cur_tok_
    BY <1>1, Called
  <2>2. Calls(Top, f)
    BY <1>2, <2>1, TopFacts DEF LookAhead, Calls
  <2>3. frames' = Append(frames, f) /\ Top.phase # "ret" /\ UNCHANGED <<tokens_, cur_tok_, verdict>>
    BY <1>2 DEF LookAhead, Stay
  <2> HIDE DEF f
  <2> QED BY <2>1, <2>2, <2>3, PushStep
<1>3. CASE Descend
  <2> DEFINE f == NewFrame(r, Top.test, Top.ut)
  <2>1. /\ f \in Frame /\ FrameOK(f) /\ f.rule = r /\ f.test = Top.test /\ f.phase # "ret"
        /\ f.tok_pos = cur_tok_ /\ f.pos0 = cur_tok_
    BY <1>1, Called
  <2>2. Calls(Top, f)
    <3>1. Top.phase = "body" /\ Kind(Top.rule) # "Terminal"
      BY <1>3 DEF Descend
    <3>2. f.test = (Top.test \/ Top.phase = "look")
      <4>1. CASE Top.test = TRUE
        BY <4>1, <2>1
      <4>2. CASE Top.test = FALSE
        BY <4>2, <3>1, <2>1
      <4> QED BY <4>1, <4>2, <1>1
    <3> QED BY <3>1, <3>2, <2>1 DEF Calls
  <2>3. frames' = Append(frames, f) /\ Top.phase # "ret" /\ UNCHANGED <<tokens_, cur_tok_, verdict>>
    BY <1>3 DEF Descend, Stay
  <2> HIDE DEF f
  <2> QED BY <2>1, <2>2, <2>3, PushStep
<1> QED BY <1>2, <1>3

\* The current token cannot be behind the stream when the callee of a rule that is
\* not at its last sub-rule, or is no sequence, has returned.
LEMMA TokensLeft ==
  ASSUME IInv, HasCaller,
         ~AtLast \/ Kind(Caller.rule) # "Sequence" \/ Caller.phase = "look"
  PROVE  cur_tok_ # Len(tokens_)
<1>1. CASE ~AtLast \/ Kind(Caller.rule) # "Sequence"
  BY <1>1, CallerFacts, StartAssumption DEF Kind
<1>2. CASE Caller.phase = "look"
  <2>1. Caller.rule # Start
    <3>1. Caller.i \in Nat \ {0} /\ Caller.i <= Lookahead(Caller.rule)
      BY <1>2, CallerFacts DEF FrameOK, Frame
    <3>2. Lookahead(Start) = 0
      BY StartAssumption DEF Lookahead, ChecksUserType, Kind
    <3>3. \A i \in Nat \ {0} : ~(i <= 0)
      OBVIOUS
    <3> QED BY <3>1, <3>2, <3>3
  <2> QED BY <2>1, CallerFacts
<1> QED BY <1>1, <1>2

\* Moving on to the next sub-rule preserves the invariant, from the current token ...
LEMMA NextOn ==
  ASSUME IInv, HasCaller, ~AtLast \/ Caller.phase = "look",
         Caller.phase = "look" => Caller.i < Lookahead(Caller.rule),
         Caller.phase # "ret",
         frames' = Resume([Caller EXCEPT !.i = @ + 1]), UNCHANGED <<tokens_, cur_tok_, verdict>>
  PROVE  IInv'
<1> DEFINE f == [Caller EXCEPT !.i = @ + 1]
<1>1. /\ f \in Frame /\ f.rule = Caller.rule /\ f.test = Caller.test /\ f.pos0 = Caller.pos0
      /\ f.tok_pos = Caller.tok_pos /\ f.phase = Caller.phase /\ FrameOK(f)
  BY NextSub
<1>2. cur_tok_ # Len(tokens_)
  BY TokensLeft
<1>3. frames' = Resume(f)
  OBVIOUS
<1> HIDE DEF f
<1> QED BY <1>1, <1>2, <1>3, OnStep

\* ... or back at the backup, for the next alternative.
LEMMA NextBack ==
  ASSUME IInv, HasCaller, ~AtLast, Caller.phase = "body",
         frames' = Resume([Caller EXCEPT !.i = @ + 1]), cur_tok_' = Caller.tok_pos,
         UNCHANGED <<tokens_, verdict>>
  PROVE  IInv'
<1> DEFINE f == [Caller EXCEPT !.i = @ + 1]
<1>1. /\ f \in Frame /\ f.rule = Caller.rule /\ f.test = Caller.test /\ f.pos0 = Caller.pos0
      /\ f.tok_pos = Caller.tok_pos /\ f.phase = Caller.phase /\ FrameOK(f)
  BY NextSub
<1>2. frames' = Resume(f)
  OBVIOUS
<1> HIDE DEF f
<1> QED BY <1>1, <1>2, BackStep

\* A lookahead has answered.
LEMMA LookStep ==
  ASSUME IInv, LookaheadTrue \/ LookaheadFalse
  PROVE  IInv'
<1>1. HasCaller /\ Caller.phase = "look"
  BY DEF LookaheadTrue, LookaheadFalse, Looked
<1>2. CASE LookaheadFalse
  <2>1. (Kind(Caller.rule) # "Sequence") \in BOOLEAN
    OBVIOUS
  <2>2. (Kind(Caller.rule) # "Sequence") \/ Kind(Caller.rule) # "RepeatStar"
    OBVIOUS
  <2>3. /\ frames' = Resume(Return(Caller, Kind(Caller.rule) # "Sequence"))
        /\ cur_tok_' = Caller.tok_pos /\ UNCHANGED <<tokens_, verdict>>
    BY <1>2 DEF LookaheadFalse, Stay
  <2> QED BY <1>1, <2>1, <2>2, <2>3, ReturnBack
<1>3. CASE LookaheadTrue /\ Caller.i < Lookahead(Caller.rule)
  <2>1. frames' = Resume([Caller EXCEPT !.i = @ + 1]) /\ UNCHANGED <<tokens_, cur_tok_, verdict>>
    BY <1>3 DEF LookaheadTrue, Stay
  <2> QED BY <1>1, <1>3, <2>1, NextOn
<1>4. CASE LookaheadTrue /\ ~(Caller.i < Lookahead(Caller.rule))
  <2> DEFINE f == [Caller EXCEPT !.phase = "body", !.i = 1]
  <2>1. Caller \in Frame /\ Caller.rule \in RuleName
    BY <1>1, CallerFacts
  <2>2. /\ f \in Frame /\ f.rule = Caller.rule /\ f.test = Caller.test /\ f.pos0 = Caller.pos0
        /\ f.tok_pos = Caller.tok_pos /\ f.phase = "body" /\ f.i = 1
    <3> DEFINE h == [Caller EXCEPT !.phase = "body"]
    <3>1. /\ h \in Frame /\ h.rule = Caller.rule /\ h.test = Caller.test /\ h.pos0 = Caller.pos0
          /\ h.tok_pos = Caller.tok_pos /\ h.phase = "body"
      BY <2>1 DEF Frame, Phases
    <3>2. f = [h EXCEPT !.i = 1]
      OBVIOUS
    <3> HIDE DEF f, h
    <3> QED BY <3>1, <3>2 DEF Frame
  <2>3. FrameOK(f)
    BY <2>1, <2>2, RuleType DEF FrameOK
  <2>4. frames' = Resume(f) /\ cur_tok_' = Caller.tok_pos /\ UNCHANGED <<tokens_, verdict>>
    BY <1>4 DEF LookaheadTrue, Stay
  <2> HIDE DEF f
  <2> QED BY <1>1, <2>2, <2>3, <2>4, BackStep
<1> QED BY <1>2, <1>3, <1>4

\* A token rule, in TraverseRule or in TestRule, looks at the current token.
LEMMA TerminalStep ==
  ASSUME IInv, TerminalMatch \/ TerminalMismatch \/ TestTerminal
  PROVE  IInv'
<1>1. Top.phase = "body" /\ Kind(Top.rule) = "Terminal"
  BY DEF TerminalMatch, TerminalMismatch, TestTerminal
<1>2. CASE TerminalMatch
  <2>1. SUFFICES ASSUME frames' = Append(BelowTop, Return(Top, TRUE)), cur_tok_' = cur_tok_ + 1,
                        UNCHANGED <<tokens_, verdict>>
                 PROVE  IInv'
    BY <1>2, ActionStep DEF TerminalMatch
  <2>2. Tok.type = Subs(Top.rule)[1]
    BY <1>2 DEF TerminalMatch
  <2> QED BY <1>1, <2>1, <2>2, AnswerStep
<1>3. CASE TerminalMismatch
  <2>1. SUFFICES ASSUME frames' = Append(BelowTop, Return(Top, FALSE)), cur_tok_' = cur_tok_,
                        UNCHANGED <<tokens_, verdict>>
                 PROVE  IInv'
    BY <1>3, FailStep DEF TerminalMismatch
  <2> QED BY <1>1, <2>1, AnswerStep
<1>4. CASE TestTerminal
  <2> DEFINE match == Tok.type = Subs(Top.rule)[1] /\ (Top.ut => HasType(ac_, Tok))
  <2>1. /\ frames' = Append(BelowTop, Return(Top, match))
        /\ cur_tok_' = IF match THEN cur_tok_ + 1 ELSE cur_tok_
        /\ UNCHANGED <<tokens_, verdict>>
    BY <1>4 DEF TestTerminal, Stay
  <2>2. match \in BOOLEAN /\ (match => Tok.type = Subs(Top.rule)[1])
    OBVIOUS
  <2> HIDE DEF match
  <2> QED BY <1>1, <2>1, <2>2, AnswerStep
<1> QED BY <1>2, <1>3, <1>4

\* A sub-rule that is not the last one has matched.
LEMMA AdvanceStep ==
  ASSUME IInv, Advance
  PROVE  IInv'
<1>1. HasCaller /\ ~AtLast /\ Caller.phase = "body"
      /\ frames' = Resume([Caller EXCEPT !.i = @ + 1]) /\ UNCHANGED <<tokens_, cur_tok_, verdict>>
  BY DEF Advance, Stay
<1> QED BY <1>1, NextOn

\* A repetition has matched its last sub-rule.
LEMMA IterateStep ==
  ASSUME IInv, RepeatStarIterate \/ RepeatDaggerIterate \/ TestIterate
  PROVE  IInv'
<1>1. HasCaller /\ Caller.phase = "body" /\ Repeats(Caller.rule)
  BY DEF RepeatStarIterate, RepeatDaggerIterate, TestIterate, Traversed, Tested, Repeats
<1>2. Caller \in Frame /\ cur_tok_ \in Nat
  BY <1>1, CallerFacts
<1>3. CASE RepeatStarIterate \/ RepeatDaggerIterate
  <2> DEFINE f == NextIteration(Caller)
  <2>1. ~Caller.test
    BY <1>3 DEF RepeatStarIterate, RepeatDaggerIterate, Traversed
  <2>2. /\ f \in Frame /\ f.rule = Caller.rule /\ f.test = Caller.test /\ f.pos0 = Caller.pos0
        /\ f.tok_pos = cur_tok_ /\ f.i = 1 /\ f.phase # "ret"
        /\ f.phase = "look" => ~f.test /\ Lookahead(f.rule) > 0
    BY <1>2, <2>1, Iterated
  <2>3. SUFFICES ASSUME frames' = Resume(f), UNCHANGED <<tokens_, cur_tok_, verdict>>
                 PROVE  IInv'
    BY <1>3, ActionStep DEF RepeatStarIterate, RepeatDaggerIterate
  <2> HIDE DEF f
  <2> QED BY <1>1, <2>2, <2>3, AgainStep
<1>4. CASE TestIterate
  <2> DEFINE h == [Caller EXCEPT !.i = 1]
             f == [Caller EXCEPT !.i = 1, !.tok_pos = cur_tok_]
  <2>1. /\ h \in Frame /\ h.rule = Caller.rule /\ h.test = Caller.test /\ h.pos0 = Caller.pos0
        /\ h.i = 1 /\ h.phase = "body"
    BY <1>1, <1>2 DEF Frame
  <2>2. f = [h EXCEPT !.tok_pos = cur_tok_]
    OBVIOUS
  <2>3. frames' = Resume(f) /\ UNCHANGED <<tokens_, cur_tok_, verdict>>
    BY <1>4 DEF TestIterate, Stay
  <2> HIDE DEF f, h
  <2>4. /\ f \in Frame /\ f.rule = Caller.rule /\ f.test = Caller.test /\ f.pos0 = Caller.pos0
        /\ f.tok_pos = cur_tok_ /\ f.i = 1 /\ f.phase = "body"
    BY <2>1, <2>2, <1>2 DEF Frame
  <2> QED BY <1>1, <2>3, <2>4, AgainStep
<1> QED BY <1>3, <1>4

\* A repetition, sequence or option whose iteration or body has failed.
LEMMA StopStep ==
  ASSUME IInv, \/ RepeatStarStop \/ RepeatDaggerStop \/ SequenceFail \/ OptionsSkip
               \/ TestStop \/ (TestSequence /\ ~Top.res)
  PROVE  IInv'
<1>1. HasCaller
  BY DEF RepeatStarStop, RepeatDaggerStop, SequenceFail, OptionsSkip, TestStop, TestSequence,
         Traversed, Tested
<1>2. SUFFICES ASSUME NEW res \in BOOLEAN, res \/ Kind(Caller.rule) # "RepeatStar",
                      frames' = Resume(Return(Caller, res)), cur_tok_' = Caller.tok_pos,
                      UNCHANGED <<tokens_, verdict>>
               PROVE  IInv'
  <2>1. CASE RepeatStarStop
    BY <2>1, <1>2, FailStep DEF RepeatStarStop
  <2>2. CASE RepeatDaggerStop
    BY <2>2, <1>2, FailStep DEF RepeatDaggerStop, Traversed
  <2>3. CASE SequenceFail
    BY <2>3, <1>2, FailStep DEF SequenceFail, Traversed
  <2>4. CASE OptionsSkip
    BY <2>4, <1>2, FailStep DEF OptionsSkip
  <2>5. CASE TestStop
    <3>1. (Kind(Caller.rule) = "RepeatStar") \in BOOLEAN
      OBVIOUS
    <3> QED BY <2>5, <3>1, <1>2 DEF TestStop, Stay
  <2>6. CASE TestSequence /\ ~Top.res
    <3>1. (Kind(Caller.rule) = "Options") \in BOOLEAN
      OBVIOUS
    <3>2. /\ Kind(Caller.rule) # "RepeatStar"
          /\ frames' = Resume(Return(Caller, Kind(Caller.rule) = "Options"))
          /\ cur_tok_' = Caller.tok_pos /\ UNCHANGED <<tokens_, verdict>>
      BY <2>6 DEF TestSequence, Tested, Stay
    <3> QED BY <3>1, <3>2, <1>2
  <2> QED BY <2>1, <2>2, <2>3, <2>4, <2>5, <2>6
<1> QED BY <1>1, <1>2, ReturnBack

\* A rule whose last sub-rule, or one of whose alternatives, has matched.
LEMMA MatchStep ==
  ASSUME IInv, \/ SelectTake \/ SequenceMatch \/ OptionsMatch
               \/ (TestSelect \/ TestSequence) /\ Top.res
  PROVE  IInv'
<1>1. HasCaller
  BY DEF SelectTake, SequenceMatch, OptionsMatch, TestSelect, TestSequence, Traversed, Tested
<1>2. SUFFICES ASSUME frames' = Resume(Return(Caller, TRUE)),
                      UNCHANGED <<tokens_, cur_tok_, verdict>>
               PROVE  IInv'
  <2>1. CASE SelectTake \/ SequenceMatch \/ OptionsMatch
    BY <2>1, <1>2, ActionStep DEF SelectTake, SequenceMatch, OptionsMatch
  <2>2. CASE (TestSelect \/ TestSequence) /\ Top.res
    BY <2>2, <1>2 DEF TestSelect, TestSequence, Tested, Stay
  <2> QED BY <2>1, <2>2
<1> QED BY <1>1, <1>2, ReturnOn

\* An alternative that has failed.
LEMMA AlternativeStep ==
  ASSUME IInv, SelectNext \/ (TestSelect /\ ~Top.res)
  PROVE  IInv'
<1>1. HasCaller /\ Caller.phase = "body" /\ Kind(Caller.rule) = "Select"
  BY DEF SelectNext, TestSelect, Traversed, Tested
<1>2. SUFFICES ASSUME frames' = Resume(IF AtLast THEN Return(Caller, FALSE)
                                       ELSE [Caller EXCEPT !.i = @ + 1]),
                      cur_tok_' = Caller.tok_pos, UNCHANGED <<tokens_, verdict>>
               PROVE  IInv'
  <2>1. CASE SelectNext
    BY <2>1, <1>2, FailStep DEF SelectNext
  <2>2. CASE TestSelect /\ ~Top.res
    BY <2>2, <1>2 DEF TestSelect, Tested, Stay
  <2> QED BY <2>1, <2>2
<1>3. CASE AtLast
  BY <1>1, <1>2, <1>3, ReturnBack
<1>4. CASE ~AtLast
  BY <1>1, <1>2, <1>4, NextBack
<1> QED BY <1>3, <1>4

-----------------------------------------------------------------------------
(* The theorems                                                             *)

\* The invariant holds when StartParser calls TraverseRule(compilation_unit).
LEMMA InitIInv ==
  ASSUME Init
  PROVE  IInv
<1> DEFINE f == [rule |-> Start, test |-> FALSE, ut |-> FALSE, phase |-> "body",
                 i |-> 1, tok_pos |-> 0, res |-> FALSE, pos0 |-> 0]
<1>1. f \in Frame /\ Start \in RuleName
  BY TableAssumption DEF Frame, Phases
<1>2. frames = <<f>> /\ cur_tok_ = 0 /\ tokens_ \in TokenStreams /\ verdict = "running"
  BY DEF Init
<1>3. Len(frames) = 1 /\ frames[1] = f /\ Top = f /\ frames \in Seq(Frame) /\ frames # <<>>
  BY <1>1, <1>2 DEF Top
<1>4. Len(tokens_) \in Nat /\ Len(tokens_) > 0
  BY <1>2, StreamAssumption
<1>5. TypeOK
  BY <1>2, <1>3, <1>4 DEF TypeOK
<1>6. CallChain
  <2>1. FrameOK(f)
    BY <1>1, RuleType DEF FrameOK
  <2>2. \A k \in 1..Len(frames) : k = 1
    BY <1>3
  <2>3. \A k \in 1..Len(frames) - 1 : FALSE
    BY <1>3
  <2>4. frames[1].rule = Start /\ ~frames[1].test
    BY <1>3
  <2> HIDE DEF f
  <2> QED BY <1>3, <2>1, <2>2, <2>3, <2>4 DEF CallChain
<1>7. Positions
  BY <1>2, <1>3, <1>4, StartAssumption DEF Positions, Kind
<1>8. FalseRestores
  BY <1>3 DEF FalseRestores
<1> QED BY <1>5, <1>6, <1>7, <1>8 DEF IInv

\* Every step preserves the invariant.
LEMMA NextIInv ==
  ASSUME IInv, [Next]_vars
  PROVE  IInv'
<1>1. CASE LookAhead \/ Descend
  BY <1>1, CallStep
<1>2. CASE LookaheadTrue \/ LookaheadFalse
  BY <1>2, LookStep
<1>3. CASE TerminalMatch \/ TerminalMismatch \/ TestTerminal
  BY <1>3, TerminalStep
<1>4. CASE Advance
  BY <1>4, AdvanceStep
<1>5. CASE RepeatStarIterate \/ RepeatDaggerIterate \/ TestIterate
  BY <1>5, IterateStep
<1>6. CASE RepeatStarStop \/ RepeatDaggerStop \/ SequenceFail \/ OptionsSkip \/ TestStop
  BY <1>6, StopStep
<1>7. CASE SelectTake \/ SequenceMatch \/ OptionsMatch
  BY <1>7, MatchStep
<1>8. CASE SelectNext
  BY <1>8, AlternativeStep
<1>9. CASE TestSelect
  BY <1>9, MatchStep, AlternativeStep
<1>10. CASE TestSequence
  BY <1>10, MatchStep, StopStep
<1>11. CASE Finish
  BY <1>11, VerdictStep DEF Finish
<1>12. CASE UNCHANGED vars
  BY <1>12, VerdictStep DEF vars
<1> QED
  BY <1>1, <1>2, <1>3, <1>4, <1>5, <1>6, <1>7, <1>8, <1>9, <1>10, <1>11, <1>12
  DEF Next, TraverseRule, TestRule, Terminated

\* The inductive invariant holds throughout every parse.
THEOREM Invariance == Spec => []IInv
<1>1. Init => IInv
  BY InitIInv
<1>2. IInv /\ [Next]_vars => IInv'
  BY NextIInv
<1> QED BY <1>1, <1>2, PTL DEF Spec

\* The token position never leaves the stream and the call stack holds activations
\* of rules of the table.
THEOREM TypeCorrect == Spec => []TypeOK
<1>1. IInv => TypeOK
  BY DEF IInv
<1> QED BY <1>1, Invariance, PTL

\* TestRule never calls TraverseRule, so that no semantic action runs in a lookahead,
\* and every activation was called for the sub-rule its caller is at.
THEOREM CallStackSound == Spec => []CallChain
<1>1. IInv => CallChain
  BY DEF IInv
<1> QED BY <1>1, Invariance, PTL

\* Backups of the token position nest as the activations do, and the stream is used
\* up only when the start rule has matched its last sub-rule.
THEOREM BackupsNest == Spec => []Positions
<1>1. IInv => Positions
  BY DEF IInv
<1> QED BY <1>1, Invariance, PTL

\* The parser never asks for a token behind the TokEof that ends the stream.
THEOREM NeverReadsPastEnd == Spec => []TokenBounds
<1>1. IInv => TokenBounds
  <2>1. SUFFICES ASSUME IInv, Top.phase = "body" PROVE cur_tok_ < Len(tokens_)
    BY DEF TokenBounds
  <2>2. cur_tok_ \in 0..Len(tokens_) /\ Len(tokens_) \in Nat /\ cur_tok_ # Len(tokens_)
    BY <2>1, Typed DEF IInv, TypeOK, Positions, AtEnd
  <2> QED BY <2>2
<1> QED BY <1>1, Invariance, PTL

\* A rule that answers False, unless it is a RepeatDagger, has restored the position.
THEOREM FailureRestores == Spec => []FalseRestores
<1>1. IInv => FalseRestores
  BY DEF IInv
<1> QED BY <1>1, Invariance, PTL
=============================================================================
