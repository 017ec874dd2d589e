--------------------------- MODULE Language_proofs ---------------------------
(***************************************************************************)
(* The engine of RuleEngine answers what the rules of the grammar say: for *)
(* every rule table, every stream of tokens, and every pair of relations   *)
(* closed under the rules of Language, in particular the least one.        *)
(***************************************************************************)
EXTENDS Language, RuleEngine_proofs

-----------------------------------------------------------------------------
(* Positions and ways to read                                               *)

\* The positions of a stream.
LEMMA StreamPositions ==
  ASSUME NEW s \in TokenStreams
  PROVE  /\ Len(s) \in Nat \ {0} /\ Starts(s) \subseteq Ends(s) /\ Ends(s) \subseteq Nat
         /\ Starts(s) \subseteq Nat /\ Fail \notin Ends(s)
         /\ \A p \in Starts(s) : p + 1 \in Everywhere(s) /\ p + 1 \in Ends(s)
         /\ \A p \in Nat : (p <= Len(s) => p \in Ends(s)) /\ (p < Len(s) => p \in Starts(s))
<1>1. Len(s) \in Nat \ {0}
  BY StreamAssumption
<1> QED BY <1>1 DEF Starts, Ends, Everywhere, Fail

\* A rule that does not traverse has a look of its own, one of the ways to read.
LEMMA LookModes ==
  ASSUME NEW s, NEW r
  PROVE  Sees(s, r) \subseteq Modes(s) /\ \A l \in Sees(s, r) : l.test
BY DEF Sees, Modes, TestingTypes, Testing, Mode

\* An activation reads in one of the ways there are, and where it does not test the
\* context makes no difference.
LEMMA ModeFacts ==
  ASSUME NEW f \in Frame, NEW s, NEW ac \in Contexts
  PROVE  /\ ModeIn(s, ac, f) \in Modes(s) /\ ModeIn(s, ac, f).test = f.test
         /\ ~f.test => \A x : ModeIn(s, x, f) = ModeIn(s, ac, f)
<1>1. f.test \in BOOLEAN /\ f.ut \in BOOLEAN
  BY DEF Frame
<1>2. CASE f.test /\ f.ut
  BY <1>1, <1>2 DEF ModeIn, Mode, Modes, TestingTypes
<1>3. CASE f.test /\ ~f.ut
  BY <1>1, <1>3 DEF ModeIn, Mode, Modes, Testing
<1>4. CASE ~f.test
  BY <1>1, <1>4 DEF ModeIn, Mode, Modes, Traversing
<1> QED BY <1>1, <1>2, <1>3, <1>4

-----------------------------------------------------------------------------
(* Closure: what follows from what has been read                            *)

\* A reading by the rule of r is a reading.
LEMMA Derived ==
  ASSUME NEW s \in TokenStreams, NEW m \in Modes(s), NEW r \in RuleName, NEW p \in Starts(s),
         NEW o \in Outcomes(s), Derives(s, m, r, p, o)
  PROVE  Reads(s, m, r, p, o)
BY ReadsAssumption

\* One more sub-rule has been read ...
LEMMA ReadsOn ==
  ASSUME NEW s \in TokenStreams, NEW m \in Modes(s), NEW r \in RuleName, NEW p \in Starts(s),
         NEW i \in 1..Last(r), NEW q \in Starts(s), NEW e \in Ends(s),
         ReadsFirst(s, m, r, i - 1, p, q), Reads(s, m, Subs(r)[i], q, e)
  PROVE  ReadsFirst(s, m, r, i, p, e)
<1> DEFINE n == i - 1
<1>1. Last(r) \in Nat
  BY RuleType DEF Last
<1>2. n \in 0..Last(r) - 1 /\ n + 1 = i
  BY <1>1
<1> HIDE DEF n
<1>3. ReadsFirst(s, m, r, n, p, q) /\ Reads(s, m, Subs(r)[n + 1], q, e)
      => ReadsFirst(s, m, r, n + 1, p, e)
  BY <1>2, ReadsFirstAssumption
<1>4. n = i - 1
  BY DEF n
<1> QED BY <1>2, <1>3, <1>4

\* ... or cannot be.
LEMMA BreaksAt ==
  ASSUME NEW s, NEW m, NEW r, NEW p, NEW n \in Nat, NEW i \in 1..n, NEW q \in Starts(s),
         ReadsFirst(s, m, r, i - 1, p, q), Reads(s, m, Subs(r)[i], q, Fail)
  PROVE  BreaksWithin(s, m, r, n, p)
<1> DEFINE k == i - 1
<1>1. k \in 0..n - 1 /\ k + 1 = i
  OBVIOUS
<1>2. ReadsFirst(s, m, r, k, p, q)
  OBVIOUS
<1> HIDE DEF k
<1> QED BY <1>1, <1>2 DEF BreaksWithin

\* A rule that looks ahead has sub-rules to read; one look is as good as another
\* when there is more than one lookahead.
LEMMA LooksAlike ==
  ASSUME NEW s, NEW r \in RuleName, ac_ \in Contexts
  PROVE  /\ \E l \in Sees(s, r) : TRUE
         /\ \A i \in Nat \ {0} : i < Lookahead(r) => Sees(s, r) = {Testing(s)}
         /\ Lookahead(r) = 0 /\ Kind(r) \notin {"Select", "Terminal"} => Sees(s, r) = {Testing(s)}
<1>1. \E l \in Sees(s, r) : TRUE
  BY DEF Sees, TestingTypes
<1>2. ASSUME NEW i \in Nat \ {0}, i < Lookahead(r) PROVE Sees(s, r) = {Testing(s)}
  BY <1>2 DEF Lookahead, Sees
<1>3. Lookahead(r) = 0 /\ Kind(r) \notin {"Select", "Terminal"} => Sees(s, r) = {Testing(s)}
  BY DEF Lookahead, Sees
<1> QED BY <1>1, <1>2, <1>3

-----------------------------------------------------------------------------
(* Frames                                                                   *)

\* A step that leaves the frames and the position.
LEMMA LanguageSame ==
  ASSUME LanguageInv, UNCHANGED <<tokens_, cur_tok_, frames, ac_>>
  PROVE  LanguageInv'
<1>1. Top' = Top /\ \A f : ModeOf(f)' = ModeOf(f)
  BY DEF Top, ModeOf
<1>2. MatchesGrammar'
  BY <1>1 DEF LanguageInv, MatchesGrammar, Answer
<1>3. \A k \in 1..Len(frames) : Here(k)' = Here(k) /\ ModeOf(frames[k])' = ModeOf(frames[k])
  BY DEF Here, ModeOf
<1> QED BY <1>2, <1>3 DEF LanguageInv

\* A call.
LEMMA LanguagePush ==
  ASSUME IInv, LanguageInv, NEW f \in Frame,
         Top.phase # "ret", f.phase # "ret", f.pos0 = cur_tok_, InMode(Top, f), Top.test => f.test,
         ReadSoFar(tokens_, ModeOf(f), f, cur_tok_),
         frames' = Append(frames, f), UNCHANGED <<tokens_, cur_tok_, ac_>>
  PROVE  LanguageInv'
<1> DEFINE n == Len(frames)
<1>1. /\ frames' \in Seq(Frame) /\ Len(frames') = n + 1 /\ frames' # <<>>
      /\ \A k \in 1..n : frames'[k] = frames[k]
      /\ frames'[n + 1] = f
  BY Pushed DEF IInv, TypeOK
<1>2. n \in Nat \ {0} /\ \A k \in 1..n : frames[k] \in Frame
  BY Typed DEF IInv
<1>3. Top = frames[n] /\ Top' = f
  BY <1>1 DEF Top
<1> HIDE DEF n
<1>4. ASSUME NEW k \in 1..Len(frames'), NEW l \in 1..Len(frames'), k < l, frames'[k].test
      PROVE  frames'[l].test
  <2>1. \A i, j \in 1..n : i < j /\ frames[i].test => frames[j].test
    BY DEF LanguageInv, n
  <2>2. k \in 1..n /\ frames[k].test
    BY <1>1, <1>2, <1>4
  <2>3. CASE l = n + 1
    BY <2>1, <2>2, <2>3, <1>1, <1>2, <1>3
  <2>4. CASE l \in 1..n
    BY <2>1, <2>2, <2>4, <1>1, <1>4
  <2> QED BY <2>3, <2>4, <1>1, <1>2
<1>5. ASSUME NEW k \in 1..Len(frames') - 1 PROVE InMode(frames'[k], frames'[k + 1])
  <2>1. CASE k = n
    BY <2>1, <1>1, <1>2, <1>3
  <2>2. CASE k < n
    BY <2>2, <1>1, <1>2 DEF LanguageInv, n
  <2> QED BY <2>1, <2>2, <1>1, <1>2
<1>6. ASSUME NEW k \in 1..Len(frames'), frames'[k].phase # "ret"
      PROVE  ReadSoFar(tokens_', ModeOf(frames[k])', frames'[k], Here(k)')
  <2>1. CASE k = n + 1
    <3>1. Here(k)' = cur_tok_
      BY <2>1, <1>1 DEF Here
    <3> QED BY <3>1, <2>1, <1>1 DEF ModeOf
  <2>2. CASE k \in 1..n
    <3>1. frames'[k] = frames[k] /\ ReadSoFar(tokens_, ModeOf(frames[k]), frames[k], Here(k))
      BY <2>2, <1>1, <1>6 DEF LanguageInv, n
    <3>2. Here(k)' = Here(k)
      <4>1. CASE k = n
        BY <4>1, <1>1, <1>2 DEF Here, n
      <4>2. CASE k < n
        <5>1. k + 1 \in 1..n /\ k # n + 1 /\ k # n
          BY <4>2, <2>2, <1>2
        <5> QED BY <5>1, <1>1 DEF Here, n
      <4> QED BY <4>1, <4>2, <2>2, <1>2
    <3> QED BY <3>1, <3>2 DEF ModeOf
  <2> QED BY <2>1, <2>2, <1>1, <1>2
<1>7. MatchesGrammar'
  BY <1>3 DEF MatchesGrammar
<1>8. frames'[1].pos0 = 0
  BY <1>1, <1>2 DEF LanguageInv, n
<1> QED BY <1>4, <1>5, <1>6, <1>7, <1>8 DEF LanguageInv

\* A frame f that takes the place of frames[m + 1] and of all above it.  A step that
\* changes the context traverses, and so do the activations below it.
LEMMA LanguageRewrite ==
  ASSUME IInv, LanguageInv, ac_ \in Contexts, NEW f \in Frame, NEW m \in 0..Len(frames) - 1,
         f.rule = frames[m + 1].rule, f.test = frames[m + 1].test, f.ut = frames[m + 1].ut,
         f.pos0 = frames[m + 1].pos0,
         f.phase # "ret" => ReadSoFar(tokens_, ModeOf(f), f, cur_tok_'),
         f.phase = "ret" => Reads(tokens_, ModeOf(f), f.rule, f.pos0, Answer(f, cur_tok_')),
         ac_' = ac_ \/ ~f.test,
         frames' = Append(SubSeq(frames, 1, m), f), tokens_' = tokens_
  PROVE  LanguageInv'
<1>1. /\ frames' \in Seq(Frame) /\ Len(frames') = m + 1 /\ frames' # <<>>
      /\ \A k \in 1..m : frames'[k] = frames[k]
      /\ frames'[m + 1] = f
  <2>1. frames \in Seq(Frame) /\ m \in 0..Len(frames)
    BY Typed DEF IInv
  <2> QED BY <2>1, CutBack
<1>2. /\ Len(frames) \in Nat \ {0} /\ \A k \in 1..Len(frames) : frames[k] \in Frame
      /\ m \in Nat /\ m + 1 \in 1..Len(frames)
  BY Typed DEF IInv
<1>3. Top' = f
  BY <1>1 DEF Top
<1>4. ASSUME NEW k \in 1..m + 1
      PROVE  k \in 1..Len(frames) /\ frames'[k].test = frames[k].test /\ frames'[k].ut = frames[k].ut
             /\ frames'[k].pos0 = frames[k].pos0
  BY <1>1, <1>2
<1>5. ASSUME NEW k \in 1..Len(frames'), NEW l \in 1..Len(frames'), k < l, frames'[k].test
      PROVE  frames'[l].test
  BY <1>1, <1>4, <1>5 DEF LanguageInv
<1>6. ASSUME NEW k \in 1..Len(frames') - 1 PROVE InMode(frames'[k], frames'[k + 1])
  <2>1. k \in 1..m /\ k + 1 \in 1..m + 1 /\ k \in 1..Len(frames) - 1
    BY <1>1, <1>2
  <2>2. InMode(frames[k], frames[k + 1]) /\ frames'[k] = frames[k]
    BY <2>1, <1>1 DEF LanguageInv
  <2> QED BY <2>1, <2>2, <1>4 DEF InMode
<1>7. \A x : (ac_' = ac_ \/ ~x.test) /\ x \in Frame => ModeIn(tokens_, ac_', x) = ModeIn(tokens_, ac_, x)
  BY ModeFacts
<1>8. ASSUME NEW k \in 1..Len(frames'), frames'[k].phase # "ret"
      PROVE  ReadSoFar(tokens_', ModeOf(frames[k])', frames'[k], Here(k)')
  <2>1. CASE k = m + 1
    <3>1. Here(k)' = cur_tok_' /\ frames'[k] = f
      BY <2>1, <1>1 DEF Here
    <3> QED BY <3>1, <1>7, <1>8 DEF ModeOf
  <2>2. CASE k \in 1..m
    <3>1. frames'[k] = frames[k] /\ ReadSoFar(tokens_, ModeOf(frames[k]), frames[k], Here(k))
      BY <2>2, <1>1, <1>4, <1>8 DEF LanguageInv
    <3>2. Here(k)' = Here(k)
      BY <2>2, <1>1, <1>2, <1>4 DEF Here
    <3>3. ac_' = ac_ \/ ~frames[k].test
      <4>1. k < m + 1 /\ k \in 1..Len(frames)
        BY <2>2, <1>2
      <4> QED BY <4>1, <1>2 DEF LanguageInv
    <3>4. frames[k] \in Frame
      BY <2>2, <1>2
    <3> QED BY <3>1, <3>2, <3>3, <3>4, <1>7 DEF ModeOf
  <2> QED BY <2>1, <2>2, <1>1, <1>2
<1>9. MatchesGrammar'
  BY <1>3, <1>7 DEF MatchesGrammar, ModeOf
<1>10. frames'[1].pos0 = 0
  BY <1>2, <1>4 DEF LanguageInv
<1> QED BY <1>5, <1>6, <1>8, <1>9, <1>10 DEF LanguageInv

\* The caller of an activation that has returned goes on as f.
LEMMA LanguageResume ==
  ASSUME IInv, LanguageInv, ac_ \in Contexts, HasCaller, NEW f \in Frame,
         f.rule = Caller.rule, f.test = Caller.test, f.ut = Caller.ut, f.pos0 = Caller.pos0,
         f.phase # "ret" => ReadSoFar(tokens_, ModeOf(Caller), f, cur_tok_'),
         f.phase = "ret" => Reads(tokens_, ModeOf(Caller), f.rule, f.pos0, Answer(f, cur_tok_')),
         ac_' = ac_ \/ ~f.test,
         frames' = Resume(f), tokens_' = tokens_
  PROVE  LanguageInv'
<1> DEFINE m == Len(frames) - 2
<1>1. m \in 0..Len(frames) - 1 /\ m + 1 = Len(frames) - 1
  BY CallerFacts
<1>2. frames' = Append(SubSeq(frames, 1, m), f)
  BY DEF Resume, Callers
<1>3. Caller = frames[m + 1]
  BY <1>1 DEF Caller
<1>4. ModeOf(f) = ModeOf(Caller)
  BY DEF ModeOf, ModeIn
<1> HIDE DEF m
<1> QED BY <1>1, <1>2, <1>3, <1>4, LanguageRewrite

\* An activation, or an iteration, that begins has read nothing.
LEMMA Fresh ==
  ASSUME NEW f \in Frame, NEW m \in Modes(tokens_), tokens_ \in TokenStreams, ac_ \in Contexts,
         m.test = f.test, f.tok_pos \in Starts(tokens_), f.i = 1,
         f.phase = "body" => f.test \/ Lookahead(f.rule) = 0,
         Repeats(f.rule) => \A o \in Outcomes(tokens_) :
           Reads(tokens_, m, f.rule, f.tok_pos, o) => Reads(tokens_, m, f.rule, f.pos0, o)
  PROVE  ReadSoFar(tokens_, m, f, f.tok_pos)
<1> DEFINE s == tokens_
           p == f.tok_pos
<1>1. f.rule \in RuleName /\ f.i - 1 = 0
  BY DEF Frame
<1>2. \A l \in Modes(s) : ReadsFirst(s, l, f.rule, 0, p, p)
  BY <1>1, ReadsFirstAssumption
<1>3. \A l \in Sees(s, f.rule) : ReadsFirst(s, l, f.rule, 0, p, p)
  BY <1>2, LookModes
<1>4. NoneOf(s, m, f.rule, 0, p)
  BY DEF NoneOf
<1>5. ASSUME f.phase = "body", Kind(f.rule) \notin {"Select", "Terminal"}
      PROVE  Ahead(s, m, f.rule, p)
  <2>1. CASE f.test
    BY <2>1 DEF Ahead
  <2>2. CASE Lookahead(f.rule) = 0
    <3>1. PICK l \in Sees(s, f.rule) : TRUE
      BY <1>1, LooksAlike
    <3>2. p \in Ends(s) /\ ReadsFirst(s, l, f.rule, Lookahead(f.rule), p, p)
      BY <2>2, <1>3, StreamPositions
    <3> QED BY <3>2 DEF Ahead
  <2> QED BY <1>5, <2>1, <2>2
<1> HIDE DEF s, p
<1>6. s = tokens_ /\ p = f.tok_pos
  BY DEF s, p
<1> QED BY <1>1, <1>2, <1>3, <1>4, <1>5, <1>6 DEF ReadSoFar

\* What the invariants say when an activation has returned.
LEMMA Callee ==
  ASSUME IInv, LanguageInv, ac_ \in Contexts, HasCaller, Top.phase = "ret"
  PROVE  /\ tokens_ \in TokenStreams /\ ModeOf(Caller) \in Modes(tokens_)
         /\ ModeOf(Caller).test = Caller.test
         /\ Caller.phase # "ret" /\ Caller.rule \in RuleName /\ Kind(Caller.rule) # "Terminal"
         /\ Caller.i \in 1..Last(Caller.rule) /\ Top.res \in BOOLEAN
         /\ Caller.phase = "look" => Caller.i <= Lookahead(Caller.rule) /\ ~Caller.test
         /\ Caller.tok_pos \in Starts(tokens_) /\ Top.pos0 \in Starts(tokens_)
         /\ cur_tok_ \in Ends(tokens_)
         /\ ReadSoFar(tokens_, ModeOf(Caller), Caller, Top.pos0)
         /\ Caller.phase = "body" =>
              Reads(tokens_, ModeOf(Caller), Subs(Caller.rule)[Caller.i], Top.pos0,
                    Answer(Top, cur_tok_))
         /\ Caller.phase = "look" => \E l \in Sees(tokens_, Caller.rule) :
              Reads(tokens_, l, Subs(Caller.rule)[Caller.i], Top.pos0, Answer(Top, cur_tok_))
<1> DEFINE n == Len(frames) - 1
<1>1. /\ n \in 1..Len(frames) /\ n \in 1..Len(frames) - 1 /\ n + 1 = Len(frames) /\ n # Len(frames)
      /\ Caller = frames[n] /\ Top = frames[n + 1]
  BY CallerFacts DEF Caller, Top
<1> HIDE DEF n
<1>2. /\ Caller \in Frame /\ Caller.rule \in RuleName /\ FrameOK(Caller) /\ Calls(Caller, Top)
      /\ Backup(Caller, tokens_) /\ Caller.tok_pos \in Nat /\ Len(tokens_) \in Nat
      /\ Top \in Frame /\ Top.pos0 \in Nat /\ Top.res \in BOOLEAN
      /\ tokens_ \in TokenStreams /\ cur_tok_ \in 0..Len(tokens_)
  BY CallerFacts, TopFacts DEF IInv, TypeOK, Frame
<1>3. Top.pos0 < Len(tokens_)
  <2>1. frames[n + 1].pos0 <= frames[n + 1].tok_pos /\ frames[n + 1].tok_pos < Len(tokens_)
    BY <1>1 DEF IInv, Positions
  <2>2. Top.tok_pos \in Nat
    BY <1>2 DEF Frame
  <2> QED BY <1>1, <1>2, <2>1, <2>2
<1>4. Caller.i \in 1..Last(Caller.rule) /\ Kind(Caller.rule) # "Terminal"
  BY <1>2, RuleType DEF FrameOK, Calls, Last, Frame
<1>5. Caller.phase # "ret"
  BY <1>2 DEF Calls
<1>6. Caller.phase = "look" => Caller.i <= Lookahead(Caller.rule) /\ ~Caller.test
  BY <1>2 DEF FrameOK
<1>7. Caller.tok_pos \in Starts(tokens_) /\ Top.pos0 \in Starts(tokens_) /\ cur_tok_ \in Ends(tokens_)
  BY <1>2, <1>3 DEF Starts, Ends, Backup
<1>8. ModeOf(Caller) \in Modes(tokens_) /\ ModeOf(Caller).test = Caller.test
  BY <1>2, ModeFacts DEF ModeOf
<1>9. ReadSoFar(tokens_, ModeOf(Caller), Caller, Top.pos0)
  <2>1. Here(n) = Top.pos0
    BY <1>1 DEF Here
  <2>2. n \in 1..Len(frames) /\ frames[n].phase # "ret"
    BY <1>1, <1>5
  <2>3. ReadSoFar(tokens_, ModeOf(frames[n]), frames[n], Here(n))
    BY <2>2 DEF LanguageInv
  <2> QED BY <1>1, <2>1, <2>3
<1>10. /\ Reads(tokens_, ModeOf(Top), Subs(Caller.rule)[Caller.i], Top.pos0, Answer(Top, cur_tok_))
      /\ Top.test = (Caller.test \/ Caller.phase = "look") /\ InMode(Caller, Top)
  BY <1>1, <1>2 DEF LanguageInv, MatchesGrammar, Calls
<1>11. ASSUME Caller.phase = "body" PROVE ModeOf(Top) = ModeOf(Caller)
  <2>1. CASE Caller.test = TRUE
    BY <1>11, <2>1, <1>10 DEF ModeOf, ModeIn, Mode, InMode
  <2>2. CASE Caller.test = FALSE
    <3>1. Top.test = FALSE
      BY <1>11, <2>2, <1>10
    <3> QED BY <2>2, <3>1 DEF ModeOf, ModeIn, Mode
  <2>3. Caller.test \in BOOLEAN
    BY <1>2 DEF Frame
  <2> QED BY <2>1, <2>2, <2>3
<1>12. Caller.phase = "look" => ModeOf(Top) \in Sees(tokens_, Caller.rule)
  BY <1>10 DEF ModeOf, ModeIn, Mode, InMode, Sees, TestingTypes, Testing
<1> QED BY <1>2, <1>4, <1>7, <1>8, <1>9, <1>10, <1>11, <1>12, <1>5, <1>6

-----------------------------------------------------------------------------
(* The steps                                                                *)

\* Calls, for a lookahead and for a sub-rule.
LEMMA LanguageCall ==
  ASSUME IInv, LanguageInv, ac_ \in Contexts, LookAhead \/ Descend
  PROVE  LanguageInv'
<1> DEFINE r == Subs(Top.rule)[Top.i]
<1>1. /\ cur_tok_ \in Starts(tokens_) /\ cur_tok_ \in Nat /\ tokens_ \in TokenStreams
      /\ r \in RuleName /\ ChecksUserType(Top.rule) \in BOOLEAN /\ Top.phase # "ret"
  <2>1. Top.phase # "ret"
    BY DEF LookAhead, Descend
  <2>2. cur_tok_ # Len(tokens_)
    BY <2>1 DEF IInv, Positions, AtEnd
  <2>3. tokens_ \in TokenStreams /\ cur_tok_ \in 0..Len(tokens_) /\ Len(tokens_) \in Nat
    BY Typed DEF IInv, TypeOK
  <2> QED BY <2>1, <2>2, <2>3, TopFacts DEF Starts, ChecksUserType
<1>2. Top.test \in BOOLEAN /\ Top.ut \in BOOLEAN
  BY TopFacts
<1>3. SUFFICES ASSUME NEW test \in BOOLEAN, NEW ut \in BOOLEAN,
                      InMode(Top, NewFrame(r, test, ut)), Top.test => test,
                      frames' = Append(frames, NewFrame(r, test, ut)),
                      UNCHANGED <<tokens_, cur_tok_, ac_>>
               PROVE  LanguageInv'
  <2>1. CASE LookAhead
    <3> DEFINE f == NewFrame(r, TRUE, ChecksUserType(Top.rule))
    <3>1. InMode(Top, f)
      BY <2>1 DEF LookAhead, InMode, NewFrame
    <3>2. frames' = Append(frames, f) /\ UNCHANGED <<tokens_, cur_tok_, ac_>>
      BY <2>1 DEF LookAhead, Stay
    <3> QED BY <1>1, <1>3, <3>1, <3>2
  <2>2. CASE Descend
    <3> DEFINE f == NewFrame(r, Top.test, Top.ut)
    <3>1. InMode(Top, f)
      BY <2>2 DEF Descend, InMode, NewFrame
    <3>2. frames' = Append(frames, f) /\ UNCHANGED <<tokens_, cur_tok_, ac_>>
      BY <2>2 DEF Descend, Stay
    <3> QED BY <1>2, <1>3, <3>1, <3>2
  <2> QED BY <2>1, <2>2
<1> DEFINE f == NewFrame(r, test, ut)
<1>4. /\ f \in Frame /\ f.rule = r /\ f.test = test /\ f.phase # "ret"
      /\ f.tok_pos = cur_tok_ /\ f.pos0 = cur_tok_
  BY <1>1, <1>3, Called
<1>5. f.i = 1 /\ (f.phase = "body" => f.test \/ Lookahead(f.rule) = 0)
  <2>1. Lookahead(r) \in Nat
    BY <1>1, RuleType
  <2>2. f.i = 1
    BY DEF NewFrame
  <2>3. f.phase = IF ~test /\ Lookahead(r) > 0 THEN "look" ELSE "body"
    BY DEF NewFrame
  <2>4. Lookahead(r) > 0 \/ Lookahead(r) = 0
    BY <2>1
  <2> QED BY <1>4, <2>2, <2>3, <2>4
<1>6. InMode(Top, f) /\ (Top.test => f.test) /\ frames' = Append(frames, f)
  BY <1>3, <1>4
<1> HIDE DEF f
<1>7. ModeOf(f) \in Modes(tokens_) /\ ModeOf(f).test = f.test
  BY <1>4, ModeFacts DEF ModeOf
<1>8. ReadSoFar(tokens_, ModeOf(f), f, cur_tok_)
  BY <1>1, <1>4, <1>5, <1>7, Fresh
<1> QED BY <1>1, <1>3, <1>4, <1>6, <1>8, LanguagePush

\* A token rule answers where it was called.
LEMMA LanguageTerminal ==
  ASSUME IInv, LanguageInv, ac_ \in Contexts, TerminalMatch \/ TerminalMismatch \/ TestTerminal
  PROVE  LanguageInv'
<1> DEFINE match == Tok.type = Subs(Top.rule)[1] /\ (Top.test /\ Top.ut => HasType(ac_, Tok))
           m == Len(frames) - 1
           f == Return(Top, match)
<1>1. Top.phase = "body" /\ Kind(Top.rule) = "Terminal"
  BY DEF TerminalMatch, TerminalMismatch, TestTerminal
<1>2. SUFFICES ASSUME frames' = Append(BelowTop, f),
                      cur_tok_' = IF match THEN cur_tok_ + 1 ELSE cur_tok_,
                      tokens_' = tokens_, ac_' = ac_ \/ ~Top.test
               PROVE  LanguageInv'
  <2>1. CASE TerminalMatch
    <3>1. match = TRUE /\ ~Top.test
      BY <2>1 DEF TerminalMatch
    <3>2. \/ frames' = Append(BelowTop, f) /\ cur_tok_' = cur_tok_ + 1 /\ tokens_' = tokens_
          \/ UNCHANGED <<tokens_, cur_tok_, frames, ac_>>
      BY <2>1, <3>1 DEF TerminalMatch, RunAction
    <3> QED BY <1>2, <3>1, <3>2, LanguageSame
  <2>2. CASE TerminalMismatch
    <3>1. match = FALSE
      BY <2>2 DEF TerminalMismatch
    <3>2. \/ frames' = Append(BelowTop, f) /\ cur_tok_' = cur_tok_ /\ UNCHANGED <<tokens_, ac_>>
          \/ UNCHANGED <<tokens_, cur_tok_, frames, ac_>>
      BY <2>2, <3>1 DEF TerminalMismatch, RunFail, Stay
    <3> QED BY <1>2, <3>1, <3>2, LanguageSame
  <2>3. CASE TestTerminal
    <3>1. match = (Tok.type = Subs(Top.rule)[1] /\ (Top.ut => HasType(ac_, Tok)))
      BY <2>3 DEF TestTerminal
    <3> QED BY <1>2, <2>3, <3>1 DEF TestTerminal, Stay
  <2> QED BY <2>1, <2>2, <2>3
<1>3. /\ Top \in Frame /\ Top.rule \in RuleName /\ m \in 0..Len(frames) - 1
      /\ frames[m + 1] = Top /\ Len(frames) \in Nat
  BY TopFacts, Typed DEF IInv, Top
<1>4. /\ tokens_ \in TokenStreams /\ Top.pos0 = cur_tok_ /\ cur_tok_ \in Starts(tokens_)
      /\ Len(tokens_) \in Nat
  <2>1. cur_tok_ = Top.pos0 /\ cur_tok_ # Len(tokens_)
    BY <1>1 DEF IInv, Positions, AtEnd
  <2>2. tokens_ \in TokenStreams /\ cur_tok_ \in 0..Len(tokens_) /\ Len(tokens_) \in Nat
    BY Typed DEF IInv, TypeOK
  <2> QED BY <2>1, <2>2 DEF Starts
<1>5. match \in BOOLEAN
  OBVIOUS
<1>6. /\ f \in Frame /\ f.rule = Top.rule /\ f.test = Top.test /\ f.pos0 = Top.pos0
      /\ f.phase = "ret" /\ f.res = match
  BY <1>3, <1>5, Returned
<1>7. f.ut = Top.ut
  BY <1>3 DEF Return, Frame
<1>8. Answer(f, cur_tok_') \in Outcomes(tokens_) /\ Answer(f, cur_tok_') = IF match THEN cur_tok_ + 1 ELSE Fail
  BY <1>2, <1>4, <1>6, StreamPositions DEF Answer, Outcomes
<1>9. match <=> tokens_[cur_tok_ + 1].type = Subs(Top.rule)[1] /\ cur_tok_ + 1 \in ModeOf(Top).names
  <2>1. cur_tok_ + 1 \in Everywhere(tokens_)
    BY <1>4, StreamPositions
  <2>2. CASE Top.test /\ Top.ut
    BY <2>1, <2>2 DEF Tok, ModeOf, ModeIn, Mode, NamesIn
  <2>3. CASE ~(Top.test /\ Top.ut)
    BY <2>1, <2>3 DEF Tok, ModeOf, ModeIn, Mode
  <2> QED BY <2>2, <2>3
<1>10. ModeOf(Top) \in Modes(tokens_)
  BY <1>3, ModeFacts DEF ModeOf
<1>11. Reads(tokens_, ModeOf(Top), Top.rule, Top.pos0, Answer(f, cur_tok_'))
  <2>1. TerminalReads(tokens_, ModeOf(Top), Top.rule, cur_tok_, Answer(f, cur_tok_'))
    BY <1>8, <1>9 DEF TerminalReads
  <2> QED BY <1>1, <1>3, <1>4, <1>8, <1>10, <2>1, Derived DEF Derives
<1>12. ModeOf(f) = ModeOf(Top)
  BY <1>6, <1>7 DEF ModeOf, ModeIn
<1>13. frames' = Append(SubSeq(frames, 1, m), f)
  BY <1>2 DEF BelowTop
<1> HIDE DEF m, f, match
<1> QED BY <1>2, <1>3, <1>6, <1>7, <1>11, <1>12, <1>13, LanguageRewrite

\* What a repetition reads from its backup it reads from its beginning, where every
\* other rule still is.
LEMMA FromBackup ==
  ASSUME IInv, LanguageInv, ac_ \in Contexts, HasCaller, Top.phase = "ret",
         NEW o \in Outcomes(tokens_),
         Derives(tokens_, ModeOf(Caller), Caller.rule, Caller.tok_pos, o)
  PROVE  Reads(tokens_, ModeOf(Caller), Caller.rule, Caller.pos0, o)
<1>1. Reads(tokens_, ModeOf(Caller), Caller.rule, Caller.tok_pos, o)
  BY Callee, Derived
<1>2. CASE Repeats(Caller.rule)
  BY <1>1, <1>2, Callee DEF ReadSoFar
<1>3. CASE ~Repeats(Caller.rule)
  BY <1>1, <1>3, CallerFacts DEF Backup
<1> QED BY <1>2, <1>3

\* The caller returns what its rule reads from its backup.
LEMMA LanguageReturn ==
  ASSUME IInv, LanguageInv, ac_ \in Contexts, HasCaller, Top.phase = "ret",
         NEW res \in BOOLEAN, NEW o, o = IF res THEN cur_tok_' ELSE Fail,
         o \in Outcomes(tokens_),
         Derives(tokens_, ModeOf(Caller), Caller.rule, Caller.tok_pos, o),
         frames' = Resume(Return(Caller, res)), tokens_' = tokens_, ac_' = ac_ \/ ~Caller.test
  PROVE  LanguageInv'
<1> DEFINE f == Return(Caller, res)
<1>1. /\ f \in Frame /\ f.rule = Caller.rule /\ f.test = Caller.test /\ f.pos0 = Caller.pos0
      /\ f.phase = "ret" /\ f.res = res
  BY CallerFacts, Returned
<1>2. f.ut = Caller.ut
  BY CallerFacts DEF Return, Frame
<1>3. Answer(f, cur_tok_') = o
  BY <1>1 DEF Answer
<1>4. Reads(tokens_, ModeOf(Caller), f.rule, f.pos0, Answer(f, cur_tok_'))
  BY <1>1, <1>3, FromBackup
<1>5. frames' = Resume(f) /\ (ac_' = ac_ \/ ~f.test)
  BY <1>1
<1> HIDE DEF f
<1> QED BY <1>1, <1>2, <1>4, <1>5, LanguageResume

\* What the caller has read when its callee has matched, or has not.
LEMMA Extended ==
  ASSUME IInv, LanguageInv, ac_ \in Contexts, HasCaller, Top.phase = "ret",
         Caller.phase = "body", Kind(Caller.rule) # "Select"
  PROVE  /\ Ahead(tokens_, ModeOf(Caller), Caller.rule, Caller.tok_pos)
         /\ Top.res =>
              ReadsFirst(tokens_, ModeOf(Caller), Caller.rule, Caller.i, Caller.tok_pos, cur_tok_)
         /\ Top.res /\ AtLast =>
              Whole(tokens_, ModeOf(Caller), Caller.rule, Caller.tok_pos, cur_tok_)
         /\ ~Top.res => Broken(tokens_, ModeOf(Caller), Caller.rule, Caller.tok_pos)
<1> DEFINE s == tokens_
           m == ModeOf(Caller)
           r == Caller.rule
           p == Caller.tok_pos
<1>1. /\ s \in TokenStreams /\ m \in Modes(s) /\ r \in RuleName /\ p \in Starts(s)
      /\ Top.pos0 \in Starts(s) /\ cur_tok_ \in Ends(s) /\ Caller.i \in 1..Last(r)
      /\ Kind(r) # "Terminal" /\ Last(r) \in Nat
  BY Callee, RuleType DEF Last
<1>2. Ahead(s, m, r, p) /\ ReadsFirst(s, m, r, Caller.i - 1, p, Top.pos0)
  BY <1>1, Callee DEF ReadSoFar
<1>3. Reads(s, m, Subs(r)[Caller.i], Top.pos0, Answer(Top, cur_tok_))
  BY Callee
<1> HIDE DEF s, m, r, p
<1>4. ASSUME Top.res PROVE ReadsFirst(s, m, r, Caller.i, p, cur_tok_)
  BY <1>1, <1>2, <1>3, <1>4, ReadsOn DEF Answer
<1>5. ASSUME ~Top.res PROVE BreaksWithin(s, m, r, Last(r), p)
  BY <1>1, <1>2, <1>3, <1>5, BreaksAt DEF Answer
<1>6. AtLast => Caller.i = Last(r)
  BY DEF AtLast, Last, r
<1>7. Top.res /\ AtLast => Whole(s, m, r, p, cur_tok_)
  BY <1>2, <1>4, <1>6 DEF Whole
<1>8. ~Top.res => Broken(s, m, r, p)
  BY <1>2, <1>5 DEF Broken
<1> QED BY <1>2, <1>4, <1>7, <1>8 DEF s, m, r, p

\* A lookahead has matched: the next one, or the body.
LEMMA LanguageLooked ==
  ASSUME IInv, LanguageInv, ac_ \in Contexts, LookaheadTrue
  PROVE  LanguageInv'
<1> DEFINE s == tokens_
           m == ModeOf(Caller)
           r == Caller.rule
           p == Caller.tok_pos
<1>1. /\ HasCaller /\ Top.phase = "ret" /\ Top.res /\ Caller.phase = "look"
      /\ tokens_' = tokens_ /\ ac_' = ac_
  BY DEF LookaheadTrue, Looked, Stay
<1>2. /\ s \in TokenStreams /\ m \in Modes(s) /\ r \in RuleName /\ p \in Starts(s)
      /\ Top.pos0 \in Starts(s) /\ cur_tok_ \in Ends(s) /\ Caller.i \in 1..Last(r)
      /\ Kind(r) # "Terminal" /\ Caller.i <= Lookahead(r)
      /\ Caller \in Frame /\ Caller.i \in Nat \ {0}
  BY <1>1, Callee, CallerFacts DEF Frame
<1>3. ReadSoFar(s, m, Caller, Top.pos0)
      /\ \E l \in Sees(s, r) : Reads(s, l, Subs(r)[Caller.i], Top.pos0, cur_tok_)
  BY <1>1, Callee DEF Answer
<1>4. PICK l \in Sees(s, r) : ReadsFirst(s, l, r, Caller.i, p, cur_tok_)
  <2>1. PICK l \in Sees(s, r) : Reads(s, l, Subs(r)[Caller.i], Top.pos0, cur_tok_)
    BY <1>3
  <2>2. l \in Modes(s) /\ ReadsFirst(s, l, r, Caller.i - 1, p, Top.pos0)
    BY <1>1, <1>3, LookModes DEF ReadSoFar
  <2> HIDE DEF s, m, r, p
  <2> QED BY <1>2, <2>1, <2>2, ReadsOn
<1>5. CASE Caller.i < Lookahead(r)
  <2> DEFINE f == [Caller EXCEPT !.i = @ + 1]
  <2>1. /\ f \in Frame /\ f.rule = r /\ f.test = Caller.test /\ f.pos0 = Caller.pos0
        /\ f.tok_pos = p /\ f.phase = "look" /\ f.i = Caller.i + 1
    BY <1>1, NextSub
  <2>2. f.ut = Caller.ut
    BY <1>2 DEF Frame
  <2>3. \A x \in Sees(s, r) : ReadsFirst(s, x, r, f.i - 1, p, cur_tok_)
    <3>1. Sees(s, r) = {Testing(s)}
      BY <1>2, <1>5, LooksAlike
    <3>2. f.i - 1 = Caller.i
      BY <1>2, <2>1
    <3> QED BY <1>4, <3>1, <3>2
  <2>4. frames' = Resume(f) /\ cur_tok_' = cur_tok_
    BY <1>5 DEF LookaheadTrue
  <2> HIDE DEF f
  <2>5. ReadSoFar(s, m, f, cur_tok_')
    BY <1>3, <2>1, <2>3, <2>4 DEF ReadSoFar
  <2> QED BY <1>1, <2>1, <2>2, <2>4, <2>5, LanguageResume
<1>6. CASE ~(Caller.i < Lookahead(r))
  <2> DEFINE h == [Caller EXCEPT !.phase = "body"]
             f == [Caller EXCEPT !.phase = "body", !.i = 1]
  <2>1. /\ h \in Frame /\ h.rule = r /\ h.test = Caller.test /\ h.pos0 = Caller.pos0
        /\ h.tok_pos = p /\ h.phase = "body" /\ h.ut = Caller.ut
    BY <1>2 DEF Frame, Phases
  <2>2. f = [h EXCEPT !.i = 1]
    OBVIOUS
  <2>3. frames' = Resume(f) /\ cur_tok_' = p
    BY <1>6 DEF LookaheadTrue
  <2> HIDE DEF f, h
  <2>4. /\ f \in Frame /\ f.rule = r /\ f.test = Caller.test /\ f.pos0 = Caller.pos0
        /\ f.tok_pos = p /\ f.phase = "body" /\ f.ut = Caller.ut /\ f.i = 1
    BY <2>1, <2>2 DEF Frame
  <2>5. Caller.i = Lookahead(r)
    <3>1. Lookahead(r) \in Nat
      BY <1>2, RuleType
    <3>2. \A i, n \in Nat : i <= n /\ ~(i < n) => i = n
      OBVIOUS
    <3>3. Caller.i \in Nat /\ Caller.i <= Lookahead(r)
      BY <1>2
    <3> QED BY <1>6, <3>1, <3>2, <3>3
  <2>6. Ahead(s, m, r, p)
    BY <1>2, <1>4, <2>5 DEF Ahead
  <2>7. Kind(r) # "Select"
    BY <1>2, <2>5 DEF Lookahead
  <2>8. ReadsFirst(s, m, r, f.i - 1, p, p)
    BY <1>2, <2>4, ReadsFirstAssumption
  <2>9. ReadSoFar(s, m, f, cur_tok_')
    BY <1>3, <2>3, <2>4, <2>6, <2>7, <2>8 DEF ReadSoFar
  <2> QED BY <1>1, <2>3, <2>4, <2>9, LanguageResume
<1> QED BY <1>5, <1>6

\* A lookahead has failed: there is nothing to read.
LEMMA LanguageLookedAway ==
  ASSUME IInv, LanguageInv, ac_ \in Contexts, LookaheadFalse
  PROVE  LanguageInv'
<1> DEFINE s == tokens_
           m == ModeOf(Caller)
           r == Caller.rule
           p == Caller.tok_pos
           res == Kind(r) # "Sequence"
           o == IF res THEN cur_tok_' ELSE Fail
<1>1. /\ HasCaller /\ Top.phase = "ret" /\ ~Top.res /\ Caller.phase = "look"
      /\ tokens_' = tokens_ /\ ac_' = ac_ /\ cur_tok_' = p /\ frames' = Resume(Return(Caller, res))
  BY DEF LookaheadFalse, Looked, Stay
<1>2. /\ s \in TokenStreams /\ m \in Modes(s) /\ r \in RuleName /\ p \in Starts(s)
      /\ Top.pos0 \in Starts(s) /\ Caller.i \in Nat \ {0} /\ Caller.i <= Lookahead(r)
      /\ Kind(r) # "Terminal" /\ ~m.test /\ Lookahead(r) \in Nat /\ Kind(r) \in Kinds
  BY <1>1, Callee, CallerFacts, RuleType DEF Frame
<1>3. ReadSoFar(s, m, Caller, Top.pos0)
      /\ \E l \in Sees(s, r) : Reads(s, l, Subs(r)[Caller.i], Top.pos0, Fail)
  BY <1>1, Callee DEF Answer
<1>4. NotAhead(s, m, r, p)
  <2>1. PICK l \in Sees(s, r) : Reads(s, l, Subs(r)[Caller.i], Top.pos0, Fail)
    BY <1>3
  <2>2. ReadsFirst(s, l, r, Caller.i - 1, p, Top.pos0)
    BY <1>1, <1>3 DEF ReadSoFar
  <2>3. Caller.i \in 1..Lookahead(r)
    BY <1>2
  <2> HIDE DEF s, m, r, p
  <2>4. BreaksWithin(s, l, r, Lookahead(r), p)
    BY <1>2, <2>1, <2>2, <2>3, BreaksAt
  <2> QED BY <1>2, <2>4 DEF NotAhead
<1>5. o \in Outcomes(s) /\ (res => o = p) /\ (~res => o = Fail)
  BY <1>1, <1>2, StreamPositions DEF Outcomes
<1>6. Kind(r) # "Select"
  <2>1. Lookahead(r) # 0
    BY <1>2
  <2> QED BY <2>1 DEF Lookahead
<1>7. Derives(s, m, r, p, o)
  <2>1. CASE Kind(r) = "Sequence"
    BY <2>1, <1>4, <1>5 DEF Derives, SequenceReads
  <2>2. CASE Kind(r) = "Options"
    BY <2>2, <1>4, <1>5 DEF Derives, OptionsReads
  <2>3. CASE Repeats(r)
    BY <2>3, <1>4, <1>5 DEF Derives, RepetitionReads, Repeats
  <2> QED BY <1>2, <1>6, <2>1, <2>2, <2>3 DEF Kinds, Repeats
<1> QED BY <1>1, <1>5, <1>7, LanguageReturn

\* A sub-rule that is not the last one has matched.
LEMMA LanguageAdvance ==
  ASSUME IInv, LanguageInv, ac_ \in Contexts, Advance
  PROVE  LanguageInv'
<1> DEFINE f == [Caller EXCEPT !.i = @ + 1]
<1>1. /\ HasCaller /\ Top.phase = "ret" /\ Top.res /\ Caller.phase = "body"
      /\ Kind(Caller.rule) # "Select" /\ ~AtLast
      /\ tokens_' = tokens_ /\ ac_' = ac_ /\ cur_tok_' = cur_tok_ /\ frames' = Resume(f)
  BY DEF Advance, Stay
<1>2. /\ f \in Frame /\ f.rule = Caller.rule /\ f.test = Caller.test /\ f.pos0 = Caller.pos0
      /\ f.tok_pos = Caller.tok_pos /\ f.phase = "body" /\ f.i = Caller.i + 1
  BY <1>1, NextSub
<1>3. Caller \in Frame /\ Caller.i \in Nat
  BY <1>1, CallerFacts DEF Frame
<1>4. f.ut = Caller.ut
  BY <1>3 DEF Frame
<1>5. f.i - 1 = Caller.i
  BY <1>2, <1>3
<1> HIDE DEF f
<1>6. ReadsFirst(tokens_, ModeOf(Caller), Caller.rule, Caller.i, Caller.tok_pos, cur_tok_)
      /\ Ahead(tokens_, ModeOf(Caller), Caller.rule, Caller.tok_pos)
      /\ ReadSoFar(tokens_, ModeOf(Caller), Caller, Top.pos0)
  BY <1>1, Extended, Callee
<1>7. ReadSoFar(tokens_, ModeOf(Caller), f, cur_tok_')
  BY <1>1, <1>2, <1>5, <1>6 DEF ReadSoFar
<1> QED BY <1>1, <1>2, <1>4, <1>7, LanguageResume

\* A repetition has matched its last sub-rule and goes round again.
LEMMA LanguageIterate ==
  ASSUME IInv, LanguageInv, ac_ \in Contexts,
         RepeatStarIterate \/ RepeatDaggerIterate \/ TestIterate
  PROVE  LanguageInv'
<1> DEFINE s == tokens_
           m == ModeOf(Caller)
           r == Caller.rule
           p == Caller.tok_pos
<1>1. /\ HasCaller /\ Top.phase = "ret" /\ Top.res /\ Caller.phase = "body" /\ AtLast
      /\ Repeats(r) /\ Kind(r) # "Select"
  BY DEF RepeatStarIterate, RepeatDaggerIterate, TestIterate, Traversed, Tested, Repeats
<1>2. /\ s \in TokenStreams /\ m \in Modes(s) /\ m.test = Caller.test /\ r \in RuleName
      /\ p \in Starts(s) /\ Caller \in Frame /\ cur_tok_ \in Nat
      /\ Caller.test \in BOOLEAN
  BY <1>1, Callee, CallerFacts DEF Frame
<1>3. cur_tok_ \in Starts(s)
  <2>1. Kind(r) # "Sequence"
    BY <1>1 DEF Repeats
  <2>2. cur_tok_ # Len(tokens_)
    BY <1>1, <2>1, TokensLeft
  <2> QED BY <2>2, <1>1, <1>2, CallerFacts DEF Starts
<1>4. SUFFICES ASSUME NEW f \in Frame, f.rule = r, f.test = Caller.test, f.pos0 = Caller.pos0,
                      f.ut = Caller.ut, f.tok_pos = cur_tok_, f.i = 1, f.phase # "ret",
                      f.phase = "body" => f.test \/ Lookahead(r) = 0,
                      frames' = Resume(f), tokens_' = tokens_, cur_tok_' = cur_tok_,
                      ac_' = ac_ \/ ~Caller.test
               PROVE  LanguageInv'
  <2>1. CASE RepeatStarIterate \/ RepeatDaggerIterate
    <3> DEFINE f == NextIteration(Caller)
    <3>1. /\ f \in Frame /\ f.rule = r /\ f.test = Caller.test /\ f.pos0 = Caller.pos0
          /\ f.tok_pos = cur_tok_ /\ f.i = 1
          /\ f.phase = IF Lookahead(r) > 0 THEN "look" ELSE "body"
      BY <1>2, Iterated
    <3>2. f.ut = Caller.ut
      BY <1>2 DEF NextIteration, Frame
    <3>3. f.phase # "ret" /\ (f.phase = "body" => Lookahead(r) = 0)
      <4>1. Lookahead(r) \in Nat
        BY <1>2, RuleType
      <4>2. Lookahead(r) > 0 \/ Lookahead(r) = 0
        BY <4>1
      <4> QED BY <3>1, <4>2
    <3>4. ~Caller.test
      BY <2>1 DEF RepeatStarIterate, RepeatDaggerIterate, Traversed
    <3>5. \/ frames' = Resume(f) /\ tokens_' = tokens_ /\ cur_tok_' = cur_tok_
          \/ UNCHANGED <<tokens_, cur_tok_, frames, ac_>>
      BY <2>1 DEF RepeatStarIterate, RepeatDaggerIterate, RunAction
    <3> HIDE DEF f
    <3> QED BY <1>4, <3>1, <3>2, <3>3, <3>4, <3>5, LanguageSame
  <2>2. CASE TestIterate
    <3> DEFINE h == [Caller EXCEPT !.i = 1]
               f == [Caller EXCEPT !.i = 1, !.tok_pos = cur_tok_]
    <3>1. /\ h \in Frame /\ h.rule = Caller.rule /\ h.test = Caller.test /\ h.pos0 = Caller.pos0
          /\ h.i = 1 /\ h.phase = "body" /\ h.ut = Caller.ut
      BY <1>1, <1>2 DEF Frame
    <3>2. f = [h EXCEPT !.tok_pos = cur_tok_]
      OBVIOUS
    <3>3. frames' = Resume(f) /\ tokens_' = tokens_ /\ cur_tok_' = cur_tok_ /\ ac_' = ac_
          /\ Caller.test
      BY <2>2 DEF TestIterate, Tested, Stay
    <3> HIDE DEF f, h
    <3>4. /\ f \in Frame /\ f.rule = Caller.rule /\ f.test = Caller.test /\ f.pos0 = Caller.pos0
          /\ f.tok_pos = cur_tok_ /\ f.i = 1 /\ f.phase = "body" /\ f.ut = Caller.ut
      BY <3>1, <3>2, <1>2 DEF Frame
    <3> QED BY <1>4, <3>3, <3>4
  <2> QED BY <2>1, <2>2
<1>5. Whole(s, m, r, p, cur_tok_)
  BY <1>1, Extended
<1>6. ASSUME NEW o \in Outcomes(s), Reads(s, m, r, cur_tok_, o)
      PROVE  Reads(s, m, r, f.pos0, o)
  <2>1. RepetitionReads(s, m, r, p, o)
    BY <1>3, <1>5, <1>6 DEF RepetitionReads
  <2>2. Derives(s, m, r, p, o)
    BY <2>1, <1>1 DEF Derives
  <2> QED BY <1>1, <1>4, <2>2, FromBackup
<1>7. ReadSoFar(s, m, f, f.tok_pos)
  BY <1>2, <1>3, <1>4, <1>6, Fresh
<1> QED BY <1>1, <1>4, <1>7, LanguageResume

\* An iteration, a sequence or an option has failed.
LEMMA LanguageStop ==
  ASSUME IInv, LanguageInv, ac_ \in Contexts,
         \/ RepeatStarStop \/ RepeatDaggerStop \/ SequenceFail \/ OptionsSkip
         \/ TestStop \/ (TestSequence /\ ~Top.res)
  PROVE  LanguageInv'
<1> DEFINE s == tokens_
           m == ModeOf(Caller)
           r == Caller.rule
           p == Caller.tok_pos
           res == Kind(r) \in {"RepeatStar", "Options"}
           o == IF res THEN cur_tok_' ELSE Fail
<1>1. HasCaller /\ Top.phase = "ret" /\ ~Top.res /\ Caller.phase = "body"
      /\ (Repeats(r) \/ Kind(r) \in {"Sequence", "Options"})
  BY DEF RepeatStarStop, RepeatDaggerStop, SequenceFail, OptionsSkip, TestStop, TestSequence,
         Traversed, Tested, Repeats
<1>2. SUFFICES ASSUME frames' = Resume(Return(Caller, res)), cur_tok_' = p,
                      UNCHANGED <<tokens_, ac_>>
               PROVE  LanguageInv'
  <2>1. CASE RepeatStarStop \/ OptionsSkip
    <3>1. res = TRUE
      BY <2>1 DEF RepeatStarStop, OptionsSkip, Traversed
    <3>2. \/ frames' = Resume(Return(Caller, res)) /\ cur_tok_' = p /\ UNCHANGED <<tokens_, ac_>>
          \/ UNCHANGED <<tokens_, cur_tok_, frames, ac_>>
      BY <2>1, <3>1 DEF RepeatStarStop, OptionsSkip, RunFail, Stay
    <3> QED BY <1>2, <3>2, LanguageSame
  <2>2. CASE RepeatDaggerStop \/ SequenceFail
    <3>1. res = FALSE
      <4>1. Kind(r) = "RepeatDagger" \/ Kind(r) = "Sequence"
        BY <2>2 DEF RepeatDaggerStop, SequenceFail, Traversed
      <4> QED BY <4>1
    <3>2. \/ frames' = Resume(Return(Caller, res)) /\ cur_tok_' = p /\ UNCHANGED <<tokens_, ac_>>
          \/ UNCHANGED <<tokens_, cur_tok_, frames, ac_>>
      BY <2>2, <3>1 DEF RepeatDaggerStop, SequenceFail, RunFail, Stay
    <3> QED BY <1>2, <3>2, LanguageSame
  <2>3. CASE TestStop
    <3>1. res = (Kind(r) = "RepeatStar")
      BY <2>3 DEF TestStop, Tested
    <3> QED BY <1>2, <2>3, <3>1 DEF TestStop, Stay
  <2>4. CASE TestSequence /\ ~Top.res
    <3>1. res = (Kind(r) = "Options")
      <4>1. Kind(r) = "Sequence" \/ Kind(r) = "Options"
        BY <2>4 DEF TestSequence, Tested
      <4> QED BY <4>1
    <3> QED BY <1>2, <2>4, <3>1 DEF TestSequence, Tested, Stay
  <2> QED BY <2>1, <2>2, <2>3, <2>4
<1>3. Broken(s, m, r, p)
  BY <1>1, Extended DEF Repeats
<1>4. s \in TokenStreams /\ p \in Starts(s)
  BY <1>1, Callee
<1>5. o \in Outcomes(s) /\ (res => o = p) /\ (~res => o = Fail) /\ res \in BOOLEAN
  BY <1>2, <1>4, StreamPositions DEF Outcomes
<1>6. Derives(s, m, r, p, o)
  <2>1. CASE Kind(r) = "Sequence"
    BY <2>1, <1>3, <1>5 DEF Derives, SequenceReads
  <2>2. CASE Kind(r) = "Options"
    BY <2>2, <1>3, <1>5 DEF Derives, OptionsReads
  <2>3. CASE Repeats(r)
    <3>1. res = (Kind(r) = "RepeatStar")
      BY <2>3 DEF Repeats
    <3> QED BY <2>3, <3>1, <1>3, <1>5 DEF Derives, RepetitionReads
  <2> QED BY <1>1, <2>1, <2>2, <2>3
<1> HIDE DEF res, o
<1>7. o = IF res THEN cur_tok_' ELSE Fail
  BY DEF o
<1> QED BY <1>1, <1>2, <1>5, <1>6, <1>7, LanguageReturn

\* The last sub-rule of a sequence or an option has matched.
LEMMA LanguageMatch ==
  ASSUME IInv, LanguageInv, ac_ \in Contexts,
         SequenceMatch \/ OptionsMatch \/ (TestSequence /\ Top.res)
  PROVE  LanguageInv'
<1> DEFINE s == tokens_
           m == ModeOf(Caller)
           r == Caller.rule
           p == Caller.tok_pos
<1>1. HasCaller /\ Top.phase = "ret" /\ Top.res /\ Caller.phase = "body" /\ AtLast
      /\ Kind(r) \in {"Sequence", "Options"}
  BY DEF SequenceMatch, OptionsMatch, TestSequence, Traversed, Tested
<1>2. SUFFICES ASSUME frames' = Resume(Return(Caller, TRUE)), cur_tok_' = cur_tok_,
                      tokens_' = tokens_, ac_' = ac_ \/ ~Caller.test
               PROVE  LanguageInv'
  <2>1. CASE SequenceMatch \/ OptionsMatch
    <3>1. \/ frames' = Resume(Return(Caller, TRUE)) /\ cur_tok_' = cur_tok_ /\ tokens_' = tokens_
          \/ UNCHANGED <<tokens_, cur_tok_, frames, ac_>>
      BY <2>1 DEF SequenceMatch, OptionsMatch, RunAction
    <3>2. ~Caller.test
      BY <2>1 DEF SequenceMatch, OptionsMatch, Traversed
    <3> QED BY <1>2, <3>1, <3>2, LanguageSame
  <2>2. CASE TestSequence /\ Top.res
    BY <1>2, <2>2 DEF TestSequence, Tested, Stay
  <2> QED BY <2>1, <2>2
<1>3. Whole(s, m, r, p, cur_tok_)
  BY <1>1, Extended
<1>4. s \in TokenStreams /\ cur_tok_ \in Ends(s)
  BY <1>1, Callee
<1>5. cur_tok_ \in Outcomes(s) /\ cur_tok_ # Fail /\ cur_tok_ = IF TRUE THEN cur_tok_' ELSE Fail
  BY <1>2, <1>4, StreamPositions DEF Outcomes
<1>6. Derives(s, m, r, p, cur_tok_)
  BY <1>1, <1>3, <1>5 DEF Derives, SequenceReads, OptionsReads
<1> QED BY <1>1, <1>2, <1>5, <1>6, LanguageReturn

\* An alternative has matched, or has not.
LEMMA LanguageSelect ==
  ASSUME IInv, LanguageInv, ac_ \in Contexts, SelectTake \/ SelectNext \/ TestSelect
  PROVE  LanguageInv'
<1> DEFINE s == tokens_
           m == ModeOf(Caller)
           r == Caller.rule
           p == Caller.tok_pos
           i == Caller.i
<1>1. HasCaller /\ Top.phase = "ret" /\ Caller.phase = "body" /\ Kind(r) = "Select"
  BY DEF SelectTake, SelectNext, TestSelect, Traversed, Tested
<1>2. /\ s \in TokenStreams /\ m \in Modes(s) /\ r \in RuleName /\ p \in Starts(s)
      /\ cur_tok_ \in Ends(s) /\ i \in 1..Last(r) /\ i \in Nat /\ Caller \in Frame
      /\ Last(r) \in Nat /\ (AtLast <=> i = Last(r))
  BY <1>1, Callee, CallerFacts, RuleType DEF Frame, AtLast, Last
<1>3. ReadSoFar(s, m, Caller, Top.pos0)
  BY <1>1, Callee
<1>4. /\ NoneOf(s, m, r, i - 1, p) /\ Reads(s, m, Subs(r)[i], p, Answer(Top, cur_tok_))
  BY <1>1, <1>3, Callee DEF ReadSoFar
<1>5. CASE Top.res
  <2>1. SUFFICES ASSUME frames' = Resume(Return(Caller, TRUE)), cur_tok_' = cur_tok_,
                        tokens_' = tokens_, ac_' = ac_ \/ ~Caller.test
                 PROVE  LanguageInv'
    <3>1. CASE SelectTake
      <4>1. \/ frames' = Resume(Return(Caller, TRUE)) /\ cur_tok_' = cur_tok_ /\ tokens_' = tokens_
            \/ UNCHANGED <<tokens_, cur_tok_, frames, ac_>>
        BY <3>1 DEF SelectTake, RunAction
      <4>2. ~Caller.test
        BY <3>1 DEF SelectTake, Traversed
      <4> QED BY <2>1, <4>1, <4>2, LanguageSame
    <3>2. CASE SelectNext
      BY <1>5, <3>2 DEF SelectNext, Traversed
    <3>3. CASE TestSelect
      BY <1>5, <2>1, <3>3 DEF TestSelect, Tested, Stay
    <3> QED BY <3>1, <3>2, <3>3
  <2>2. cur_tok_ \in Outcomes(s) /\ cur_tok_ # Fail /\ cur_tok_ = IF TRUE THEN cur_tok_' ELSE Fail
    BY <1>2, <2>1, StreamPositions DEF Outcomes
  <2>3. SelectReads(s, m, r, p, cur_tok_)
    BY <1>2, <1>4, <1>5, <2>2 DEF SelectReads, Answer
  <2>4. Derives(s, m, r, p, cur_tok_)
    BY <1>1, <2>3 DEF Derives
  <2> QED BY <1>1, <2>1, <2>2, <2>4, LanguageReturn
<1>6. CASE ~Top.res
  <2>1. SUFFICES ASSUME frames' = Resume(IF AtLast THEN Return(Caller, FALSE)
                                         ELSE [Caller EXCEPT !.i = @ + 1]),
                        cur_tok_' = p, UNCHANGED <<tokens_, ac_>>
                 PROVE  LanguageInv'
    <3>1. CASE SelectTake
      BY <1>6, <3>1 DEF SelectTake, Traversed
    <3>2. CASE SelectNext
      BY <2>1, <3>2, LanguageSame DEF SelectNext, RunFail, Stay
    <3>3. CASE TestSelect
      BY <1>6, <2>1, <3>3 DEF TestSelect, Tested, Stay
    <3> QED BY <3>1, <3>2, <3>3
  <2>2. NoneOf(s, m, r, i, p)
    <3>1. \A j \in 1..i : j = i \/ j \in 1..i - 1
      BY <1>2
    <3> QED BY <1>4, <1>6, <3>1 DEF NoneOf, Answer
  <2>3. CASE AtLast
    <3>1. Fail \in Outcomes(s) /\ Fail = IF FALSE THEN cur_tok_' ELSE Fail
      BY DEF Outcomes
    <3>2. SelectReads(s, m, r, p, Fail)
      BY <1>2, <2>2, <2>3 DEF SelectReads
    <3>3. Derives(s, m, r, p, Fail)
      BY <1>1, <3>2 DEF Derives
    <3>4. frames' = Resume(Return(Caller, FALSE))
      BY <2>1, <2>3
    <3> QED BY <1>1, <2>1, <3>1, <3>3, <3>4, LanguageReturn
  <2>4. CASE ~AtLast
    <3> DEFINE f == [Caller EXCEPT !.i = @ + 1]
    <3>1. /\ f \in Frame /\ f.rule = r /\ f.test = Caller.test /\ f.pos0 = Caller.pos0
          /\ f.tok_pos = p /\ f.phase = "body" /\ f.i = i + 1
      BY <1>1, <2>4, NextSub
    <3>2. f.ut = Caller.ut /\ frames' = Resume(f)
      BY <1>2, <2>1, <2>4 DEF Frame
    <3>3. f.i - 1 = i
      BY <1>2, <3>1
    <3> HIDE DEF f
    <3>4. ReadSoFar(s, m, f, cur_tok_')
      BY <1>1, <1>3, <2>1, <2>2, <3>1, <3>3 DEF ReadSoFar
    <3> QED BY <1>1, <2>1, <3>1, <3>2, <3>4, LanguageResume
  <2> QED BY <2>3, <2>4
<1> QED BY <1>5, <1>6

-----------------------------------------------------------------------------
(* The theorems                                                             *)

\* At its beginning the parse has read nothing.
LEMMA InitLanguage ==
  ASSUME Init, ac_ \in Contexts
  PROVE  LanguageInv
<1>1. IInv
  BY InitIInv
<1> DEFINE f == [rule |-> Start, test |-> FALSE, ut |-> FALSE, phase |-> "body",
                 i |-> 1, tok_pos |-> 0, res |-> FALSE, pos0 |-> 0]
<1>2. f \in Frame /\ Start \in RuleName /\ Lookahead(Start) = 0 /\ ~Repeats(Start)
  BY TableAssumption, StartAssumption
  DEF Frame, Phases, Lookahead, ChecksUserType, Kind, Repeats
<1>3. frames = <<f>> /\ cur_tok_ = 0 /\ tokens_ \in TokenStreams
  BY DEF Init
<1>4. /\ f.rule = Start /\ ~f.test /\ f.tok_pos = 0 /\ f.i = 1 /\ f.phase = "body"
      /\ f.pos0 = 0
  OBVIOUS
<1>5. 0 \in Starts(tokens_)
  BY <1>3, StreamPositions
<1> HIDE DEF f
<1>6. Len(frames) = 1 /\ frames[1] = f /\ Top = f /\ Here(1) = 0
  BY <1>3 DEF Top, Here
<1>7. ModeOf(f) \in Modes(tokens_) /\ ModeOf(f).test = f.test
  BY <1>2, ModeFacts DEF ModeOf
<1>8. ReadSoFar(tokens_, ModeOf(f), f, f.tok_pos)
  BY <1>2, <1>3, <1>4, <1>5, <1>7, Fresh
<1>9. \A k \in 1..Len(frames) : k = 1
  BY <1>6
<1>10. \A k \in 1..Len(frames) - 1 : FALSE
  BY <1>6
<1>11. MatchesGrammar
  BY <1>4, <1>6 DEF MatchesGrammar
<1>12. \A k, l \in 1..Len(frames) : ~(k < l)
  BY <1>6
<1> QED BY <1>4, <1>6, <1>8, <1>9, <1>10, <1>11, <1>12 DEF LanguageInv

\* Every step preserves what has been read.
LEMMA NextLanguage ==
  ASSUME IInv, LanguageInv, ac_ \in Contexts, [Next]_vars
  PROVE  LanguageInv'
<1>1. CASE LookAhead \/ Descend
  BY <1>1, LanguageCall
<1>2. CASE LookaheadTrue
  BY <1>2, LanguageLooked
<1>3. CASE LookaheadFalse
  BY <1>3, LanguageLookedAway
<1>4. CASE TerminalMatch \/ TerminalMismatch \/ TestTerminal
  BY <1>4, LanguageTerminal
<1>5. CASE Advance
  BY <1>5, LanguageAdvance
<1>6. CASE RepeatStarIterate \/ RepeatDaggerIterate \/ TestIterate
  BY <1>6, LanguageIterate
<1>7. CASE RepeatStarStop \/ RepeatDaggerStop \/ SequenceFail \/ OptionsSkip \/ TestStop
  BY <1>7, LanguageStop
<1>8. CASE SequenceMatch \/ OptionsMatch
  BY <1>8, LanguageMatch
<1>9. CASE SelectTake \/ SelectNext \/ TestSelect
  BY <1>9, LanguageSelect
<1>10. CASE TestSequence
  BY <1>10, LanguageMatch, LanguageStop
<1>11. CASE Finish
  BY <1>11, LanguageSame DEF Finish
<1>12. CASE UNCHANGED vars
  BY <1>12, LanguageSame DEF vars
<1> QED
  BY <1>1, <1>2, <1>3, <1>4, <1>5, <1>6, <1>7, <1>8, <1>9, <1>10, <1>11, <1>12
  DEF Next, TraverseRule, TestRule, Terminated

\* Every activation of TraverseRule and of TestRule answers, and consumes, what the
\* parsing expression of its rule says, in every parse whose contexts are Contexts.
THEOREM AnswersMatchGrammar == Spec /\ [](ac_ \in Contexts) => []MatchesGrammar
<1>1. Init /\ ac_ \in Contexts => LanguageInv
  BY InitLanguage
<1>2. IInv /\ LanguageInv /\ ac_ \in Contexts /\ [Next]_vars => LanguageInv'
  BY NextLanguage
<1>3. LanguageInv => MatchesGrammar
  BY DEF LanguageInv
<1> QED BY <1>1, <1>2, <1>3, Invariance, PTL DEF Spec

\* Only Finish gives the answer of the parse, and nothing runs behind it.
LEMMA NextVerdict ==
  ASSUME VerdictInv, IInv, [Next]_vars
  PROVE  VerdictInv'
<1>1. CASE UNCHANGED vars
  <2>1. Top' = Top /\ UNCHANGED <<frames, verdict>>
    BY <1>1 DEF vars, Top
  <2> QED BY <2>1 DEF VerdictInv
<1>2. CASE Finish
  <2>1. Len(frames) = 1
    BY <1>2, Alone DEF Finish, IInv
  <2>2. Top' = Top /\ frames' = frames
    BY <1>2 DEF Finish, Top
  <2>3. verdict' = IF Top.res THEN "True" ELSE "False"
    BY <1>2 DEF Finish
  <2> QED BY <1>2, <2>1, <2>2, <2>3 DEF Finish, VerdictInv
<1>3. ASSUME Running, verdict' \in {verdict, "SyntaxError", "ActionError"}
      PROVE  VerdictInv'
  BY <1>3 DEF Running, VerdictInv
<1>4. CASE \/ LookAhead \/ Descend \/ LookaheadTrue \/ LookaheadFalse \/ Advance
  BY <1>3, <1>4 DEF LookAhead, Descend, LookaheadTrue, LookaheadFalse, Advance, Looked, Stay
<1>5. CASE TerminalMatch \/ TerminalMismatch
  BY <1>3, <1>5 DEF TerminalMatch, TerminalMismatch, RunAction, RunFail, Stay
<1>6. CASE \/ RepeatStarIterate \/ RepeatDaggerIterate \/ SelectTake \/ SequenceMatch
           \/ OptionsMatch
  BY <1>3, <1>6 DEF RepeatStarIterate, RepeatDaggerIterate, SelectTake, SequenceMatch,
                    OptionsMatch, Traversed, RunAction
<1>7. CASE \/ RepeatStarStop \/ RepeatDaggerStop \/ SelectNext \/ SequenceFail \/ OptionsSkip
  BY <1>3, <1>7 DEF RepeatStarStop, RepeatDaggerStop, SelectNext, SequenceFail, OptionsSkip,
                    Traversed, RunFail, Stay
<1>8. CASE TestRule
  BY <1>3, <1>8 DEF TestRule, TestTerminal, TestIterate, TestStop, TestSelect, TestSequence,
                    Tested, Stay
<1> QED BY <1>1, <1>2, <1>4, <1>5, <1>6, <1>7, <1>8 DEF Next, TraverseRule, Terminated

\* StartParser accepts a program, up to the position it has come to, or refuses it as
\* the rules of the table do.
THEOREM ParseMatchesGrammar == Spec /\ [](ac_ \in Contexts) => []ParseMatches
<1>1. Init /\ ac_ \in Contexts => LanguageInv
  BY InitLanguage
<1>2. IInv /\ LanguageInv /\ ac_ \in Contexts /\ [Next]_vars => LanguageInv'
  BY NextLanguage
<1>3. Init => VerdictInv
  BY DEF Init, VerdictInv
<1>4. VerdictInv /\ IInv /\ [Next]_vars => VerdictInv'
  BY NextVerdict
<1>5. IInv /\ LanguageInv /\ VerdictInv => ParseMatches
  <2>1. SUFFICES ASSUME IInv, LanguageInv, VerdictInv, verdict \in {"True", "False"}
                 PROVE  ParseMatches
    BY DEF ParseMatches
  <2>2. Len(frames) = 1 /\ Top.phase = "ret" /\ (verdict = "True" <=> Top.res)
    BY <2>1 DEF VerdictInv
  <2>3. Top.rule = Start /\ ~Top.test /\ Top.pos0 = 0
    BY <2>1, <2>2 DEF IInv, CallChain, LanguageInv, Top
  <2>4. ModeOf(Top) = Traversing(tokens_)
    <3>1. Top.test = FALSE
      BY <2>1, <2>3, TopFacts
    <3> QED BY <3>1 DEF ModeOf, ModeIn, Mode, Traversing
  <2>5. Reads(tokens_, Traversing(tokens_), Start, 0, Answer(Top, cur_tok_))
    BY <2>1, <2>2, <2>3, <2>4 DEF LanguageInv, MatchesGrammar
  <2>6. CASE verdict = "True"
    BY <2>2, <2>5, <2>6 DEF ParseMatches, Answer
  <2>7. CASE verdict = "False"
    BY <2>2, <2>5, <2>7 DEF ParseMatches, Answer
  <2> QED BY <2>1, <2>6, <2>7
<1> QED BY <1>1, <1>2, <1>3, <1>4, <1>5, Invariance, PTL DEF Spec
=============================================================================
