----------------------------- MODULE RuleEngine -----------------------------
(***************************************************************************)
(* The grammar engine of sealang (src/src/Parser.cpp): TraverseRule, the   *)
(* recursive descent over a table of rules, with the lookahead done by     *)
(* TestRule.  The table, the semantic actions and the token streams are    *)
(* parameters, so the engine is checked on small grammars here, on the     *)
(* grammar of the language in MCParser, and proved about for every one.    *)
(*                                                                         *)
(* The C++ call stack is the sequence frames: one frame per activation of  *)
(* TraverseRule (test = FALSE) or TestRule (test = TRUE).  A callee that   *)
(* has returned stays on top in phase "ret" until its caller has read the  *)
(* result.  An eResult Error always ends the parse: every caller asserts.  *)
(***************************************************************************)
EXTENDS Integers, Sequences

CONSTANTS
  RuleName,          \* the enum RuleName: token rules and grammar rules
  rules_,            \* the rule table [action_, lookahead_, sub_rules_]
  Start,             \* compilation_unit
  Eof,               \* the rule and the type of the token TokEof
  TokenStreams,      \* token sequences a tokenizer may hold
  InitContext,       \* what the parser uses of its ASTContext, when the parse begins
  HasType(_, _),     \* HasType(ac, tok): ASTContext::GetType finds the text of tok
  Act(_, _, _, _, _),\* rule_actions_[rule](tokens, position, stack, context): its
                     \* set of outcomes [stack, ac]; none when its assert fires
  FailAct(_, _, _)   \* rule_fail_actions_[rule](tokens, position) returns Error

Kinds == {"RepeatStar", "RepeatDagger", "Select", "Sequence", "Options", "Terminal"}

ASSUME TableAssumption ==
  /\ rules_ \in [RuleName -> [action_: Kinds, lookahead_: 0..16, sub_rules_: Seq(RuleName)]]
  /\ Start \in RuleName /\ Eof \in RuleName
  /\ \A r \in RuleName : rules_[r].sub_rules_ # <<>>

\* A Terminal names its own token; the parse starts in a rule that nothing calls.
ASSUME StartAssumption ==
  /\ rules_[Start].action_ = "Sequence" /\ rules_[Start].lookahead_ = 0
  /\ \A r \in RuleName : rules_[r].action_ = "Terminal" => rules_[r].sub_rules_[1] = r
  /\ \A r \in RuleName : \A i \in 1..Len(rules_[r].sub_rules_) :
       rules_[r].sub_rules_[i] # Start
  /\ rules_[Eof].action_ = "Terminal"

\* Only the last step of the start rule asks for the end of the stream.
ASSUME EofAssumption ==
  \A r \in RuleName : \A i \in 1..Len(rules_[r].sub_rules_) :
    (rules_[r].action_ # "Terminal" /\ rules_[r].sub_rules_[i] = Eof)
      => r = Start /\ i = Len(rules_[r].sub_rules_)

\* CompileTokens ends every stream with the one TokEof.
ASSUME StreamAssumption ==
  \A s \in TokenStreams :
    /\ s \in Seq([type: RuleName, c: STRING]) /\ Len(s) > 0
    /\ \A i \in 1..Len(s) : s[i].type = Eof <=> i = Len(s)

\* Lookahead counts stay within the sub-rules they test.
ASSUME LookaheadAssumption ==
  \A r \in RuleName :
    rules_[r].lookahead_ = 16 \/ rules_[r].lookahead_ <= Len(rules_[r].sub_rules_)

VARIABLES
  tokens_,      \* Tokenizer::tokens_, never written by the parser
  cur_tok_,     \* Tokenizer::cur_tok_, counted from 0 as in the code
  frames,       \* activations of TraverseRule and TestRule
  parse_stack_, \* SyntaxAnalyzer::parse_stack_
  ac_,          \* what the parser reads and writes of its ASTContext
  verdict       \* what StartParser returns, or which assert stopped it

vars == <<tokens_, cur_tok_, frames, parse_stack_, ac_, verdict>>

-----------------------------------------------------------------------------

Kind(r) == rules_[r].action_
Subs(r) == rules_[r].sub_rules_

\* 16 stands for one lookahead that asks for the name of a type.
ChecksUserType(r) == rules_[r].lookahead_ = 16

\* Select and Terminal never look ahead.
Lookahead(r) ==
  IF Kind(r) \in {"Select", "Terminal"} THEN 0
  ELSE IF ChecksUserType(r) THEN 1 ELSE rules_[r].lookahead_

\* An activation.  tok_pos, i and j (here i in phase "look") are locals of the
\* code; pos0 remembers, for the properties, where the call began.
NewFrame(r, test, ut) ==
  [rule |-> r, test |-> test, ut |-> ut,
   phase |-> IF ~test /\ Lookahead(r) > 0 THEN "look" ELSE "body",
   i |-> 1, tok_pos |-> cur_tok_, res |-> FALSE, pos0 |-> cur_tok_]

Top == frames[Len(frames)]
HasCaller == Len(frames) > 1
Caller == frames[Len(frames) - 1]
BelowTop == SubSeq(frames, 1, Len(frames) - 1)
Callers == SubSeq(frames, 1, Len(frames) - 2)

Return(f, res) == [f EXCEPT !.phase = "ret", !.res = res]
\* the callee is popped and its caller goes on as f
Resume(f) == Append(Callers, f)

Running == verdict = "running"
Tok == tokens_[cur_tok_ + 1]

Stay == UNCHANGED <<tokens_, parse_stack_, ac_, verdict>>

\* rule_actions_[r], then g becomes the frames and p the token position.
RunAction(r, g, p) ==
  LET outcomes == Act(r, tokens_, cur_tok_, parse_stack_, ac_) IN
  IF outcomes = {}
  THEN /\ verdict' = "ActionError"
       /\ UNCHANGED <<tokens_, cur_tok_, frames, parse_stack_, ac_>>
  ELSE /\ \E o \in outcomes : parse_stack_' = o.stack /\ ac_' = o.ac
       /\ frames' = g /\ cur_tok_' = p
       /\ UNCHANGED <<tokens_, verdict>>

\* rule_fail_actions_[r]: Error stops the parse, otherwise g and p follow.
RunFail(r, g, p) ==
  IF FailAct(r, tokens_, cur_tok_)
  THEN /\ verdict' = "SyntaxError"
       /\ UNCHANGED <<tokens_, cur_tok_, frames, parse_stack_, ac_>>
  ELSE /\ frames' = g /\ cur_tok_' = p
       /\ Stay

-----------------------------------------------------------------------------
(* Calls                                                                   *)

\* A rule tests its next lookahead.
LookAhead ==
  /\ Running /\ Top.phase = "look"
  /\ frames' = Append(frames, NewFrame(Subs(Top.rule)[Top.i], TRUE, ChecksUserType(Top.rule)))
  /\ UNCHANGED cur_tok_ /\ Stay

\* Faulty variant: a sub-rule of TestRule runs in TraverseRule.
DescendTraversing ==
  /\ Running /\ Top.phase = "body" /\ Kind(Top.rule) # "Terminal"
  /\ frames' = Append(frames, NewFrame(Subs(Top.rule)[Top.i], FALSE, Top.ut))
  /\ UNCHANGED cur_tok_ /\ Stay

\* A rule calls its next sub-rule; TestRule hands its own check_user_type down.
Descend ==
  /\ Running /\ Top.phase = "body" /\ Kind(Top.rule) # "Terminal"
  /\ frames' = Append(frames, NewFrame(Subs(Top.rule)[Top.i], Top.test, Top.ut))
  /\ UNCHANGED cur_tok_ /\ Stay

-----------------------------------------------------------------------------
(* TraverseRule                                                            *)

Looked == Running /\ HasCaller /\ Top.phase = "ret" /\ Caller.phase = "look"

\* Faulty variant: the body begins behind the lookahead.
LookaheadTrueConsuming ==
  /\ Looked /\ Top.res
  /\ frames' = Resume(IF Caller.i < Lookahead(Caller.rule) THEN [Caller EXCEPT !.i = @ + 1]
                      ELSE [Caller EXCEPT !.phase = "body", !.i = 1])
  /\ UNCHANGED cur_tok_ /\ Stay

\* One lookahead matched: the next one, or back to the start and on to the body.
LookaheadTrue ==
  /\ Looked /\ Top.res
  /\ IF Caller.i < Lookahead(Caller.rule)
     THEN /\ frames' = Resume([Caller EXCEPT !.i = @ + 1])
          /\ UNCHANGED cur_tok_
     ELSE /\ frames' = Resume([Caller EXCEPT !.phase = "body", !.i = 1])
          /\ cur_tok_' = Caller.tok_pos
  /\ Stay

\* One lookahead failed: repetitions and options match nothing, a sequence fails.
LookaheadFalse ==
  /\ Looked /\ ~Top.res
  /\ frames' = Resume(Return(Caller, Kind(Caller.rule) # "Sequence"))
  /\ cur_tok_' = Caller.tok_pos
  /\ Stay

\* Faulty variant: the token is consumed twice.
TerminalMatchTwice ==
  /\ Running /\ Top.phase = "body" /\ Kind(Top.rule) = "Terminal" /\ ~Top.test
  /\ Tok.type = Subs(Top.rule)[1]
  /\ RunAction(Subs(Top.rule)[1], Append(BelowTop, Return(Top, TRUE)), cur_tok_ + 2)

\* The token rule at hand matches: its action runs before the token is consumed.
TerminalMatch ==
  /\ Running /\ Top.phase = "body" /\ Kind(Top.rule) = "Terminal" /\ ~Top.test
  /\ Tok.type = Subs(Top.rule)[1]
  /\ RunAction(Subs(Top.rule)[1], Append(BelowTop, Return(Top, TRUE)), cur_tok_ + 1)

\* Faulty variant: a token that was not consumed is put back.
TerminalMismatchUngets ==
  /\ Running /\ Top.phase = "body" /\ Kind(Top.rule) = "Terminal" /\ ~Top.test
  /\ Tok.type # Subs(Top.rule)[1]
  /\ RunFail(Top.rule, Append(BelowTop, Return(Top, FALSE)), cur_tok_ - 1)

TerminalMismatch ==
  /\ Running /\ Top.phase = "body" /\ Kind(Top.rule) = "Terminal" /\ ~Top.test
  /\ Tok.type # Subs(Top.rule)[1]
  /\ RunFail(Top.rule, Append(BelowTop, Return(Top, FALSE)), cur_tok_)

\* The callee of a TraverseRule of this kind has returned res.
Traversed(kind, res) ==
  /\ Running /\ HasCaller /\ Top.phase = "ret"
  /\ Caller.phase = "body" /\ ~Caller.test /\ Kind(Caller.rule) = kind /\ Top.res = res

AtLast == Caller.i = Len(Subs(Caller.rule))

\* Every kind but Select goes on to its next sub-rule when one has matched.
Advance ==
  /\ Running /\ HasCaller /\ Top.phase = "ret" /\ Top.res
  /\ Caller.phase = "body" /\ Kind(Caller.rule) # "Select" /\ ~AtLast
  /\ frames' = Resume([Caller EXCEPT !.i = @ + 1])
  /\ UNCHANGED cur_tok_ /\ Stay

\* A new iteration: a new backup of the position, and the lookahead again.
NextIteration(f) ==
  [f EXCEPT !.i = 1, !.tok_pos = cur_tok_,
            !.phase = IF Lookahead(f.rule) > 0 THEN "look" ELSE "body"]

RepeatStarIterate ==
  /\ Traversed("RepeatStar", TRUE) /\ AtLast
  /\ RunAction(Caller.rule, Resume(NextIteration(Caller)), cur_tok_)

\* Faulty variant: the loop is not left when an iteration fails.
RepeatStarRetries ==
  /\ Traversed("RepeatStar", FALSE)
  /\ RunFail(Caller.rule, Resume(NextIteration(Caller)), Caller.tok_pos)

RepeatStarStop ==
  /\ Traversed("RepeatStar", FALSE)
  /\ RunFail(Caller.rule, Resume(Return(Caller, TRUE)), Caller.tok_pos)

RepeatDaggerIterate ==
  /\ Traversed("RepeatDagger", TRUE) /\ AtLast
  /\ RunAction(Caller.rule, Resume(NextIteration(Caller)), cur_tok_)

\* `success` is declared inside the loop: in the iteration that fails it is
\* false, however many iterations have matched before.
RepeatDaggerStop ==
  /\ Traversed("RepeatDagger", FALSE)
  /\ RunFail(Caller.rule, Resume(Return(Caller, FALSE)), Caller.tok_pos)

SelectTake ==
  /\ Traversed("Select", TRUE)
  /\ RunAction(Caller.rule, Resume(Return(Caller, TRUE)), cur_tok_)

SelectNext ==
  /\ Traversed("Select", FALSE)
  /\ RunFail(Caller.rule,
             Resume(IF AtLast THEN Return(Caller, FALSE) ELSE [Caller EXCEPT !.i = @ + 1]),
             Caller.tok_pos)

SequenceMatch ==
  /\ Traversed("Sequence", TRUE) /\ AtLast
  /\ RunAction(Caller.rule, Resume(Return(Caller, TRUE)), cur_tok_)

\* Faulty variants: the position stays where the sequence failed; the sequence
\* matches nothing, as an option does.
SequenceFailForward ==
  /\ Traversed("Sequence", FALSE)
  /\ RunFail(Caller.rule, Resume(Return(Caller, FALSE)), cur_tok_)
SequenceSkip ==
  /\ Traversed("Sequence", FALSE)
  /\ RunFail(Caller.rule, Resume(Return(Caller, TRUE)), Caller.tok_pos)

SequenceFail ==
  /\ Traversed("Sequence", FALSE)
  /\ RunFail(Caller.rule, Resume(Return(Caller, FALSE)), Caller.tok_pos)

OptionsMatch ==
  /\ Traversed("Options", TRUE) /\ AtLast
  /\ RunAction(Caller.rule, Resume(Return(Caller, TRUE)), cur_tok_)

OptionsSkip ==
  /\ Traversed("Options", FALSE)
  /\ RunFail(Caller.rule, Resume(Return(Caller, TRUE)), Caller.tok_pos)

-----------------------------------------------------------------------------
(* TestRule: the same walk without actions, fail actions or lookahead       *)

\* With check_user_type any token rule that matches must also name a type.
TestTerminal ==
  /\ Running /\ Top.phase = "body" /\ Kind(Top.rule) = "Terminal" /\ Top.test
  /\ LET match == Tok.type = Subs(Top.rule)[1] /\ (Top.ut => HasType(ac_, Tok)) IN
     /\ frames' = Append(BelowTop, Return(Top, match))
     /\ cur_tok_' = IF match THEN cur_tok_ + 1 ELSE cur_tok_
  /\ Stay

\* The callee of a TestRule of one of these kinds has returned res.
Tested(kinds, res) ==
  /\ Running /\ HasCaller /\ Top.phase = "ret"
  /\ Caller.phase = "body" /\ Caller.test /\ Kind(Caller.rule) \in kinds /\ Top.res = res

TestIterate ==
  /\ Tested({"RepeatStar", "RepeatDagger"}, TRUE) /\ AtLast
  /\ frames' = Resume([Caller EXCEPT !.i = 1, !.tok_pos = cur_tok_])
  /\ UNCHANGED cur_tok_ /\ Stay

\* As in TraverseRule, RepeatDagger always ends in False.
TestStop ==
  /\ Tested({"RepeatStar", "RepeatDagger"}, FALSE)
  /\ frames' = Resume(Return(Caller, Kind(Caller.rule) = "RepeatStar"))
  /\ cur_tok_' = Caller.tok_pos
  /\ Stay

TestSelect ==
  \/ /\ Tested({"Select"}, TRUE)
     /\ frames' = Resume(Return(Caller, TRUE))
     /\ UNCHANGED cur_tok_ /\ Stay
  \/ /\ Tested({"Select"}, FALSE)
     /\ frames' = Resume(IF AtLast THEN Return(Caller, FALSE) ELSE [Caller EXCEPT !.i = @ + 1])
     /\ cur_tok_' = Caller.tok_pos
     /\ Stay

TestSequence ==
  \/ /\ Tested({"Sequence", "Options"}, TRUE) /\ AtLast
     /\ frames' = Resume(Return(Caller, TRUE))
     /\ UNCHANGED cur_tok_ /\ Stay
  \/ /\ Tested({"Sequence", "Options"}, FALSE)
     /\ frames' = Resume(Return(Caller, Kind(Caller.rule) = "Options"))
     /\ cur_tok_' = Caller.tok_pos
     /\ Stay

-----------------------------------------------------------------------------

\* StartParser has its answer.
Finish ==
  /\ Running /\ ~HasCaller /\ Top.phase = "ret"
  /\ verdict' = IF Top.res THEN "True" ELSE "False"
  /\ UNCHANGED <<tokens_, cur_tok_, frames, parse_stack_, ac_>>

\* Nothing runs after StartParser has returned or an assert has fired.
Terminated == ~Running /\ UNCHANGED vars

Init ==
  /\ tokens_ \in TokenStreams
  /\ cur_tok_ = 0 /\ parse_stack_ = <<>> /\ ac_ = InitContext
  /\ frames = <<[rule |-> Start, test |-> FALSE, ut |-> FALSE, phase |-> "body",
                 i |-> 1, tok_pos |-> 0, res |-> FALSE, pos0 |-> 0]>>
  /\ verdict = "running"

TraverseRule ==
  \/ LookAhead \/ Descend \/ LookaheadTrue \/ LookaheadFalse
  \/ TerminalMatch \/ TerminalMismatch \/ Advance
  \/ RepeatStarIterate \/ RepeatStarStop \/ RepeatDaggerIterate \/ RepeatDaggerStop
  \/ SelectTake \/ SelectNext \/ SequenceMatch \/ SequenceFail
  \/ OptionsMatch \/ OptionsSkip

TestRule == TestTerminal \/ TestIterate \/ TestStop \/ TestSelect \/ TestSequence

Next == TraverseRule \/ TestRule \/ Finish \/ Terminated

Spec == Init /\ [][Next]_vars

\* One thread runs the parser: whenever it can take a step it takes one.
FairSpec == Spec /\ WF_vars(Next)

-----------------------------------------------------------------------------
(* Properties                                                              *)

Phases == {"look", "body", "ret"}

Frame ==
  [rule: RuleName, test: BOOLEAN, ut: BOOLEAN, phase: Phases, i: Nat \ {0},
   tok_pos: Nat, res: BOOLEAN, pos0: Nat]

\* The variables have their types.  The items of parse_stack_ and the context
\* belong to the actions.
TypeOK ==
  /\ tokens_ \in TokenStreams
  /\ cur_tok_ \in 0..Len(tokens_)
  /\ frames \in Seq(Frame) /\ frames # <<>>
  /\ verdict \in {"running", "True", "False", "SyntaxError", "ActionError"}

\* An activation stays within its sub-rules, and only TraverseRule looks ahead.
FrameOK(f) ==
  /\ f.i <= Len(Subs(f.rule))
  /\ f.phase = "look" => ~f.test /\ f.i <= Lookahead(f.rule)

\* g runs because f has called it and waits for it.
Calls(f, g) ==
  /\ f.phase # "ret" /\ Kind(f.rule) # "Terminal"
  /\ g.rule = Subs(f.rule)[f.i]
  /\ g.test = (f.test \/ f.phase = "look")

\* The call stack is one that TraverseRule and TestRule can build: StartParser is at
\* the bottom, each activation was called for the sub-rule its caller is at, a
\* lookahead runs TestRule and TestRule calls only itself.  No semantic action can
\* run below a lookahead.
CallChain ==
  /\ frames[1].rule = Start /\ ~frames[1].test
  /\ \A k \in 1..Len(frames) : FrameOK(frames[k])
  /\ \A k \in 1..Len(frames) - 1 : Calls(frames[k], frames[k + 1])

Repeats(r) == Kind(r) \in {"RepeatStar", "RepeatDagger"}

\* The one state in which every token has been consumed.
AtEnd ==
  /\ Top.phase = "ret" /\ Top.res
  /\ Len(frames) = 1 \/ (Len(frames) = 2 /\ Top.rule = Eof)

\* The backups of the position nest: an activation never goes back behind where it
\* was called, and only a repetition moves its backup on.  All of them are tokens
\* of the stream, which is used up only when the last step of the start rule is done.
Positions ==
  /\ \A k \in 1..Len(frames) :
       /\ frames[k].pos0 <= frames[k].tok_pos /\ frames[k].tok_pos < Len(tokens_)
       /\ ~Repeats(frames[k].rule) => frames[k].tok_pos = frames[k].pos0
  /\ \A k \in 1..Len(frames) - 1 : frames[k].tok_pos <= frames[k + 1].pos0
  /\ Top.tok_pos <= cur_tok_
  /\ cur_tok_ = Len(tokens_) => AtEnd
  /\ Top.phase = "body" /\ Kind(Top.rule) = "Terminal" => cur_tok_ = Top.pos0

\* TestRule and TraverseRule read the current token only while there is one:
\* isToken(0, ...) never looks behind the TokEof that ends the stream.
TokenBounds ==
  Running /\ Kind(Top.rule) = "Terminal" /\ Top.phase = "body" => cur_tok_ < Len(tokens_)

\* A rule that answers False has put the token position back to where it began,
\* so the next alternative reads the same tokens.  RepeatDagger does not: it goes
\* back to the start of the iteration that failed.
FalseRestores ==
  Top.phase = "ret" /\ ~Top.res /\ Kind(Top.rule) # "RepeatDagger" => cur_tok_ = Top.pos0

\* A repetition goes round again only behind a token it has consumed.
RepeatProgress ==
  (/\ Running /\ HasCaller /\ Top.phase = "ret" /\ Top.res
   /\ Caller.phase = "body" /\ Repeats(Caller.rule) /\ AtLast)
    => cur_tok_ > Caller.tok_pos

\* No rule is called while the same one runs from the same token: with
\* RepeatProgress this bounds the C++ stack and the parse by the tokens left.
NoLeftRecursion ==
  \A k, l \in DOMAIN frames :
    (k < l /\ frames[k].rule = frames[l].rule /\ frames[k].test = frames[l].test)
      => frames[k].pos0 < frames[l].pos0

\* A parse that is never abandoned comes to an answer: no repetition runs forever
\* on tokens it does not consume and no rule calls itself before it reads one.
Termination == <>(~Running)

\* What every step preserves.
IInv == TypeOK /\ CallChain /\ Positions /\ FalseRestores
=============================================================================
