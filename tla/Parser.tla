------------------------------- MODULE Parser -------------------------------
(***************************************************************************)
(* SyntaxAnalyzer: RuleEngine with the grammar and the semantic actions of *)
(* the language (the .cfg files give rules_ the table SeaGrammar, Act the  *)
(* operator ParseAct and so on).  Two history variables observe what the   *)
(* actions do to parse_stack_ across calls.                                *)
(***************************************************************************)
EXTENDS RuleEngine, ParseActions

VARIABLES
  heights, \* the height of parse_stack_ when each activation of frames began
  stale    \* some rule has answered False and left the stack at another height

parserVars == <<vars, heights, stale>>

ParserInit == Init /\ heights = <<0>> /\ stale = FALSE

ParserNext ==
  /\ Next
  /\ heights' = [k \in DOMAIN frames' |->
                   IF k \in DOMAIN heights THEN heights[k] ELSE Len(parse_stack_)]
  /\ stale' = (stale \/ LET f == frames'[Len(frames')] IN
                 f.phase = "ret" /\ ~f.res /\ Len(parse_stack_') # heights'[Len(frames')])

ParserSpec == ParserInit /\ [][ParserNext]_parserVars

SeaRuleName == DOMAIN SeaGrammar

-----------------------------------------------------------------------------

(* Properties                                                               *)

\* The rules that stand for one thing of the program: a type, a name, an
\* expression, a statement, a definition.
WholeRules ==
  {"typeref", "type", "name", "expr", "expr10", "expr1", "term", "unary", "primary", "block", "stmt",
   "params", "deffunc", "defvars", "defconst", "defclass", "typedef_", "import_stmt"}

\* A rule for one thing leaves one item on parse_stack_, above what was there when
\* it began: what the actions of its sub-rules pushed has all been taken, so the
\* caller's action finds its operands at the depths it looks at.
PushesOne ==
  Running /\ Top.phase = "ret" /\ Top.res /\ ~Top.test /\ Top.rule \in WholeRules
    => Len(parse_stack_) = heights[Len(frames)] + 1

\* No alternative that is given up has pushed or popped an item: the actions have
\* no undo, so a rule must know before its first action that it will not answer False.
NoStale == ~stale

\* An alternative that is given up may leave its items only in a program that is
\* refused in the end.
StaleRefused == stale => verdict # "True"
=============================================================================
