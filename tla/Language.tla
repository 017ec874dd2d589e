------------------------------ MODULE Language ------------------------------
(***************************************************************************)
(* What a rule table means, as a parsing expression grammar, apart from    *)
(* the engine that runs it.  Reads and ReadsFirst are any two relations    *)
(* that are closed under the rules of such a grammar; so what is said of   *)
(* them holds of the least ones, which are its language.                   *)
(*                                                                         *)
(* A way to read, m, is [test, names]: TraverseRule (test = FALSE) or      *)
(* TestRule, where a token counts only at one of the positions names.      *)
(***************************************************************************)
EXTENDS RuleEngine

CONSTANTS
  Contexts,                     \* any set that holds every context of the parse
  Reads(_, _, _, _, _),         \* (s, m, r, p, o): rule r reads from position p up to
                                \* position o of the stream s, or o = Fail
  ReadsFirst(_, _, _, _, _, _)  \* (s, m, r, n, p, q): the first n sub-rules of r do, one
                                \* behind the other

Fail == -1

Everywhere(s) == 1..Len(s)
NamesIn(s, ac) == {i \in Everywhere(s) : HasType(ac, s[i])}

Mode(s, test, names) == [test |-> test, names |-> IF test THEN names ELSE Everywhere(s)]
Traversing(s) == Mode(s, FALSE, {})
Testing(s) == Mode(s, TRUE, Everywhere(s))
TestingTypes(s) == {Mode(s, TRUE, NamesIn(s, ac)) : ac \in Contexts}
Modes(s) == {Traversing(s), Testing(s)} \cup TestingTypes(s)

\* How a lookahead of r reads: with the names of types in some context.
Sees(s, r) == IF ChecksUserType(r) THEN TestingTypes(s) ELSE {Testing(s)}

Starts(s) == 0..Len(s) - 1
Ends(s) == 0..Len(s)
Outcomes(s) == Ends(s) \cup {Fail}
Last(r) == Len(Subs(r))

-----------------------------------------------------------------------------
(* Readings of the sub-rules                                                *)

\* The first n sub-rules of r cannot all be read from p.
BreaksWithin(s, m, r, n, p) ==
  \E k \in 0..n - 1, q \in Starts(s) : ReadsFirst(s, m, r, k, p, q) /\ Reads(s, m, Subs(r)[k + 1], q, Fail)

\* TestRule does not look ahead.
Ahead(s, m, r, p) == m.test \/ \E l \in Sees(s, r), q \in Ends(s) : ReadsFirst(s, l, r, Lookahead(r), p, q)
NotAhead(s, m, r, p) == ~m.test /\ \E l \in Sees(s, r) : BreaksWithin(s, l, r, Lookahead(r), p)

Whole(s, m, r, p, q) == Ahead(s, m, r, p) /\ ReadsFirst(s, m, r, Last(r), p, q)
Broken(s, m, r, p) == Ahead(s, m, r, p) /\ BreaksWithin(s, m, r, Last(r), p)

\* The first n alternatives of r cannot be read from p.
NoneOf(s, m, r, n, p) == \A j \in 1..n : Reads(s, m, Subs(r)[j], p, Fail)

-----------------------------------------------------------------------------
(* The rules of the grammar                                                 *)

TerminalReads(s, m, r, p, o) ==
  o = IF s[p + 1].type = Subs(r)[1] /\ p + 1 \in m.names THEN p + 1 ELSE Fail

SelectReads(s, m, r, p, o) ==
  \/ o # Fail /\ \E k \in 1..Last(r) : NoneOf(s, m, r, k - 1, p) /\ Reads(s, m, Subs(r)[k], p, o)
  \/ o = Fail /\ NoneOf(s, m, r, Last(r), p)

SequenceReads(s, m, r, p, o) ==
  \/ o # Fail /\ Whole(s, m, r, p, o)
  \/ o = Fail /\ (NotAhead(s, m, r, p) \/ Broken(s, m, r, p))

OptionsReads(s, m, r, p, o) ==
  \/ o # Fail /\ Whole(s, m, r, p, o)
  \/ o = p /\ (NotAhead(s, m, r, p) \/ Broken(s, m, r, p))

\* Once more, or the end: RepeatDagger fails where an iteration breaks off.
RepetitionReads(s, m, r, p, o) ==
  \/ \E q \in Starts(s) : Whole(s, m, r, p, q) /\ Reads(s, m, r, q, o)
  \/ o = p /\ NotAhead(s, m, r, p)
  \/ o = (IF Kind(r) = "RepeatStar" THEN p ELSE Fail) /\ Broken(s, m, r, p)

Derives(s, m, r, p, o) ==
  \/ Kind(r) = "Terminal" /\ TerminalReads(s, m, r, p, o)
  \/ Kind(r) = "Select" /\ SelectReads(s, m, r, p, o)
  \/ Kind(r) = "Sequence" /\ SequenceReads(s, m, r, p, o)
  \/ Kind(r) = "Options" /\ OptionsReads(s, m, r, p, o)
  \/ Repeats(r) /\ RepetitionReads(s, m, r, p, o)

ASSUME ReadsAssumption ==
  \A s \in TokenStreams : \A m \in Modes(s), r \in RuleName, p \in Starts(s), o \in Outcomes(s) :
    Derives(s, m, r, p, o) => Reads(s, m, r, p, o)

ASSUME ReadsFirstAssumption ==
  \A s \in TokenStreams : \A m \in Modes(s), r \in RuleName, p \in Starts(s) :
    /\ ReadsFirst(s, m, r, 0, p, p)
    /\ \A n \in 0..Last(r) - 1, q \in Starts(s) : ReadsFirst(s, m, r, n, p, q) =>
         \A e \in Ends(s) : Reads(s, m, Subs(r)[n + 1], q, e) => ReadsFirst(s, m, r, n + 1, p, e)

-----------------------------------------------------------------------------
(* Properties                                                               *)

ModeIn(s, ac, f) == Mode(s, f.test, IF f.ut THEN NamesIn(s, ac) ELSE Everywhere(s))
ModeOf(f) == ModeIn(tokens_, ac_, f)

Answer(f, p) == IF f.res THEN p ELSE Fail

\* Every activation that returns, of TraverseRule and of TestRule, answers and
\* consumes what the parsing expression of its rule says: backtracking over
\* alternatives, iterations and lookaheads has left no trace in the position.
MatchesGrammar ==
  Top.phase = "ret" => Reads(tokens_, ModeOf(Top), Top.rule, Top.pos0, Answer(Top, cur_tok_))

\* The answer of the whole parse is the reading of compilation_unit from the first
\* token: what StartParser accepts and refuses is what the table describes.
ParseMatches ==
  /\ verdict = "True" => Reads(tokens_, Traversing(tokens_), Start, 0, cur_tok_)
  /\ verdict = "False" => Reads(tokens_, Traversing(tokens_), Start, 0, Fail)

\* What has been read when activation f is at position q, in the way m.  A repetition
\* has consumed iterations: what it reads from its backup it reads from its beginning.
ReadSoFar(s, m, f, q) ==
  /\ Repeats(f.rule) =>
       \A o \in Outcomes(s) : Reads(s, m, f.rule, f.tok_pos, o) => Reads(s, m, f.rule, f.pos0, o)
  /\ f.phase = "look" => \A l \in Sees(s, f.rule) : ReadsFirst(s, l, f.rule, f.i - 1, f.tok_pos, q)
  /\ f.phase = "body" /\ Kind(f.rule) = "Select" =>
       q = f.tok_pos /\ NoneOf(s, m, f.rule, f.i - 1, q)
  /\ f.phase = "body" /\ Kind(f.rule) \notin {"Select", "Terminal"} =>
       Ahead(s, m, f.rule, f.tok_pos) /\ ReadsFirst(s, m, f.rule, f.i - 1, f.tok_pos, q)

\* The position activation k is at: where it called the next one.
Here(k) == IF k = Len(frames) THEN cur_tok_ ELSE frames[k + 1].pos0

\* The answer to an activation is the answer its caller has asked for.
InMode(f, g) ==
  g.test => g.ut = (IF f.phase = "look" THEN ChecksUserType(f.rule) ELSE f.ut)

LanguageInv ==
  /\ \A k, l \in 1..Len(frames) : k < l /\ frames[k].test => frames[l].test
  /\ \A k \in 1..Len(frames) - 1 : InMode(frames[k], frames[k + 1])
  /\ \A k \in 1..Len(frames) :
       frames[k].phase # "ret" => ReadSoFar(tokens_, ModeOf(frames[k]), frames[k], Here(k))
  /\ frames[1].pos0 = 0
  /\ MatchesGrammar

\* The parse has come to an answer: StartParser's activation has returned it.
VerdictInv ==
  verdict \in {"True", "False"} =>
    Len(frames) = 1 /\ Top.phase = "ret" /\ (verdict = "True" <=> Top.res)
=============================================================================
