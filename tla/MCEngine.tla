------------------------------ MODULE MCEngine ------------------------------
(***************************************************************************)
(* RuleEngine on a small grammar that uses every kind of rule, in          *)
(* TraverseRule and in TestRule, with every way to look ahead, over all    *)
(* short token sequences; and the meaning of its rules for Language: a     *)
(* program that finds the position behind the tokens that rule r reads     *)
(* from position p of s, or Fail, taken for the two relations.  TLC finds  *)
(* them closed under the rules of Language.                                *)
(***************************************************************************)
EXTENDS Language

CONSTANTS
  MaxTokens, \* bound: tokens before the TokEof
  MaxStack   \* bound: items an action accepts below it before its assert fires

Rule(kind, lookahead, subs) ==
  [action_ |-> kind, lookahead_ |-> lookahead, sub_rules_ |-> subs]

Letters == {"kw", "id", "semi"}

\* "some" only runs in TestRule; "chain" ends by a lookahead that fails or by a
\* body that does.
MCrules == [
  unit   |-> Rule("Sequence", 0, <<"items", "eof">>),
  items  |-> Rule("RepeatStar", 0, <<"item">>),
  item   |-> Rule("Select", 0, <<"decl", "user", "tail", "probe", "maybe">>),
  decl   |-> Rule("Sequence", 0, <<"kw", "id">>),
  user   |-> Rule("Sequence", 16, <<"id", "id">>),
  probe  |-> Rule("Sequence", 3, <<"ids", "choice", "opt">>),
  ids    |-> Rule("RepeatStar", 1, <<"id", "semi">>),
  choice |-> Rule("Select", 0, <<"two", "kw">>),
  two    |-> Rule("Sequence", 0, <<"semi", "id">>),
  opt    |-> Rule("Options", 1, <<"semi", "kw">>),
  tail   |-> Rule("Sequence", 0, <<"chain", "id">>),
  chain  |-> Rule("RepeatDagger", 1, <<"kw", "semi">>),
  maybe  |-> Rule("Sequence", 1, <<"some", "id">>),
  some   |-> Rule("RepeatDagger", 0, <<"semi">>),
  eof    |-> Rule("Terminal", 0, <<"eof">>),
  kw     |-> Rule("Terminal", 0, <<"kw">>),
  id     |-> Rule("Terminal", 0, <<"id">>),
  semi   |-> Rule("Terminal", 0, <<"semi">>)]

MCRuleName == DOMAIN MCrules

\* Identifiers are the name of a type, x, or not, y.
Token == [type : {"kw", "semi"}, c : {""}] \cup [type : {"id"}, c : {"x", "y"}]
MCTokenStreams ==
  {Append(s, [type |-> "eof", c |-> ""]) : s \in UNION {[1..n -> Token] : n \in 0..MaxTokens}}
MCHasType(ac, tok) == tok.c = "x"

\* Identifiers are pushed, a pair of them is merged, in one of two ways when the
\* pair is a declaration; a full stack is an assert.
MCAct(rule, tokens, pos, s, ac) ==
  CASE rule = "id" -> IF Len(s) >= MaxStack THEN {} ELSE {[stack |-> Append(s, tokens[pos + 1].c), ac |-> ac]}
    [] rule = "decl" -> {[stack |-> s, ac |-> a] : a \in {ac, 1 - ac}}
    [] rule = "user" -> {[stack |-> SubSeq(s, 1, Len(s) - 1), ac |-> ac]}
    [] OTHER -> {[stack |-> s, ac |-> ac]}

\* Some tokens behind the items are an error, others are left to the next rule.
MCFailAct(rule, tokens, pos) == rule = "items" /\ tokens[pos + 1].type = "semi"

-----------------------------------------------------------------------------
(* The meaning                                                              *)

MCContexts == {0, 1}

RECURSIVE End(_, _, _, _), EndOfFirst(_, _, _, _, _), EndOfOne(_, _, _, _, _)

\* behind the first n sub-rules of r
EndOfFirst(s, m, r, n, p) ==
  IF n = 0 THEN p
  ELSE LET e == EndOfFirst(s, m, r, n - 1, p) IN
       IF e \in Starts(s) THEN End(s, m, Subs(r)[n], e) ELSE Fail

\* of the first alternative that matches, from the k-th on
EndOfOne(s, m, r, k, p) ==
  IF k > Last(r) THEN Fail
  ELSE LET e == End(s, m, Subs(r)[k], p) IN IF e # Fail THEN e ELSE EndOfOne(s, m, r, k + 1, p)

LookingAhead(s, r) == CHOOSE l \in Sees(s, r) : TRUE

End(s, m, r, p) ==
  LET ahead == m.test \/ EndOfFirst(s, LookingAhead(s, r), r, Lookahead(r), p) # Fail
      all == EndOfFirst(s, m, r, Last(r), p) IN
  CASE Kind(r) = "Terminal" ->
         IF s[p + 1].type = r /\ p + 1 \in m.names THEN p + 1 ELSE Fail
    [] Kind(r) = "Select" -> EndOfOne(s, m, r, 1, p)
    [] Kind(r) = "Sequence" -> IF ahead THEN all ELSE Fail
    [] Kind(r) = "Options" -> IF ahead /\ all # Fail THEN all ELSE p
    [] Kind(r) = "RepeatStar" -> IF ahead /\ all # Fail THEN End(s, m, r, all) ELSE p
    [] Kind(r) = "RepeatDagger" ->
         IF ~ahead THEN p ELSE IF all = Fail THEN Fail ELSE End(s, m, r, all)

\* Computed once for all streams.
Read == [s \in TokenStreams |-> [m \in Modes(s) |-> [r \in RuleName |-> [p \in Starts(s) |-> End(s, m, r, p)]]]]
ReadFirst ==
  [s \in TokenStreams |-> [m \in Modes(s) |-> [r \in RuleName |->
     LET first[n \in 0..Last(r), p \in Starts(s)] ==
           IF n = 0 THEN p
           ELSE IF first[n - 1, p] \in Starts(s) THEN Read[s][m][Subs(r)[n]][first[n - 1, p]] ELSE Fail
     IN first]]]

MCReads(s, m, r, p, o) == Read[s][m][r][p] = o
MCReadsFirst(s, m, r, n, p, q) == ReadFirst[s][m][r][n, p] = q
=============================================================================
