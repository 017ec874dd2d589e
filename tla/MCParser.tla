------------------------------ MODULE MCParser ------------------------------
(***************************************************************************)
(* Parser on the programs Printer writes from a pool of trees: each one    *)
(* must be accepted and must come back as the same tree.                   *)
(***************************************************************************)
EXTENDS Parser, Programs, Ranking

CONSTANT
  Programs \* sequences of definitions, as Printer takes them

VARIABLE
  program  \* the one whose tokens are parsed

MCTokenStreams == {TokensOf(ds) : ds \in Programs}

MCInit == program \in Programs /\ tokens_ = TokensOf(program) /\ ParserInit
MCNext == ParserNext /\ UNCHANGED program
MCSpec == MCInit /\ [][MCNext]_<<parserVars, program>>

-----------------------------------------------------------------------------
(* The ranks of the rules of the language                                   *)

RECURSIVE NullableFrom(_), RanksFrom(_)

\* All rules that may match nothing when those of N may.
NullableFrom(N) ==
  LET more == {r \in SeaRuleName : MatchesNothing(r, N)} IN
  IF more \subseteq N THEN N ELSE NullableFrom(N \cup more)

SeaNullable == NullableFrom({})

\* The rules whose left corners have ranks come next.
RanksFrom(ranks) ==
  LET Ready(r) == Kind(r) = "Terminal" \/ \A i \in 1..Len(Subs(r)) :
                     LeftCorner(r, i, SeaNullable) => Subs(r)[i] \in DOMAIN ranks
      next == {r \in SeaRuleName \ DOMAIN ranks : Ready(r)}
      rank == Cardinality({ranks[r] : r \in DOMAIN ranks}) IN
  IF next = {} THEN ranks ELSE RanksFrom(ranks @@ [r \in next |-> rank])

SeaRank == RanksFrom(<<>>)

-----------------------------------------------------------------------------

\* The first name of an import path, now its last, is not to be relied on.
Reliable(decls) ==
  [decls EXCEPT !.imports = [k \in DOMAIN @ |-> Front(@[k][2])]]

\* What the parser builds from the source of a program is that program: it is
\* accepted, no definition, statement or operand is lost, added or moved,
\* operators group by their priority, and every class and alias is what its name
\* is first used for.
RoundTrip ==
  ~Running => /\ verdict = "True" /\ Reliable(ac_.decls) = Reliable(Meaning(program))
              /\ \A name \in DOMAIN TypeNames(program) : ac_.types[name] = TypeNames(program)[name]

\* A program of LangSpec.txt is accepted.
Accepted == ~Running => verdict = "True"

\* A repetition that has matched, and so has moved on, is a success: "Repeat more
\* than once".
DaggerRepeats ==
  Top.phase = "ret" /\ Kind(Top.rule) = "RepeatDagger" /\ cur_tok_ > Top.pos0 => Top.res
=============================================================================
