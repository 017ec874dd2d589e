---------------------------- MODULE Lexer_proofs ----------------------------
(***************************************************************************)
(* The scanner on every source, over any number of tokens: it never comes  *)
(* behind the terminator, its tokens stand one behind the other in the     *)
(* text, and the stream it hands on ends with the one TokEof.  Of a plain  *)
(* text they are the longest lexemes, from the first to the last.          *)
(***************************************************************************)
EXTENDS Lexer, FiniteSetTheorems, WellFoundedInduction, TLAPS

-----------------------------------------------------------------------------
(* Tokens                                                                   *)

Kinds ==
  {Keywords[i][2] : i \in DOMAIN Keywords} \cup {Operators[i][2] : i \in DOMAIN Operators} \cup Unfixed

TokenRecord == [type : Kinds, line : Nat, col : Nat, len : Int, c : Nat]

-----------------------------------------------------------------------------
(* The texts                                                                *)

\* A source has a length.
LEMMA SourcesAre == ASSUME NEW s \in Sources PROVE Len(s) \in Nat
<1>1. s \in Seq(STRING)
  BY SourcesAssumption
<1> QED BY <1>1

\* What is known of the keywords.
LEMMA KeywordsAre ==
  ASSUME NEW i \in DOMAIN Keywords
  PROVE  /\ Len(Keywords[i][1]) \in Nat /\ Len(Keywords[i][1]) >= 1
         /\ \A k \in 1..Len(Keywords[i][1]) : Chars(Keywords[i][1])[k] \in LowAlpha
         /\ Keywords[i][2] \notin Unfixed
<1>1. Len(Keywords[i][1]) \in Nat \ {0} /\ \A k \in 1..Len(Keywords[i][1]) : Chars(Keywords[i][1])[k] \in LowAlpha
  BY TablesAssumption, Zenon
<1>2. Keywords[i][2] \notin Unfixed
  BY TablesAssumption, Zenon
<1> QED BY <1>1, <1>2

\* What is known of the operators.
LEMMA OperatorsAre ==
  ASSUME NEW i \in DOMAIN Operators
  PROVE  /\ Len(Operators[i][1]) \in Nat /\ Len(Operators[i][1]) >= 1 /\ Operators[i][1] # "switch"
         /\ \A k \in 1..Len(Operators[i][1]) : Chars(Operators[i][1])[k] \in Signs
         /\ Operators[i][2] \notin Unfixed
         /\ \A j \in DOMAIN Operators : i <= j => Len(Operators[j][1]) <= Len(Operators[i][1])
<1>1. /\ Len(Operators[i][1]) \in Nat \ {0} /\ Operators[i][1] # "switch"
      /\ \A k \in 1..Len(Operators[i][1]) : Chars(Operators[i][1])[k] \in Signs
  BY TablesAssumption, Zenon
<1>2. Operators[i][2] \notin Unfixed
  BY TablesAssumption, Zenon
<1>3. \A j \in DOMAIN Operators : i <= j => Len(Operators[j][1]) <= Len(Operators[i][1])
  BY TablesAssumption, Zenon
<1> QED BY <1>1, <1>2, <1>3

\* The signs that are not in the tables.
LEMMA SignsAre ==
  /\ Len("/*") = 2 /\ Chars("/*") = <<"/", "*">>
  /\ Len("*/") = 2 /\ Chars("*/") = <<"*", "/">>
  /\ Len("//") = 2 /\ Chars("//") = <<"/", "/">>
  /\ Len(QUOTE) = 1 /\ Chars(QUOTE) = <<QUOTE>>
  /\ Len("\n") = 1 /\ Chars("\n") = <<"\n">>
BY TablesAssumption, Zenon

-----------------------------------------------------------------------------
(* The invariant                                                            *)

PositionOK ==
  /\ src_ \in Sources /\ Len(src_) \in Nat
  /\ read_pos \in 1..Len(src_) + 1 /\ line \in Nat \ {0} /\ col \in Nat \ {0}

\* Where the characters of a token end.
End(t) == t.c + t.len

\* A token that begins in the source and ends in it.
Within(t) == t \in TokenRecord /\ t.c \in 1..Len(src_) + 1 /\ t.type # "TokEof" /\ End(t) <= Len(src_) + 1

\* The tokens that have been made all end at p or before.
Before(p) == \A k \in 1..Len(tokens_) : End(tokens_[k]) <= p

\* The tokens in the order of the text; the TokEof only at the end of a scan.
TokensOK ==
  /\ tokens_ \in Seq(TokenRecord)
  /\ \A k \in 2..Len(tokens_) : End(tokens_[k - 1]) <= tokens_[k].c
  /\ \A k \in 1..Len(tokens_) :
       /\ tokens_[k].c \in 1..Len(src_) + 1
       /\ tokens_[k].type = "TokEof" <=> phase = "ok" /\ k = Len(tokens_)
       /\ tokens_[k].type # "TokEof" => End(tokens_[k]) <= Len(src_) + 1
  /\ phase = "ok" => Len(tokens_) > 0

\* What has been made lies behind the cursor, and so does the token in work.
PhaseOK ==
  /\ phase \in {"token"} \cup Loops \cup Ended
  /\ phase = "token" => Before(read_pos)
  /\ phase \in Loops => Within(tok) /\ tok.c <= read_pos /\ End(tok) <= read_pos /\ Before(tok.c)

IInv == PositionOK /\ TokensOK /\ PhaseOK

\* What the invariant is for.
LEMMA Implied == IInv => TypeOK /\ StreamOK
<1> SUFFICES ASSUME IInv PROVE TypeOK /\ StreamOK
  OBVIOUS
<1>1. DOMAIN tokens_ = 1..Len(tokens_) /\ (Len(tokens_) > 0 => tokens_ # <<>>)
  BY DEF IInv, TokensOK
<1>2. TypeOK
  BY <1>1 DEF IInv, PositionOK, TokensOK, PhaseOK, TypeOK
<1>3. TokensInOrder
  BY <1>1 DEF IInv, TokensOK, TokensInOrder, End
<1>4. EndsWithEof
  BY <1>1 DEF IInv, TokensOK, EndsWithEof
<1> QED BY <1>2, <1>3, <1>4 DEF StreamOK

\* Nothing has been made at the beginning.
LEMMA InitOK == Init => IInv
<1> SUFFICES ASSUME Init PROVE IInv
  OBVIOUS
<1>1. Len(src_) \in Nat
  BY SourcesAre DEF Init
<1>2. PositionOK
  BY <1>1 DEF Init, PositionOK
<1>3. tokens_ \in Seq(TokenRecord) /\ Len(tokens_) = 0 /\ phase = "token"
  BY DEF Init
<1>4. TokensOK /\ PhaseOK
  BY <1>3 DEF TokensOK, PhaseOK, Before, Loops
<1> QED BY <1>2, <1>4 DEF IInv

-----------------------------------------------------------------------------
(* Where the cursor may go                                                  *)

\* A character that is not the terminator is one of the source.
LEMMA CharInside ==
  ASSUME NEW p, Char(p) # NUL
  PROVE  p <= Len(src_)
BY DEF Char

\* What is found at the cursor is in the source.
LEMMA FoundInside ==
  ASSUME NEW text, StartsWith(text)
  PROVE  read_pos + Length(text) <= Len(src_) + 1
BY DEF StartsWith

\* The lengths of the words and signs.
LEMMA LengthsAre ==
  /\ \A i \in DOMAIN Keywords : Length(Keywords[i][1]) \in Nat
  /\ \A i \in DOMAIN Operators : Length(Operators[i][1]) \in Nat
  /\ Length("/*") = 2 /\ Length("*/") = 2 /\ Length("//") = 2
BY KeywordsAre, OperatorsAre, SignsAre DEF Length

\* A token ends at a number.
LEMMA EndsAre == ASSUME NEW t \in TokenRecord PROVE End(t) \in Int /\ t.c \in Nat /\ t.len \in Int
BY DEF TokenRecord, End

\* A new place of the cursor.
Goes == src_' = src_ /\ read_pos' \in read_pos..Len(src_) + 1 /\ line' \in Nat \ {0} /\ col' \in Nat \ {0}

\* The cursor stays in the text.
LEMMA PositionKept == ASSUME IInv, Goes PROVE PositionOK'
BY DEF IInv, PositionOK, Goes

-----------------------------------------------------------------------------
(* Kinds of steps                                                           *)

\* Between two tokens the cursor goes on, or the scan ends without one.
LEMMA PassesOK ==
  ASSUME IInv, phase # "ok", Goes, tokens_' = tokens_, phase' \in {"token", "error", "lost"}, phase' = "token" => phase = "token"
  PROVE  IInv'
<1>1. PositionOK'
  BY PositionKept
<1>2. TokensOK'
  <2>1. phase' # "ok" /\ src_' = src_
    BY DEF Goes
  <2> QED BY <2>1 DEF IInv, TokensOK
<1>3. phase' = "token" => Before(read_pos)'
  <2>1. \A k \in 1..Len(tokens_) : End(tokens_[k]) \in Int
    BY EndsAre DEF IInv, TokensOK
  <2>2. read_pos \in Int /\ read_pos' \in Int /\ read_pos <= read_pos'
    BY DEF IInv, PositionOK, Goes
  <2>3. phase' = "token" => Before(read_pos)
    BY DEF IInv, PhaseOK
  <2> QED BY <2>1, <2>2, <2>3 DEF Before, End
<1>4. PhaseOK'
  BY <1>3 DEF PhaseOK, Loops, Ended
<1> QED BY <1>1, <1>2, <1>4 DEF IInv

\* A token is begun, or goes on.
LEMMA LoopsOK ==
  ASSUME IInv, phase # "ok", Goes, tokens_' = tokens_, phase' \in Loops,
         Within(tok'), tok'.c <= read_pos', End(tok') <= read_pos', Before(tok'.c)
  PROVE  IInv'
<1>1. PositionOK'
  BY PositionKept
<1>2. phase' # "ok" /\ phase' # "token"
  BY DEF Loops
<1>3. TokensOK'
  BY <1>2 DEF IInv, TokensOK, Goes
<1>4. Within(tok)' /\ (tok.c <= read_pos)' /\ (End(tok) <= read_pos)' /\ Before(tok.c)'
  BY DEF Within, Before, Goes, End
<1>5. PhaseOK'
  BY <1>2, <1>4 DEF PhaseOK
<1> QED BY <1>1, <1>3, <1>5 DEF IInv

\* A token is added.
LEMMA AddsOK ==
  ASSUME IInv, phase # "ok", Goes, NEW t, t \in TokenRecord, t.c \in 1..Len(src_) + 1, Before(t.c),
         tokens_' = Append(tokens_, t),
         \/ phase' = "token" /\ Within(t) /\ t.c <= read_pos' /\ End(t) <= read_pos'
         \/ phase' = "ok" /\ t.type = "TokEof"
  PROVE  IInv'
<1>1. PositionOK'
  BY PositionKept
<1>2. /\ tokens_ \in Seq(TokenRecord) /\ Len(tokens_) \in Nat
      /\ \A k \in 1..Len(tokens_) : tokens_[k] \in TokenRecord /\ tokens_[k].type # "TokEof"
  BY DEF IInv, TokensOK
<1>3. /\ tokens_' \in Seq(TokenRecord) /\ Len(tokens_') = Len(tokens_) + 1
      /\ tokens_'[Len(tokens_) + 1] = t
      /\ \A k \in 1..Len(tokens_) : tokens_'[k] = tokens_[k]
  BY <1>2
<1>4. \A k \in 1..Len(tokens_) + 1 : k \in 1..Len(tokens_) \/ k = Len(tokens_) + 1
  BY <1>2
<1>5. ASSUME NEW k \in 2..Len(tokens_') PROVE End(tokens_'[k - 1]) <= tokens_'[k].c
  <2>1. CASE k \in 1..Len(tokens_)
    <3>1. k - 1 \in 1..Len(tokens_) /\ k \in 2..Len(tokens_)
      BY <1>2, <2>1
    <3> QED BY <1>3, <3>1 DEF IInv, TokensOK
  <2>2. CASE k = Len(tokens_) + 1
    <3>1. k - 1 \in 1..Len(tokens_)
      BY <1>2, <1>3, <2>2
    <3> QED BY <1>3, <2>2, <3>1 DEF Before
  <2> QED BY <1>3, <1>4, <2>1, <2>2
<1>6. ASSUME NEW k \in 1..Len(tokens_')
      PROVE  /\ tokens_'[k].c \in 1..Len(src_) + 1
             /\ tokens_'[k].type = "TokEof" <=> phase' = "ok" /\ k = Len(tokens_')
             /\ tokens_'[k].type # "TokEof" => End(tokens_'[k]) <= Len(src_) + 1
  <2>1. CASE k \in 1..Len(tokens_)
    <3>1. k # Len(tokens_')
      BY <1>2, <1>3, <2>1
    <3> QED BY <1>2, <1>3, <2>1, <3>1 DEF IInv, TokensOK
  <2>2. CASE k = Len(tokens_) + 1
    BY <1>3, <2>2 DEF Within
  <2> QED BY <1>3, <1>4, <2>1, <2>2
<1>7. Len(tokens_') > 0
  BY <1>2, <1>3
<1>8. TokensOK'
  BY <1>3, <1>5, <1>6, <1>7 DEF TokensOK, Goes, End
<1>9. ASSUME phase' = "token" PROVE Before(read_pos)'
  <2>1. t.c \in Nat /\ t.c <= read_pos' /\ End(t) <= read_pos'
    BY <1>9 DEF TokenRecord
  <2>2. read_pos' \in Int
    BY DEF Goes
  <2>3. \A k \in 1..Len(tokens_) : End(tokens_[k]) <= read_pos'
    <3>1. \A k \in 1..Len(tokens_) : End(tokens_[k]) \in Int /\ End(tokens_[k]) <= t.c
      BY <1>2, EndsAre DEF Before
    <3> QED BY <2>1, <2>2, <3>1
  <2> QED BY <1>3, <1>4, <2>1, <2>3 DEF Before, End
<1>10. PhaseOK'
  BY <1>9 DEF PhaseOK, Loops, Ended
<1> QED BY <1>1, <1>8, <1>10 DEF IInv

\* A text is refused where it is.
LEMMA FailsOK ==
  ASSUME IInv, phase # "ok", UNCHANGED src_, Fail
  PROVE  IInv'
<1>1. Goes /\ tokens_' = tokens_ /\ phase' = "error"
  BY DEF Fail, Goes, IInv, PositionOK
<1> QED BY <1>1, PassesOK

\* n characters are passed.
LEMMA MoveGoes ==
  ASSUME IInv, UNCHANGED src_, NEW n \in Nat, read_pos + n <= Len(src_) + 1, Move(n)
  PROVE  Goes /\ read_pos' = read_pos + n
BY DEF Move, Goes, IInv, PositionOK

\* One character, which is not the terminator, is passed; a line may end with it.
LEMMA NextGoes ==
  ASSUME IInv, UNCHANGED src_, Next1 # NUL
  PROVE  /\ Move(1) => Goes /\ read_pos' = read_pos + 1
         /\ NewLine(1) /\ col' \in {1, 2} => Goes /\ read_pos' = read_pos + 1
<1>1. read_pos + 1 <= Len(src_) + 1
  BY CharInside DEF Next1, IInv, PositionOK
<1> QED BY <1>1 DEF Move, NewLine, Goes, IInv, PositionOK

\* A token made in one step.
LEMMA FixedOK ==
  ASSUME IInv, phase = "token", UNCHANGED src_, NEW type \in Kinds, type # "TokEof", NEW n \in Nat,
         read_pos + n <= Len(src_) + 1, Deliver(Token(type, read_pos, n)), Move(n)
  PROVE  IInv'
<1> DEFINE t == Token(type, read_pos, n)
<1>1. Goes /\ read_pos' = read_pos + n
  BY MoveGoes
<1>2. read_pos \in 1..Len(src_) + 1 /\ line \in Nat /\ col \in Nat /\ Len(src_) \in Nat /\ Before(read_pos)
  BY DEF IInv, PositionOK, PhaseOK
<1>3. t \in TokenRecord /\ t.c = read_pos /\ t.type = type /\ End(t) = read_pos + n
  BY <1>2 DEF Token, TokenRecord, End
<1>4. tokens_' = Append(tokens_, t) /\ phase' = "token"
  BY DEF Deliver
<1> HIDE DEF t
<1>5. Within(t)
  BY <1>2, <1>3 DEF Within
<1>6. t.c <= read_pos' /\ End(t) <= read_pos' /\ t.c \in 1..Len(src_) + 1 /\ Before(t.c)
  BY <1>1, <1>2, <1>3
<1> QED BY <1>1, <1>3, <1>4, <1>5, <1>6, AddsOK

\* The token in work is done.
LEMMA DoneOK ==
  ASSUME IInv, phase \in Loops, Goes, Deliver(tok)
  PROVE  IInv'
<1>1. /\ Within(tok) /\ tok.c <= read_pos /\ End(tok) <= read_pos /\ Before(tok.c) /\ phase # "ok"
      /\ tok \in TokenRecord /\ tok.c \in 1..Len(src_) + 1
  BY DEF IInv, PhaseOK, Loops, Within
<1>2. tokens_' = Append(tokens_, tok) /\ phase' = "token"
  BY DEF Deliver
<1>3. read_pos \in Int /\ read_pos' \in Int /\ read_pos <= read_pos' /\ tok.c \in Int /\ End(tok) \in Int
  BY <1>1, EndsAre DEF IInv, PositionOK, Goes
<1>4. tok.c <= read_pos' /\ End(tok) <= read_pos'
  BY <1>1, <1>3
<1> QED BY <1>1, <1>2, <1>4, AddsOK

\* The token in work goes on as it is.
LEMMA StaysOK ==
  ASSUME IInv, phase \in Loops, Goes, Stay(tok)
  PROVE  IInv'
<1>1. /\ Within(tok) /\ tok.c <= read_pos /\ End(tok) <= read_pos /\ Before(tok.c) /\ phase # "ok"
  BY DEF IInv, PhaseOK, Loops
<1>2. tokens_' = tokens_ /\ phase' = phase /\ tok' = tok
  BY DEF Stay
<1>3. read_pos \in Int /\ read_pos' \in Int /\ read_pos <= read_pos' /\ tok.c \in Int /\ End(tok) \in Int
  BY <1>1, EndsAre DEF IInv, PositionOK, Goes, Within
<1>4. tok.c <= read_pos' /\ End(tok) <= read_pos'
  BY <1>1, <1>3
<1> QED BY <1>1, <1>2, <1>4, LoopsOK

\* The token in work becomes one character longer.
LEMMA GrowsOK ==
  ASSUME IInv, phase \in Loops, Goes, read_pos' = read_pos + 1, Stay([tok EXCEPT !.len = @ + 1])
  PROVE  IInv'
<1> DEFINE t == [tok EXCEPT !.len = @ + 1]
<1>1. /\ Within(tok) /\ tok.c <= read_pos /\ End(tok) <= read_pos /\ Before(tok.c) /\ phase # "ok"
      /\ tok \in TokenRecord
  BY DEF IInv, PhaseOK, Loops, Within
<1>2. tokens_' = tokens_ /\ phase' = phase /\ tok' = t
  BY DEF Stay
<1>3. t \in TokenRecord /\ t.c = tok.c /\ t.type = tok.type /\ t.len = tok.len + 1
  BY <1>1 DEF TokenRecord
<1>4. End(t) = End(tok) + 1
  BY <1>1, <1>3, EndsAre DEF End
<1> HIDE DEF t
<1>5. read_pos \in Int /\ Len(src_) \in Int /\ read_pos + 1 <= Len(src_) + 1 /\ tok.c \in Int /\ End(tok) \in Int
  BY <1>1, EndsAre DEF IInv, PositionOK, Goes
<1>6. Within(t) /\ t.c <= read_pos' /\ End(t) <= read_pos' /\ Before(t.c)
  BY <1>1, <1>3, <1>4, <1>5 DEF Within
<1>7. Within(tok') /\ tok'.c <= read_pos' /\ End(tok') <= read_pos' /\ Before(tok'.c)
  BY <1>2, <1>6
<1> QED BY <1>1, <1>2, <1>7, LoopsOK

\* A token is begun whose characters so far end at the cursor.
LEMMA EntersOK ==
  ASSUME IInv, phase = "token", Goes, NEW loop \in Loops, NEW t, Enter(loop, t),
         t \in TokenRecord, t.type # "TokEof", t.c \in read_pos..read_pos', End(t) <= read_pos'
  PROVE  IInv'
<1>1. tokens_' = tokens_ /\ phase' = loop /\ tok' = t
  BY DEF Enter
<1>2. read_pos \in 1..Len(src_) + 1 /\ Len(src_) \in Nat /\ read_pos' \in Int /\ read_pos' <= Len(src_) + 1 /\ Before(read_pos)
  BY DEF IInv, PositionOK, PhaseOK, Goes
<1>3. End(t) \in Int /\ \A k \in 1..Len(tokens_) : End(tokens_[k]) \in Int
  BY EndsAre DEF IInv, TokensOK
<1>4. Within(t) /\ t.c <= read_pos' /\ Before(t.c)
  BY <1>2, <1>3 DEF Within, Before
<1>5. Within(tok') /\ tok'.c <= read_pos' /\ End(tok') <= read_pos' /\ Before(tok'.c) /\ phase' \in Loops
  BY <1>1, <1>4
<1> QED BY <1>1, <1>5, LoopsOK

-----------------------------------------------------------------------------
(* The steps                                                                *)

\* Between two tokens.
LEMMA BlanksOK ==
  ASSUME IInv, UNCHANGED src_, Blank \/ BlankLine
  PROVE  IInv'
<1>1. Next1 # NUL /\ phase = "token" /\ phase' = "token" /\ tokens_' = tokens_
  BY DEF Blank, BlankLine, Blanks, NUL
<1>2. Goes
  BY <1>1, NextGoes DEF Blank, BlankLine
<1> QED BY <1>1, <1>2, PassesOK

\* The end of the source.
LEMMA EndOfFileOK ==
  ASSUME IInv, UNCHANGED src_, EndOfFile
  PROVE  IInv'
<1> DEFINE t == Token("TokEof", read_pos, 1)
<1>1. read_pos \in 1..Len(src_) + 1 /\ line \in Nat /\ col \in Nat /\ Len(src_) \in Nat /\ phase = "token" /\ Before(read_pos)
  BY DEF EndOfFile, IInv, PositionOK, PhaseOK
<1>2. t \in TokenRecord /\ t.c = read_pos /\ t.type = "TokEof"
  BY <1>1 DEF Token, TokenRecord, Kinds, Unfixed
<1>3. tokens_' = Append(tokens_, t) /\ phase' = "ok" /\ UNCHANGED <<read_pos, line, col>>
  BY DEF EndOfFile, position
<1>4. Goes
  BY <1>3 DEF Goes, IInv, PositionOK
<1> HIDE DEF t
<1> QED BY <1>1, <1>2, <1>3, <1>4, AddsOK

\* Words and signs of the tables.
LEMMA MakeFixedOK ==
  ASSUME IInv, UNCHANGED src_, MakeKeyword \/ MakeOperator
  PROVE  IInv'
<1>1. CASE MakeKeyword
  <2>1. PICK i \in DOMAIN Keywords : StartsWith(Keywords[i][1]) /\ MakeFixed(Keywords, i)
    BY <1>1 DEF MakeKeyword, Keyword, First
  <2>2. phase = "token" /\ Keywords[i][2] \in Kinds /\ Keywords[i][2] # "TokEof" /\ Length(Keywords[i][1]) \in Nat
    BY <1>1, KeywordsAre, LengthsAre DEF MakeKeyword, AtToken, Kinds, Unfixed
  <2>3. read_pos + Length(Keywords[i][1]) <= Len(src_) + 1
    BY <2>1, FoundInside
  <2> QED BY <2>1, <2>2, <2>3, FixedOK DEF MakeFixed
<1>2. CASE MakeOperator
  <2>1. PICK i \in DOMAIN Operators : StartsWith(Operators[i][1]) /\ MakeFixed(Operators, i)
    BY <1>2 DEF MakeOperator, Operator, OperatorHits, First
  <2>2. phase = "token" /\ Operators[i][2] \in Kinds /\ Operators[i][2] # "TokEof" /\ Length(Operators[i][1]) \in Nat
    BY <1>2, OperatorsAre, LengthsAre DEF MakeOperator, NoRemark, Unmatched, AtToken, Kinds, Unfixed
  <2>3. read_pos + Length(Operators[i][1]) <= Len(src_) + 1
    BY <2>1, FoundInside
  <2> QED BY <2>1, <2>2, <2>3, FixedOK DEF MakeFixed
<1> QED BY <1>1, <1>2

\* A token begun at the cursor or behind a quote, n characters of it and its sign read.
LEMMA BegunOK ==
  ASSUME IInv, phase = "token", Goes, NEW loop \in Loops, NEW type \in Kinds, type # "TokEof",
         NEW c \in read_pos..read_pos', NEW n \in Int, c + n <= read_pos', Enter(loop, Token(type, c, n))
  PROVE  IInv'
<1> DEFINE t == Token(type, c, n)
<1>1. read_pos \in 1..Len(src_) + 1 /\ Len(src_) \in Nat /\ line \in Nat /\ col \in Nat /\ read_pos' \in Int
  BY DEF IInv, PositionOK, Goes
<1>2. t \in TokenRecord /\ t.c = c /\ t.type = type /\ End(t) = c + n
  BY <1>1 DEF Token, TokenRecord, End
<1>3. Enter(loop, t)
  OBVIOUS
<1> HIDE DEF t
<1>4. t.type # "TokEof" /\ t.c \in read_pos..read_pos' /\ End(t) <= read_pos'
  BY <1>2
<1> QED BY <1>2, <1>3, <1>4, EntersOK

\* Remarks are begun.
LEMMA RemarkOK ==
  ASSUME IInv, UNCHANGED src_, StarRemark \/ LineRemark
  PROVE  IInv'
<1>1. phase = "token" /\ Move(2) /\ read_pos \in Nat
  BY DEF StarRemark, LineRemark, Unmatched, AtToken, IInv, PositionOK
<1>2. read_pos + 2 <= Len(src_) + 1
  BY FoundInside, LengthsAre DEF StarRemark, LineRemark
<1>3. Goes /\ read_pos' = read_pos + 2
  BY <1>1, <1>2, MoveGoes
<1>4. /\ "TokStarRemark" \in Kinds /\ "TokLineRemark" \in Kinds /\ "star" \in Loops /\ "line" \in Loops
      /\ read_pos \in read_pos..read_pos' /\ read_pos + Garbage <= read_pos' /\ read_pos + 2 <= read_pos'
      /\ Garbage \in Int
  BY <1>1, <1>3 DEF Kinds, Unfixed, Loops, Garbage
<1>5. CASE StarRemark
  <2>1. Enter("star", Token("TokStarRemark", read_pos, Garbage))
    BY <1>5 DEF StarRemark
  <2> QED BY <1>1, <1>3, <1>4, <2>1, BegunOK
<1>6. CASE LineRemark
  <2>1. Enter("line", Token("TokLineRemark", read_pos, 2))
    BY <1>6 DEF LineRemark
  <2> QED BY <1>1, <1>3, <1>4, <2>1, BegunOK
<1> QED BY <1>5, <1>6

\* Remarks go on.
LEMMA RemarkOnOK ==
  ASSUME IInv, UNCHANGED src_, StarRemarkLine \/ StarRemarkOn \/ LineRemarkOn
  PROVE  IInv'
<1>1. phase \in Loops /\ phase # "ok"
  BY DEF StarRemarkLine, StarRemarkOn, LineRemarkOn, Loops
<1>2. CASE StarRemarkLine
  <2>1. CASE Char(read_pos + 1) = NUL
    BY <1>1, <1>2, <2>1, FailsOK DEF StarRemarkLine
  <2>2. CASE Char(read_pos + 1) # NUL
    <3>1. NewLine(2) /\ col' = 2 /\ Stay(tok)
      BY <1>2, <2>2 DEF StarRemarkLine
    <3>2. read_pos + 1 <= Len(src_)
      BY <2>2, CharInside
    <3>3. Goes
      BY <3>1, <3>2 DEF NewLine, Goes, IInv, PositionOK
    <3> QED BY <1>1, <3>1, <3>3, StaysOK
  <2> QED BY <2>1, <2>2
<1>3. CASE StarRemarkOn
  <2>1. Next1 # NUL /\ Move(1) /\ Stay(tok)
    BY <1>3 DEF StarRemarkOn
  <2>2. Goes
    BY <2>1, NextGoes
  <2> QED BY <1>1, <2>1, <2>2, StaysOK
<1>4. CASE LineRemarkOn
  <2>1. Next1 # NUL /\ Move(1) /\ Stay([tok EXCEPT !.len = @ + 1])
    BY <1>4 DEF LineRemarkOn
  <2>2. Goes /\ read_pos' = read_pos + 1
    BY <2>1, NextGoes
  <2> QED BY <1>1, <2>1, <2>2, GrowsOK
<1> QED BY <1>2, <1>3, <1>4

\* Remarks end.
LEMMA RemarkEndOK ==
  ASSUME IInv, UNCHANGED src_, StarRemarkEnd \/ LineRemarkEnd
  PROVE  IInv'
<1>1. phase \in Loops /\ Deliver(tok)
  BY DEF StarRemarkEnd, LineRemarkEnd, Loops
<1>2. CASE StarRemarkEnd
  <2>1. Move(2) /\ read_pos + 2 <= Len(src_) + 1
    BY <1>2, FoundInside, LengthsAre DEF StarRemarkEnd
  <2>2. Goes
    BY <2>1, MoveGoes
  <2> QED BY <1>1, <2>2, DoneOK
<1>3. CASE LineRemarkEnd
  <2>1. NewLine(1) /\ col' \in {1, 2} /\ Next1 # NUL
    BY <1>3 DEF LineRemarkEnd, NUL
  <2>2. Goes
    BY <2>1, NextGoes
  <2> QED BY <1>1, <2>2, DoneOK
<1> QED BY <1>2, <1>3

\* The source ends within a remark or a literal, or a literal is not one.
LEMMA RefusedOK ==
  ASSUME IInv, UNCHANGED src_,
         StarRemarkEof \/ LineRemarkEof \/ StringLiteralEof \/ CharactorLiteralWrong \/ CharactorLiteralEof
  PROVE  IInv'
<1>1. CASE CharactorLiteralEof
  <2>1. phase = "token" /\ phase' = "lost" /\ UNCHANGED <<read_pos, line, col>> /\ tokens_' = tokens_
    BY <1>1 DEF CharactorLiteralEof, Other, NoRemark, Unmatched, AtToken, position
  <2>2. Goes
    BY <2>1 DEF Goes, IInv, PositionOK
  <2> QED BY <2>1, <2>2, PassesOK
<1>2. CASE ~CharactorLiteralEof
  <2>1. Fail /\ phase # "ok"
    BY <1>2 DEF StarRemarkEof, LineRemarkEof, StringLiteralEof, CharactorLiteralWrong, Other, NoRemark, Unmatched, AtToken
  <2> QED BY <2>1, FailsOK
<1> QED BY <1>1, <1>2

\* Strings: begun behind the quote, and done before the other.
LEMMA StringOK ==
  ASSUME IInv, UNCHANGED src_, StringLiteral \/ StringLiteralEnd \/ StringLiteralOn
  PROVE  IInv'
<1>1. read_pos \in 1..Len(src_) + 1 /\ Len(src_) \in Nat /\ line \in Nat \ {0} /\ col \in Nat \ {0}
  BY DEF IInv, PositionOK
<1>2. CASE StringLiteral
  <2>1. /\ phase = "token" /\ Next1 # NUL /\ read_pos' = read_pos + 1 /\ line' = line /\ col' = col
        /\ Enter("string", Token("TokStringLiteral", read_pos + 1, 0))
    BY <1>2 DEF StringLiteral, Other, NoRemark, Unmatched, AtToken
  <2>2. Goes
    BY <1>1, <2>1, CharInside DEF Goes, Next1
  <2>3. /\ "TokStringLiteral" \in Kinds /\ "string" \in Loops
        /\ read_pos + 1 \in read_pos..read_pos' /\ read_pos + 1 + 0 <= read_pos'
    BY <1>1, <2>1 DEF Kinds, Unfixed, Loops
  <2> QED BY <2>1, <2>2, <2>3, BegunOK
<1>3. CASE StringLiteralEnd
  <2>1. phase \in Loops /\ Deliver(tok) /\ Next1 # NUL /\ read_pos' = read_pos + 1 /\ line' = line /\ col' = col
    BY <1>3 DEF StringLiteralEnd, Loops, NUL, QUOTE
  <2>2. Goes
    BY <1>1, <2>1, CharInside DEF Goes, Next1
  <2> QED BY <2>1, <2>2, DoneOK
<1>4. CASE StringLiteralOn
  <2> DEFINE t == [tok EXCEPT !.len = @ + 1]
  <2> HIDE DEF t
  <2>1. phase \in Loops /\ Next1 # NUL /\ Stay(t) /\ (Move(1) \/ (NewLine(1) /\ col' = 2))
    BY <1>4 DEF StringLiteralOn, Loops, t
  <2> USE DEF t
  <2>2. CASE Move(1)
    <3>1. Goes /\ read_pos' = read_pos + 1
      BY <2>1, <2>2, NextGoes
    <3> QED BY <2>1, <3>1, GrowsOK
  <2>3. CASE NewLine(1) /\ col' = 2
    <3>1. Goes /\ read_pos' = read_pos + 1
      BY <2>1, <2>3, NextGoes
    <3> QED BY <2>1, <3>1, GrowsOK
  <2> QED BY <2>1, <2>2, <2>3
<1> QED BY <1>2, <1>3, <1>4

\* Words are begun, where a character literal may have been passed.
LEMMA WordOK ==
  ASSUME IInv, UNCHANGED src_, CharactorLiteral \/ NumberOrIdentifier
  PROVE  IInv'
<1>1. /\ phase = "token" /\ read_pos \in 1..Len(src_) + 1 /\ Len(src_) \in Nat
      /\ line \in Nat \ {0} /\ col \in Nat \ {0}
  BY DEF CharactorLiteral, NumberOrIdentifier, Other, NoRemark, Unmatched, AtToken, IInv, PositionOK
<1>2. ASSUME NEW p \in read_pos..Len(src_) + 1, NEW columns \in Nat, Word(p, columns)
      PROVE  IInv'
  <2> DEFINE type == IF Char(p) \in isNumber THEN "TokIntegerLiteral" ELSE "TokIdentifier"
             t == [Token(type, p, 0) EXCEPT !.col = col + columns]
  <2>1. Enter("word", t) /\ read_pos' = p /\ col' = col + columns /\ line' = line
    BY <1>2 DEF Word
  <2>2. type \in Kinds /\ type # "TokEof" /\ "word" \in Loops
    BY DEF Kinds, Unfixed, Loops
  <2> HIDE DEF type
  <2>3. t \in TokenRecord /\ t.c = p /\ t.type = type /\ End(t) = p
    BY <1>1, <2>2 DEF Token, TokenRecord, End
  <2>4. Goes
    BY <1>1, <2>1 DEF Goes
  <2> HIDE DEF t
  <2>5. t.type # "TokEof" /\ t.c \in read_pos..read_pos' /\ End(t) <= read_pos'
    BY <1>1, <2>1, <2>2, <2>3
  <2> QED BY <1>1, <2>1, <2>2, <2>3, <2>4, <2>5, EntersOK
<1>3. CASE CharactorLiteral
  <2>1. Char(read_pos + 2) # NUL /\ Word(read_pos + 3, 2)
    BY <1>3 DEF CharactorLiteral, NUL
  <2>2. read_pos + 2 <= Len(src_)
    BY <2>1, CharInside
  <2>3. read_pos + 3 \in read_pos..Len(src_) + 1
    BY <1>1, <2>2
  <2> QED BY <1>2, <2>1, <2>3
<1>4. CASE NumberOrIdentifier
  <2>1. Word(read_pos, 0)
    BY <1>4 DEF NumberOrIdentifier
  <2>2. read_pos \in read_pos..Len(src_) + 1 /\ 0 \in Nat
    BY <1>1
  <2> QED BY <1>2, <2>1, <2>2
<1> QED BY <1>3, <1>4

\* Words go on and end.
LEMMA WordOnOK ==
  ASSUME IInv, UNCHANGED src_, WordOn \/ WordEnd
  PROVE  IInv'
<1>1. CASE WordOn
  <2>1. phase \in Loops /\ Next1 # NUL /\ Move(1) /\ Stay([tok EXCEPT !.len = @ + 1])
    BY <1>1 DEF WordOn, Loops, isWord, UpAlpha, LowAlpha, isNumber, NUL
  <2>2. Goes /\ read_pos' = read_pos + 1
    BY <2>1, NextGoes
  <2> QED BY <2>1, <2>2, GrowsOK
<1>2. CASE WordEnd
  <2>1. phase \in Loops /\ Deliver(tok) /\ UNCHANGED <<read_pos, line, col>>
    BY <1>2 DEF WordEnd, Loops, position
  <2>2. Goes
    BY <2>1 DEF Goes, IInv, PositionOK
  <2> QED BY <2>1, <2>2, DoneOK
<1> QED BY <1>1, <1>2

-----------------------------------------------------------------------------
(* Words                                                                    *)

\* No word character is at q.
EndsAt(s, q) == q > Len(s) \/ s[q] \notin isWord

\* No keyword stands at p but as the front of a longer word.
NoKeywordAt(s, p) ==
  \A i \in DOMAIN Keywords : Spelt(s, Keywords[i][1], p) => ~EndsAt(s, p + Len(Keywords[i][1]))

-----------------------------------------------------------------------------
(* Characters of plain texts                                                *)

\* The classes of characters have none in common.
LEMMA ClassesApart ==
  /\ \A c \in LowAlpha : c \in isWord
  /\ \A c \in isWord : c \notin Signs /\ c \notin Blanks /\ c \notin {NUL, "\n", QUOTE, "'"}
  /\ \A c \in Signs : c \notin Blanks /\ c \notin {NUL, "\n", QUOTE, "'"}
  /\ \A c \in Blanks : c \notin {NUL, "\n", QUOTE, "'"}
  /\ "/" \in Signs /\ "*" \in Signs
  /\ "\n" # NUL /\ "\n" # "'" /\ QUOTE # NUL /\ QUOTE # "'" /\ QUOTE # "\n"
<1>1. \A c \in LowAlpha : c \in isWord
  BY DEF isWord
<1>2. \A c \in isWord : c \notin Signs /\ c \notin Blanks /\ c \notin {NUL, "\n", QUOTE, "'"}
  <2>1. \A c \in UpAlpha : c \notin Signs /\ c \notin Blanks /\ c \notin {NUL, "\n", QUOTE, "'"}
    BY DEF UpAlpha, Signs, Blanks, NUL, QUOTE
  <2>2. \A c \in LowAlpha : c \notin Signs /\ c \notin Blanks /\ c \notin {NUL, "\n", QUOTE, "'"}
    BY DEF LowAlpha, Signs, Blanks, NUL, QUOTE
  <2>3. \A c \in isNumber : c \notin Signs /\ c \notin Blanks /\ c \notin {NUL, "\n", QUOTE, "'"}
    BY DEF isNumber, Signs, Blanks, NUL, QUOTE
  <2> QED BY <2>1, <2>2, <2>3 DEF isWord
<1>3. \A c \in Signs : c \notin Blanks /\ c \notin {NUL, "\n", QUOTE, "'"}
  BY DEF Signs, Blanks, NUL, QUOTE
<1>4. \A c \in Blanks : c \notin {NUL, "\n", QUOTE, "'"}
  BY DEF Blanks, NUL, QUOTE
<1>5. "/" \in Signs /\ "*" \in Signs
  BY DEF Signs
<1>6. "\n" # NUL /\ "\n" # "'" /\ QUOTE # NUL /\ QUOTE # "'" /\ QUOTE # "\n"
  BY DEF NUL, QUOTE
<1> QED BY <1>1, <1>2, <1>3, <1>4, <1>5, <1>6

\* The signs of two characters, and of one.
LEMMA SpeltSigns ==
  ASSUME NEW s, Len(s) \in Nat, NEW p \in Int
  PROVE  /\ Spelt(s, "/*", p) <=> p + 1 <= Len(s) /\ s[p] = "/" /\ s[p + 1] = "*"
         /\ Spelt(s, "*/", p) <=> p + 1 <= Len(s) /\ s[p] = "*" /\ s[p + 1] = "/"
         /\ Spelt(s, "//", p) <=> p + 1 <= Len(s) /\ s[p] = "/" /\ s[p + 1] = "/"
         /\ Spelt(s, QUOTE, p) <=> p <= Len(s) /\ s[p] = QUOTE
         /\ Spelt(s, "\n", p) <=> p <= Len(s) /\ s[p] = "\n"
<1>1. \A a, b : \A w : Len(w) = 2 /\ Chars(w) = <<a, b>>
        => (Spelt(s, w, p) <=> p + 1 <= Len(s) /\ s[p] = a /\ s[p + 1] = b)
  BY DEF Spelt
<1>2. \A a : \A w : Len(w) = 1 /\ Chars(w) = <<a>> => (Spelt(s, w, p) <=> p <= Len(s) /\ s[p] = a)
  BY DEF Spelt
<1> QED BY <1>1, <1>2, SignsAre

\* A plain text has characters of the classes only.
LEMMA PlainIs ==
  ASSUME NEW s, Plain(s), NEW p \in 1..Len(s)
  PROVE  /\ s[p] \in isWord \cup Blanks \cup Signs \cup {"\n", QUOTE}
         /\ s[p] # NUL /\ s[p] # "'"
<1>1. s[p] \in isWord \cup Blanks \cup Signs \cup {"\n", QUOTE}
  BY DEF Plain
<1> QED BY <1>1, ClassesApart

-----------------------------------------------------------------------------
(* What a text spells                                                       *)

\* The members of the sets of lexemes.
LEMMA FixedMembers ==
  ASSUME NEW s, NEW table, NEW p, NEW l
  PROVE  l \in FixedAt(s, table, p)
           <=> \E i \in DOMAIN table : Spelt(s, table[i][1], p) /\ l = Lexeme(table[i][2], Len(table[i][1]))
BY Zenon DEF FixedAt

\* The words of a place.
LEMMA WordMembers ==
  ASSUME NEW s, NEW p, NEW l
  PROVE  l \in WordsAt(s, p) <=>
           \E n \in 1..Len(s) + 1 - p :
             /\ l = Lexeme(WordType(s[p]), n)
             /\ \A q \in p..p + n - 1 : s[q] \in isWord
             /\ \A m \in FixedAt(s, Keywords, p) : m.n # n
BY Zenon DEF WordsAt

\* A remark or a string is what its signs enclose.
LEMMA ClosedMembers ==
  ASSUME NEW s, NEW type, NEW first, NEW last, NEW p, NEW l \in ClosedAt(s, type, first, last, p),
         NEW a, Len(first) = a, NEW b, Len(last) = b
  PROVE  /\ l.n \in a + b..Len(s) + 1 - p
         /\ Spelt(s, first, p) /\ Spelt(s, last, p + l.n - b)
         /\ \A q \in p + a..p + l.n - b - 1 : ~Spelt(s, last, q)
<1>1. PICK n \in a + b..Len(s) + 1 - p :
        /\ l = Lexeme(type, n)
        /\ Spelt(s, first, p) /\ Spelt(s, last, p + n - b)
        /\ \A q \in p + a..p + n - b - 1 : ~Spelt(s, last, q)
  BY Zenon DEF ClosedAt
<1>2. l.n = n
  BY <1>1 DEF Lexeme
<1> QED BY <1>1, <1>2, Zenon

\* What signs enclose is one.
LEMMA ClosedIs ==
  ASSUME NEW s, NEW type, NEW first, NEW last, NEW p, NEW a, Len(first) = a, NEW b, Len(last) = b,
         NEW n \in a + b..Len(s) + 1 - p, Spelt(s, first, p), Spelt(s, last, p + n - b),
         \A q \in p + a..p + n - b - 1 : ~Spelt(s, last, q)
  PROVE  Lexeme(type, n) \in ClosedAt(s, type, first, last, p)
BY Zenon DEF ClosedAt

\* A lexeme has its type and length.
LEMMA LexemeIs == \A type, n : Lexeme(type, n).type = type /\ Lexeme(type, n).n = n
BY DEF Lexeme

\* What stands at a place and begins no remark.
LEMMA LexemeCases ==
  ASSUME NEW s, Len(s) \in Nat, NEW p \in 1..Len(s), ~Spelt(s, "/*", p), ~Spelt(s, "//", p), NEW l \in LexemesAt(s, p)
  PROVE  \/ \E i \in DOMAIN Keywords : Spelt(s, Keywords[i][1], p) /\ l.n = Len(Keywords[i][1])
         \/ \E i \in DOMAIN Operators : Spelt(s, Operators[i][1], p) /\ l.n = Len(Operators[i][1])
         \/ l.n \in 1..Len(s) + 1 - p /\ \A q \in p..p + l.n - 1 : s[q] \in isWord
         \/ /\ l.n \in 2..Len(s) + 1 - p /\ s[p] = QUOTE /\ s[p + l.n - 1] = QUOTE
            /\ \A q \in p + 1..p + l.n - 2 : s[q] # QUOTE
<1>1. l \in FixedAt(s, Keywords, p) \/ l \in FixedAt(s, Operators, p) \/ l \in WordsAt(s, p)
        \/ l \in ClosedAt(s, "TokStringLiteral", QUOTE, QUOTE, p)
  BY DEF LexemesAt
<1>2. CASE l \in FixedAt(s, Keywords, p)
  <2>1. PICK i \in DOMAIN Keywords : Spelt(s, Keywords[i][1], p) /\ l = Lexeme(Keywords[i][2], Len(Keywords[i][1]))
    BY <1>2, Zenon DEF FixedAt
  <2>2. l.n = Len(Keywords[i][1])
    BY <2>1, LexemeIs
  <2> QED BY <2>1, <2>2, Zenon
<1>3. CASE l \in FixedAt(s, Operators, p)
  <2>1. PICK i \in DOMAIN Operators : Spelt(s, Operators[i][1], p) /\ l = Lexeme(Operators[i][2], Len(Operators[i][1]))
    BY <1>3, Zenon DEF FixedAt
  <2>2. l.n = Len(Operators[i][1])
    BY <2>1, LexemeIs
  <2> QED BY <2>1, <2>2, Zenon
<1>4. CASE l \in WordsAt(s, p)
  <2>1. PICK n \in 1..Len(s) + 1 - p :
          /\ l = Lexeme(WordType(s[p]), n)
          /\ \A q \in p..p + n - 1 : s[q] \in isWord
    BY <1>4, WordMembers
  <2>2. l.n = n
    BY <2>1, LexemeIs
  <2> QED BY <2>1, <2>2
<1>5. CASE l \in ClosedAt(s, "TokStringLiteral", QUOTE, QUOTE, p)
  <2>1. Len(QUOTE) = 1
    BY SignsAre, Zenon
  <2>2. /\ l.n \in 1 + 1..Len(s) + 1 - p
        /\ Spelt(s, QUOTE, p) /\ Spelt(s, QUOTE, p + l.n - 1)
        /\ \A q \in p + 1..p + l.n - 1 - 1 : ~Spelt(s, QUOTE, q)
    BY <1>5, <2>1, ClosedMembers, Zenon
  <2>3. ASSUME NEW q \in p + 1..p + l.n - 2 PROVE s[q] # QUOTE
    <3>1. q \in Int /\ q <= Len(s)
      BY <2>2
    <3>2. ~Spelt(s, QUOTE, q)
      BY <2>2
    <3> QED BY <3>1, <3>2, SpeltSigns
  <2>4. s[p] = QUOTE /\ s[p + l.n - 1] = QUOTE
    BY <2>2, SpeltSigns
  <2> QED BY <2>2, <2>3, <2>4
<1> QED BY <1>1, <1>2, <1>3, <1>4, <1>5

\* What stands at a place and begins a remark.
LEMMA RemarkCases ==
  ASSUME NEW s, Len(s) \in Nat, NEW p \in 1..Len(s), Spelt(s, "/*", p) \/ Spelt(s, "//", p), NEW l \in LexemesAt(s, p)
  PROVE  \/ /\ Spelt(s, "/*", p) /\ l.n \in 4..Len(s) + 1 - p /\ Spelt(s, "*/", p + l.n - 2)
            /\ \A q \in p + 2..p + l.n - 3 : ~Spelt(s, "*/", q)
         \/ /\ Spelt(s, "//", p) /\ l.n \in 3..Len(s) + 1 - p /\ s[p + l.n - 1] = "\n"
            /\ \A q \in p + 2..p + l.n - 2 : s[q] # "\n"
<1>1. l \in ClosedAt(s, "TokStarRemark", "/*", "*/", p) \/ l \in ClosedAt(s, "TokLineRemark", "//", "\n", p)
  BY DEF LexemesAt
<1>2. CASE l \in ClosedAt(s, "TokStarRemark", "/*", "*/", p)
  <2>1. Len("/*") = 2 /\ Len("*/") = 2
    BY SignsAre, Zenon
  <2> DEFINE first == "/*"
             last == "*/"
  <2> HIDE DEF first, last
  <2>2. l \in ClosedAt(s, "TokStarRemark", first, last, p) /\ Len(first) = 2 /\ Len(last) = 2
    BY <1>2, <2>1 DEF first, last
  <2>3. /\ l.n \in 2 + 2..Len(s) + 1 - p
        /\ Spelt(s, first, p) /\ Spelt(s, last, p + l.n - 2)
        /\ \A q \in p + 2..p + l.n - 2 - 1 : ~Spelt(s, last, q)
    BY <2>2, ClosedMembers, Zenon
  <2> QED BY <2>3 DEF first, last
<1>3. CASE l \in ClosedAt(s, "TokLineRemark", "//", "\n", p)
  <2>1. Len("//") = 2 /\ Len("\n") = 1
    BY SignsAre, Zenon
  <2>2. /\ l.n \in 2 + 1..Len(s) + 1 - p
        /\ Spelt(s, "//", p) /\ Spelt(s, "\n", p + l.n - 1)
        /\ \A q \in p + 2..p + l.n - 1 - 1 : ~Spelt(s, "\n", q)
    BY <1>3, <2>1, ClosedMembers, Zenon
  <2>3. s[p + l.n - 1] = "\n" /\ \A q \in p + 2..p + l.n - 2 : s[q] # "\n"
    BY <2>2, SpeltSigns
  <2> QED BY <2>2, <2>3
<1> QED BY <1>1, <1>2, <1>3

\* Keywords are words.
LEMMA KeywordSpelt ==
  ASSUME NEW s, Len(s) \in Nat, NEW p \in 1..Len(s), NEW i \in DOMAIN Keywords, Spelt(s, Keywords[i][1], p)
  PROVE  /\ p + Len(Keywords[i][1]) <= Len(s) + 1
         /\ \A q \in p..p + Len(Keywords[i][1]) - 1 : s[q] \in isWord
<1> DEFINE n == Len(Keywords[i][1])
<1>1. n \in Nat /\ \A k \in 1..n : Chars(Keywords[i][1])[k] \in isWord
  BY KeywordsAre, ClassesApart
<1>2. p + n <= Len(s) + 1 /\ \A k \in 1..n : s[p + k - 1] = Chars(Keywords[i][1])[k]
  BY DEF Spelt
<1> HIDE DEF n
<1>3. ASSUME NEW q \in p..p + n - 1 PROVE s[q] \in isWord
  <2>1. q - p + 1 \in 1..n /\ p + (q - p + 1) - 1 = q
    BY <1>1
  <2> QED BY <1>1, <1>2, <2>1
<1> QED BY <1>2, <1>3 DEF n

\* Operators are signs.
LEMMA OperatorSpelt ==
  ASSUME NEW s, Len(s) \in Nat, NEW p \in 1..Len(s), NEW i \in DOMAIN Operators, Spelt(s, Operators[i][1], p)
  PROVE  /\ p + Len(Operators[i][1]) <= Len(s) + 1
         /\ \A q \in p..p + Len(Operators[i][1]) - 1 : s[q] \in Signs
<1> DEFINE n == Len(Operators[i][1])
<1>1. n \in Nat /\ \A k \in 1..n : Chars(Operators[i][1])[k] \in Signs
  BY OperatorsAre
<1>2. p + n <= Len(s) + 1 /\ \A k \in 1..n : s[p + k - 1] = Chars(Operators[i][1])[k]
  BY DEF Spelt
<1> HIDE DEF n
<1>3. ASSUME NEW q \in p..p + n - 1 PROVE s[q] \in Signs
  <2>1. q - p + 1 \in 1..n /\ p + (q - p + 1) - 1 = q
    BY <1>1
  <2> QED BY <1>1, <1>2, <2>1
<1> QED BY <1>2, <1>3 DEF n

\* A longest one.
LEMMA LongestIs ==
  ASSUME NEW s, NEW p, NEW l \in LexemesAt(s, p), \A m \in LexemesAt(s, p) : m.n <= l.n
  PROVE  l \in LongestAt(s, p)
BY Zenon DEF LongestAt

\* No run of word characters goes on where one has ended.
LEMMA WordBound ==
  ASSUME NEW s, Plain(s), Len(s) \in Nat, NEW p \in 1..Len(s), NEW n \in Nat, EndsAt(s, p + n),
         NEW m \in Nat, p + m <= Len(s) + 1, \A q \in p..p + m - 1 : s[q] \in isWord
  PROVE  m <= n
<1> SUFFICES ASSUME m > n PROVE FALSE
  OBVIOUS
<1>1. p + n \in p..p + m - 1 /\ p + n <= Len(s) /\ p + n \in Nat \ {0}
  OBVIOUS
<1> QED BY <1>1 DEF EndsAt

\* No lexeme at a word's beginning is longer than what is there of word characters.
LEMMA LexemesOfWord ==
  ASSUME NEW s, Plain(s), Len(s) \in Nat, NEW p \in 1..Len(s), s[p] \in isWord,
         NEW n \in Nat, EndsAt(s, p + n)
  PROVE  /\ ~Spelt(s, "/*", p) /\ ~Spelt(s, "//", p)
         /\ \A l \in LexemesAt(s, p) : l.n <= n
<1>1. ~Spelt(s, "/*", p) /\ ~Spelt(s, "//", p)
  BY SpeltSigns, ClassesApart
<1>2. ASSUME NEW l \in LexemesAt(s, p) PROVE l.n <= n
  <2>1. CASE \E i \in DOMAIN Keywords : Spelt(s, Keywords[i][1], p) /\ l.n = Len(Keywords[i][1])
    <3>1. PICK i \in DOMAIN Keywords : Spelt(s, Keywords[i][1], p) /\ l.n = Len(Keywords[i][1])
      BY <2>1
    <3>2. l.n \in Nat
      BY <3>1, KeywordsAre
    <3>3. p + l.n <= Len(s) + 1 /\ \A q \in p..p + l.n - 1 : s[q] \in isWord
      BY <3>1, KeywordSpelt
    <3> QED BY <3>2, <3>3, WordBound
  <2>2. CASE \E i \in DOMAIN Operators : Spelt(s, Operators[i][1], p) /\ l.n = Len(Operators[i][1])
    <3>1. PICK i \in DOMAIN Operators : Spelt(s, Operators[i][1], p)
      BY <2>2
    <3>2. p \in p..p + Len(Operators[i][1]) - 1
      BY OperatorsAre
    <3>3. s[p] \in Signs
      BY <3>1, <3>2, OperatorSpelt
    <3> QED BY <3>3, ClassesApart
  <2>3. CASE l.n \in 1..Len(s) + 1 - p /\ \A q \in p..p + l.n - 1 : s[q] \in isWord
    <3>1. l.n \in Nat /\ p + l.n <= Len(s) + 1
      BY <2>3
    <3> QED BY <2>3, <3>1, WordBound
  <2>4. CASE s[p] = QUOTE
    BY <2>4, ClassesApart
  <2> QED BY <1>1, <2>1, <2>2, <2>3, <2>4, LexemeCases
<1> QED BY <1>1, <1>2

\* A keyword that no word character follows is a longest lexeme.
LEMMA KeywordLongest ==
  ASSUME NEW s, Plain(s), Len(s) \in Nat, NEW p \in 1..Len(s), NEW i \in DOMAIN Keywords,
         Spelt(s, Keywords[i][1], p), EndsAt(s, p + Len(Keywords[i][1]))
  PROVE  Lexeme(Keywords[i][2], Len(Keywords[i][1])) \in LongestAt(s, p)
<1> DEFINE n == Len(Keywords[i][1])
           l == Lexeme(Keywords[i][2], n)
<1>1. n \in Nat /\ n >= 1
  BY KeywordsAre
<1>2. s[p] \in isWord
  <2>1. p \in p..p + n - 1
    BY <1>1
  <2> QED BY <2>1, KeywordSpelt
<1>3. l \in FixedAt(s, Keywords, p)
  BY FixedMembers, Zenon
<1>4. l.n = n
  BY LexemeIs
<1> HIDE DEF l, n
<1>5. ~Spelt(s, "/*", p) /\ ~Spelt(s, "//", p) /\ \A m \in LexemesAt(s, p) : m.n <= n
  BY <1>1, <1>2, LexemesOfWord DEF n
<1>6. l \in LexemesAt(s, p)
  BY <1>3, <1>5 DEF LexemesAt
<1>7. l \in LongestAt(s, p)
  BY <1>4, <1>5, <1>6, LongestIs, Zenon
<1> QED BY <1>7 DEF l, n

\* A word that is no keyword, up to where its characters end, is a longest lexeme.
LEMMA WordLongest ==
  ASSUME NEW s, Plain(s), Len(s) \in Nat, NEW p \in 1..Len(s), NEW n \in 1..Len(s) + 1 - p,
         \A q \in p..p + n - 1 : s[q] \in isWord, EndsAt(s, p + n), NoKeywordAt(s, p)
  PROVE  Lexeme(WordType(s[p]), n) \in LongestAt(s, p)
<1> DEFINE l == Lexeme(WordType(s[p]), n)
<1>1. s[p] \in isWord /\ n \in Nat
  <2>1. p \in p..p + n - 1
    OBVIOUS
  <2> QED BY <2>1
<1>2. ~Spelt(s, "/*", p) /\ ~Spelt(s, "//", p) /\ \A m \in LexemesAt(s, p) : m.n <= n
  BY <1>1, LexemesOfWord
<1>3. \A m \in FixedAt(s, Keywords, p) : m.n # n
  <2>1. ASSUME NEW m \in FixedAt(s, Keywords, p), m.n = n PROVE FALSE
    <3>1. PICK i \in DOMAIN Keywords : Spelt(s, Keywords[i][1], p) /\ m = Lexeme(Keywords[i][2], Len(Keywords[i][1]))
      BY Zenon DEF FixedAt
    <3>2. Len(Keywords[i][1]) = n
      BY <2>1, <3>1, LexemeIs
    <3> QED BY <3>1, <3>2 DEF NoKeywordAt
  <2> QED BY <2>1
<1>4. l \in WordsAt(s, p)
  BY <1>3, WordMembers, Zenon
<1>5. l.n = n
  BY LexemeIs
<1> HIDE DEF l
<1>6. l \in LexemesAt(s, p)
  BY <1>2, <1>4 DEF LexemesAt
<1>7. l \in LongestAt(s, p)
  BY <1>2, <1>5, <1>6, LongestIs, Zenon
<1> QED BY <1>7 DEF l

\* The operator that is tried first is a longest lexeme, where no remark begins.
LEMMA OperatorLongest ==
  ASSUME NEW s, Plain(s), Len(s) \in Nat, NEW p \in 1..Len(s), ~Spelt(s, "/*", p), ~Spelt(s, "//", p),
         NEW i \in DOMAIN Operators, Spelt(s, Operators[i][1], p),
         \A j \in DOMAIN Operators : Spelt(s, Operators[j][1], p) => i <= j
  PROVE  Lexeme(Operators[i][2], Len(Operators[i][1])) \in LongestAt(s, p)
<1> DEFINE n == Len(Operators[i][1])
           l == Lexeme(Operators[i][2], n)
<1>1. n \in Nat /\ n >= 1
  BY OperatorsAre
<1>2. s[p] \in Signs
  <2>1. p \in p..p + n - 1
    BY <1>1
  <2> QED BY <2>1, OperatorSpelt
<1>3. l \in FixedAt(s, Operators, p)
  BY FixedMembers, Zenon
<1>4. l.n = n
  BY LexemeIs
<1>5. ASSUME NEW m \in LexemesAt(s, p) PROVE m.n <= n
  <2>1. CASE \E j \in DOMAIN Keywords : Spelt(s, Keywords[j][1], p) /\ m.n = Len(Keywords[j][1])
    <3>1. PICK j \in DOMAIN Keywords : Spelt(s, Keywords[j][1], p)
      BY <2>1
    <3>2. p \in p..p + Len(Keywords[j][1]) - 1
      BY KeywordsAre
    <3>3. s[p] \in isWord
      BY <3>1, <3>2, KeywordSpelt
    <3> QED BY <1>2, <3>3, ClassesApart
  <2>2. CASE \E j \in DOMAIN Operators : Spelt(s, Operators[j][1], p) /\ m.n = Len(Operators[j][1])
    BY <2>2, OperatorsAre
  <2>3. CASE m.n \in 1..Len(s) + 1 - p /\ \A q \in p..p + m.n - 1 : s[q] \in isWord
    <3>1. p \in p..p + m.n - 1
      BY <2>3
    <3> QED BY <1>2, <2>3, <3>1, ClassesApart
  <2>4. CASE s[p] = QUOTE
    BY <1>2, <2>4, ClassesApart
  <2> QED BY <2>1, <2>2, <2>3, <2>4, LexemeCases
<1> HIDE DEF l, n
<1>6. l \in LexemesAt(s, p)
  BY <1>3 DEF LexemesAt
<1>7. l \in LongestAt(s, p)
  BY <1>4, <1>5, <1>6, LongestIs, Zenon
<1> QED BY <1>7 DEF l, n

\* What stands at a quote is a string.
LEMMA LexemesOfQuote ==
  ASSUME NEW s, Plain(s), Len(s) \in Nat, NEW p \in 1..Len(s), s[p] = QUOTE
  PROVE  /\ ~Spelt(s, "/*", p) /\ ~Spelt(s, "//", p)
         /\ \A l \in LexemesAt(s, p) :
              /\ l.n \in 2..Len(s) + 1 - p /\ s[p + l.n - 1] = QUOTE
              /\ \A q \in p + 1..p + l.n - 2 : s[q] # QUOTE
<1>1. ~Spelt(s, "/*", p) /\ ~Spelt(s, "//", p)
  BY SpeltSigns, ClassesApart
<1>2. s[p] \notin isWord /\ s[p] \notin Signs
  BY ClassesApart
<1>3. ASSUME NEW l \in LexemesAt(s, p)
      PROVE  /\ l.n \in 2..Len(s) + 1 - p /\ s[p + l.n - 1] = QUOTE
             /\ \A q \in p + 1..p + l.n - 2 : s[q] # QUOTE
  <2>1. CASE \E j \in DOMAIN Keywords : Spelt(s, Keywords[j][1], p) /\ l.n = Len(Keywords[j][1])
    <3>1. PICK j \in DOMAIN Keywords : Spelt(s, Keywords[j][1], p)
      BY <2>1
    <3>2. p \in p..p + Len(Keywords[j][1]) - 1
      BY KeywordsAre
    <3> QED BY <1>2, <3>1, <3>2, KeywordSpelt
  <2>2. CASE \E j \in DOMAIN Operators : Spelt(s, Operators[j][1], p) /\ l.n = Len(Operators[j][1])
    <3>1. PICK j \in DOMAIN Operators : Spelt(s, Operators[j][1], p)
      BY <2>2
    <3>2. p \in p..p + Len(Operators[j][1]) - 1
      BY OperatorsAre
    <3> QED BY <1>2, <3>1, <3>2, OperatorSpelt
  <2>3. CASE l.n \in 1..Len(s) + 1 - p /\ \A q \in p..p + l.n - 1 : s[q] \in isWord
    <3>1. p \in p..p + l.n - 1
      BY <2>3
    <3> QED BY <1>2, <2>3, <3>1
  <2>4. CASE /\ l.n \in 2..Len(s) + 1 - p /\ s[p + l.n - 1] = QUOTE
             /\ \A q \in p + 1..p + l.n - 2 : s[q] # QUOTE
    BY <2>4
  <2> QED BY <1>1, <2>1, <2>2, <2>3, <2>4, LexemeCases
<1> QED BY <1>1, <1>3

\* From a quote to the next is a longest lexeme.
LEMMA StringLongest ==
  ASSUME NEW s, Plain(s), Len(s) \in Nat, NEW p \in 1..Len(s), s[p] = QUOTE,
         NEW n \in 2..Len(s) + 1 - p, s[p + n - 1] = QUOTE,
         \A q \in p + 1..p + n - 2 : s[q] # QUOTE
  PROVE  Lexeme("TokStringLiteral", n) \in LongestAt(s, p)
<1> DEFINE l == Lexeme("TokStringLiteral", n)
<1>1. /\ ~Spelt(s, "/*", p) /\ ~Spelt(s, "//", p)
      /\ \A m \in LexemesAt(s, p) :
           m.n \in 2..Len(s) + 1 - p /\ \A q \in p + 1..p + m.n - 2 : s[q] # QUOTE
  BY LexemesOfQuote
<1>2. Len(QUOTE) = 1
  BY SignsAre, Zenon
<1>3. Spelt(s, QUOTE, p) /\ Spelt(s, QUOTE, p + n - 1) /\ \A q \in p + 1..p + n - 1 - 1 : ~Spelt(s, QUOTE, q)
  BY SpeltSigns
<1>4. n \in 1 + 1..Len(s) + 1 - p
  OBVIOUS
<1>5. l \in ClosedAt(s, "TokStringLiteral", QUOTE, QUOTE, p)
  BY <1>2, <1>3, <1>4, ClosedIs, Zenon
<1>6. l.n = n
  BY LexemeIs
<1> HIDE DEF l
<1>7. l \in LexemesAt(s, p)
  BY <1>1, <1>5 DEF LexemesAt
<1>8. ASSUME NEW m \in LexemesAt(s, p) PROVE m.n <= n
  <2>1. m.n \in Int /\ \A q \in p + 1..p + m.n - 2 : s[q] # QUOTE
    BY <1>1
  <2> QED BY <2>1
<1>9. l \in LongestAt(s, p)
  BY <1>6, <1>7, <1>8, LongestIs, Zenon
<1> QED BY <1>9 DEF l

\* From the sign of a remark to the first "*/" is a longest lexeme.
LEMMA StarLongest ==
  ASSUME NEW s, Plain(s), Len(s) \in Nat, NEW p \in 1..Len(s), Spelt(s, "/*", p),
         NEW n \in 4..Len(s) + 1 - p, Spelt(s, "*/", p + n - 2),
         \A q \in p + 2..p + n - 3 : ~Spelt(s, "*/", q)
  PROVE  Lexeme("TokStarRemark", n) \in LongestAt(s, p)
<1> DEFINE l == Lexeme("TokStarRemark", n)
           first == "/*"
           last == "*/"
<1>1. ~Spelt(s, "//", p)
  BY SpeltSigns
<1>2. Len(first) = 2 /\ Len(last) = 2
  BY SignsAre, Zenon
<1>3. Spelt(s, first, p) /\ Spelt(s, last, p + n - 2) /\ \A q \in p + 2..p + n - 2 - 1 : ~Spelt(s, last, q)
  OBVIOUS
<1>4. n \in 2 + 2..Len(s) + 1 - p
  OBVIOUS
<1> HIDE DEF first, last
<1>5. l \in ClosedAt(s, "TokStarRemark", first, last, p)
  BY <1>2, <1>3, <1>4, ClosedIs, Zenon
<1>6. l.n = n
  BY LexemeIs
<1> HIDE DEF l
<1>7. l \in LexemesAt(s, p)
  BY <1>5 DEF LexemesAt, first, last
<1>8. ASSUME NEW m \in LexemesAt(s, p) PROVE m.n <= n
  <2>1. m.n \in Int /\ \A q \in p + 2..p + m.n - 3 : ~Spelt(s, "*/", q)
    BY <1>1, RemarkCases
  <2> QED BY <2>1
<1>9. l \in LongestAt(s, p)
  BY <1>6, <1>7, <1>8, LongestIs, Zenon
<1> QED BY <1>9 DEF l

\* From the sign of a remark to the end of the line is a longest lexeme.
LEMMA LineLongest ==
  ASSUME NEW s, Plain(s), Len(s) \in Nat, NEW p \in 1..Len(s), Spelt(s, "//", p),
         NEW n \in 3..Len(s) + 1 - p, s[p + n - 1] = "\n",
         \A q \in p + 2..p + n - 2 : s[q] # "\n"
  PROVE  Lexeme("TokLineRemark", n) \in LongestAt(s, p)
<1> DEFINE l == Lexeme("TokLineRemark", n)
           first == "//"
           last == "\n"
<1>1. ~Spelt(s, "/*", p)
  BY SpeltSigns
<1>2. Len(first) = 2 /\ Len(last) = 1
  BY SignsAre, Zenon
<1>3. Spelt(s, first, p) /\ Spelt(s, last, p + n - 1) /\ \A q \in p + 2..p + n - 1 - 1 : ~Spelt(s, last, q)
  BY SpeltSigns
<1>4. n \in 2 + 1..Len(s) + 1 - p
  OBVIOUS
<1> HIDE DEF first, last
<1>5. l \in ClosedAt(s, "TokLineRemark", first, last, p)
  BY <1>2, <1>3, <1>4, ClosedIs, Zenon
<1>6. l.n = n
  BY LexemeIs
<1> HIDE DEF l
<1>7. l \in LexemesAt(s, p)
  BY <1>5 DEF LexemesAt, first, last
<1>8. ASSUME NEW m \in LexemesAt(s, p) PROVE m.n <= n
  <2>1. m.n \in Int /\ \A q \in p + 2..p + m.n - 2 : s[q] # "\n"
    BY <1>1, RemarkCases
  <2> QED BY <2>1
<1>9. l \in LongestAt(s, p)
  BY <1>6, <1>7, <1>8, LongestIs, Zenon
<1> QED BY <1>9 DEF l

\* A remark or a string that is not closed is no lexeme, nor does one begin it.
LEMMA Unclosed ==
  ASSUME NEW s, Plain(s), Len(s) \in Nat, NEW p \in 1..Len(s),
         \/ Spelt(s, "/*", p) /\ \A q \in p + 2..Len(s) : ~Spelt(s, "*/", q)
         \/ Spelt(s, "//", p) /\ \A q \in p + 2..Len(s) : s[q] # "\n"
         \/ s[p] = QUOTE /\ \A q \in p + 1..Len(s) : s[q] # QUOTE
  PROVE  LexemesAt(s, p) = {}
<1> SUFFICES ASSUME NEW l \in LexemesAt(s, p) PROVE FALSE
  OBVIOUS
<1>1. CASE Spelt(s, "/*", p) /\ \A q \in p + 2..Len(s) : ~Spelt(s, "*/", q)
  <2>1. ~Spelt(s, "//", p)
    BY <1>1, SpeltSigns
  <2>2. l.n \in 4..Len(s) + 1 - p /\ Spelt(s, "*/", p + l.n - 2)
    BY <1>1, <2>1, RemarkCases
  <2> QED BY <1>1, <2>2
<1>2. CASE Spelt(s, "//", p) /\ \A q \in p + 2..Len(s) : s[q] # "\n"
  <2>1. ~Spelt(s, "/*", p)
    BY <1>2, SpeltSigns
  <2>2. l.n \in 3..Len(s) + 1 - p /\ s[p + l.n - 1] = "\n"
    BY <1>2, <2>1, RemarkCases
  <2> QED BY <1>2, <2>2
<1>3. CASE s[p] = QUOTE /\ \A q \in p + 1..Len(s) : s[q] # QUOTE
  <2>1. l.n \in 2..Len(s) + 1 - p /\ s[p + l.n - 1] = QUOTE
    BY <1>3, LexemesOfQuote
  <2> QED BY <1>3, <2>1
<1> QED BY <1>1, <1>2, <1>3

-----------------------------------------------------------------------------
(* Lines and columns                                                        *)

\* Lines are counted with numbers.
LEMMA LinesAre ==
  ASSUME NEW s, NEW p \in Nat
  PROVE  IsFiniteSet(LinesBefore(s, p)) /\ Cardinality(LinesBefore(s, p)) \in Nat /\ LinesBefore(s, p) \subseteq 1..p - 1
<1>1. IsFiniteSet(1..p - 1) /\ LinesBefore(s, p) \subseteq 1..p - 1
  BY FS_Interval DEF LinesBefore
<1>2. IsFiniteSet(LinesBefore(s, p))
  BY <1>1, FS_Subset
<1> QED BY <1>1, <1>2, FS_CardinalityType

\* What is counted up to a place is counted before, columns in the same line.
LEMMA CountedBefore ==
  ASSUME NEW s, NEW p \in Nat, NEW q \in Nat, p <= q
  PROVE  /\ LinesCounted(s, q) => LinesCounted(s, p)
         /\ ColumnsCounted(s, q) /\ (\A i \in p..q - 1 : s[i] # "\n") => ColumnsCounted(s, p)
<1>1. LinesCounted(s, q) => LinesCounted(s, p)
  <2>1. \A j \in 2..p - 2 : j \in 2..q - 2
    OBVIOUS
  <2> QED BY <2>1, Zenon DEF LinesCounted
<1>2. ASSUME ColumnsCounted(s, q), \A i \in p..q - 1 : s[i] # "\n", NEW i \in 1..p - 1, s[i] = QUOTE
      PROVE  \E j \in i + 1..p - 1 : s[j] = "\n"
  <2>1. i \in 1..q - 1
    OBVIOUS
  <2>2. PICK j \in i + 1..q - 1 : s[j] = "\n"
    BY <1>2, <2>1 DEF ColumnsCounted
  <2>3. j \in i + 1..p - 1
    BY <1>2, <2>2
  <2> QED BY <2>2, <2>3
<1> QED BY <1>1, <1>2 DEF ColumnsCounted

\* The first character is in the first line and column.
LEMMA PlacedFirst == ASSUME NEW s PROVE Placed(s, 1, 1, 1)
<1>1. LinesBefore(s, 1) = {}
  BY DEF LinesBefore
<1>2. Cardinality(LinesBefore(s, 1)) = 0
  BY <1>1, FS_EmptySet
<1> QED BY <1>1, <1>2 DEF Placed, Lined, InLine, InColumn

\* Characters that end no line are of the line.
LEMMA LinedOn ==
  ASSUME NEW s, NEW p \in Nat \ {0}, NEW n \in Nat, NEW l, Lined(s, l, p), \A q \in p..p + n - 1 : s[q] # "\n"
  PROVE  LinesBefore(s, p + n) = LinesBefore(s, p) /\ Lined(s, l, p + n)
<1>1. LinesBefore(s, p + n) = LinesBefore(s, p)
  BY DEF LinesBefore
<1>2. LinesCounted(s, p + n) => LinesCounted(s, p)
  BY CountedBefore
<1> QED BY <1>1, <1>2 DEF Lined, InLine

\* They are columns.
LEMMA PlacedOn ==
  ASSUME NEW s, NEW p \in Nat \ {0}, NEW n \in Nat, NEW l \in Int, NEW c \in Int, Placed(s, l, c, p),
         \A q \in p..p + n - 1 : s[q] # "\n"
  PROVE  Placed(s, l, c + n, p + n)
<1>1. LinesBefore(s, p + n) = LinesBefore(s, p) /\ Lined(s, l, p + n)
  BY LinedOn DEF Placed
<1>2. ColumnsCounted(s, p + n) => ColumnsCounted(s, p)
  BY CountedBefore
<1>3. ASSUME InColumn(s, c, p) PROVE InColumn(s, c + n, p + n)
  <2>1. PICK q \in LinesBefore(s, p) \cup {0} : c = p - q /\ \A i \in LinesBefore(s, p) : i <= q
    BY <1>3 DEF InColumn
  <2>2. q \in Int
    BY LinesAre
  <2>3. c + n = (p + n) - q
    BY <2>1, <2>2
  <2>4. q \in LinesBefore(s, p + n) \cup {0} /\ \A i \in LinesBefore(s, p + n) : i <= q
    BY <1>1, <2>1, Zenon
  <2> QED BY <2>3, <2>4, Zenon DEF InColumn
<1> QED BY <1>1, <1>2, <1>3 DEF Placed

\* Behind a quote columns are not told.
LEMMA PlacedQuoted ==
  ASSUME NEW s, NEW p \in Nat, NEW l, NEW d, Lined(s, l, p), NEW i \in 1..p - 1, s[i] = QUOTE,
         \A j \in i + 1..p - 1 : s[j] # "\n"
  PROVE  Placed(s, l, d, p)
<1>1. ~ColumnsCounted(s, p)
  BY DEF ColumnsCounted
<1> QED BY <1>1 DEF Placed

\* A line end begins a line.
LEMMA PlacedLine ==
  ASSUME NEW s, NEW p \in Nat \ {0}, NEW l \in Int, Lined(s, l, p), s[p] = "\n"
  PROVE  Placed(s, l + 1, 1, p + 1)
<1>1. LinesBefore(s, p + 1) = LinesBefore(s, p) \cup {p} /\ p \notin LinesBefore(s, p)
  BY DEF LinesBefore
<1>2. IsFiniteSet(LinesBefore(s, p)) /\ Cardinality(LinesBefore(s, p)) \in Nat
  BY LinesAre
<1>3. Cardinality(LinesBefore(s, p + 1)) = Cardinality(LinesBefore(s, p)) + 1
  BY <1>1, <1>2, FS_AddElement
<1>4. InLine(s, l, p) => InLine(s, l + 1, p + 1)
  BY <1>2, <1>3 DEF InLine
<1>5. p \in LinesBefore(s, p + 1) /\ 1 = (p + 1) - p /\ \A i \in LinesBefore(s, p + 1) : i <= p
  BY <1>1 DEF LinesBefore
<1>6. InColumn(s, 1, p + 1)
  BY <1>5 DEF InColumn
<1>7. LinesCounted(s, p + 1) => LinesCounted(s, p)
  BY CountedBefore
<1> QED BY <1>4, <1>6, <1>7 DEF Placed, Lined

\* In a remark the character behind a line end is in the second column, unless it ends a line.
LEMMA PlacedSkip ==
  ASSUME NEW s, NEW p \in Nat \ {0}, NEW l \in Int, Lined(s, l, p), s[p] = "\n",
         NEW i \in 1..p - 1, Spelt(s, "/*", i), \A k \in i + 2..p - 1 : ~Spelt(s, "*/", k)
  PROVE  Placed(s, l + 1, 2, p + 2)
<1>1. CASE s[p + 1] # "\n"
  <2> DEFINE b == p + 1
             m == l + 1
  <2>1. Placed(s, m, 1, b) /\ b \in Nat \ {0} /\ m \in Int
    BY PlacedLine
  <2>2. \A q \in b..b + 1 - 1 : s[q] # "\n"
    BY <1>1
  <2> HIDE DEF b, m
  <2>3. 1 \in Nat /\ 1 \in Int
    OBVIOUS
  <2>4. Placed(s, m, 1 + 1, b + 1)
    BY <2>1, <2>2, <2>3, PlacedOn, Zenon
  <2> QED BY <2>4 DEF b, m
<1>2. CASE s[p + 1] = "\n"
  <2>1. p \in 2..p + 2 - 2
    OBVIOUS
  <2>2. ~LinesCounted(s, p + 2)
    BY <1>2, <2>1 DEF LinesCounted
  <2> QED BY <2>2 DEF Placed, Lined, ColumnsCounted
<1> QED BY <1>1, <1>2
-----------------------------------------------------------------------------
(* What has been read of a plain text                                       *)

\* What each loop has read of the token t, which begins at p, when it is at q.
StarRead(s, t, p, q) ==
  /\ t.type = "TokStarRemark" /\ t.len = Garbage
  /\ Spelt(s, "/*", p) /\ p + 2 <= q
  /\ \A i \in p + 2..q - 1 : ~Spelt(s, "*/", i)

LineRead(s, t, p, q) ==
  /\ t.type = "TokLineRemark" /\ t.len = q - p
  /\ Spelt(s, "//", p) /\ p + 2 <= q
  /\ \A i \in p + 2..q - 1 : s[i] # "\n"

StringRead(s, t, p, q) ==
  /\ t.type = "TokStringLiteral" /\ t.len = q - (p + 1)
  /\ s[p] = QUOTE /\ p + 1 <= q
  /\ \A i \in p + 1..q - 1 : s[i] # QUOTE

WordRead(s, t, p, q) ==
  /\ t.type = WordType(s[p])
  /\ t.len = q - p /\ p <= q
  /\ s[p] \in isWord /\ NoKeywordAt(s, p)
  /\ \A i \in p..q - 1 : s[i] \in isWord

LoopRead(loop, s, t, p, q) ==
  \/ loop = "star" /\ StarRead(s, t, p, q)
  \/ loop = "line" /\ LineRead(s, t, p, q)
  \/ loop = "string" /\ StringRead(s, t, p, q)
  \/ loop = "word" /\ WordRead(s, t, p, q)

InWork(loop, s, tokens, t, q) ==
  /\ Begin(t) \in 1..Len(s)
  /\ Reaches(s, tokens, Len(tokens), Begin(t)) /\ Placed(s, t.line, t.col, Begin(t))
  /\ LoopRead(loop, s, t, Begin(t), q)

\* The columns of a string that has several lines are not told.
Where(loop, s, l, c, p) == IF loop = "string" THEN Lined(s, l, p) ELSE Placed(s, l, c, p)

AllRead(s, tokens) == \A k \in 1..Len(tokens) : IsRead(s, tokens, k)

Reading ==
  /\ AllRead(src_, tokens_)
  /\ phase \in {"token"} \cup Loops => Where(phase, src_, line, col, read_pos)
  /\ phase = "token" => Reaches(src_, tokens_, Len(tokens_), read_pos)
  /\ phase \in Loops => InWork(phase, src_, tokens_, tok, read_pos)
  /\ phase = "ok" => Len(tokens_) > 0 /\ tokens_[Len(tokens_)].c = Len(src_) + 1
  /\ phase = "error" => IsRefused(src_, tokens_)
  /\ phase # "lost"

RInv == Plain(src_) => Reading

-----------------------------------------------------------------------------
(* What the scanner sees                                                    *)

\* A character of the source or the terminator.
LEMMA CharIs ==
  ASSUME Plain(src_), Len(src_) \in Nat, NEW p \in Nat \ {0}
  PROVE  /\ Char(p) = NUL <=> p > Len(src_)
         /\ p <= Len(src_) => Char(p) = src_[p]
         /\ Char(p) \in isWord => p <= Len(src_)
<1>1. NUL \notin isWord
  BY ClassesApart
<1>2. CASE p <= Len(src_)
  <2>1. p \in 1..Len(src_)
    BY <1>2
  <2>2. src_[p] # NUL
    BY <2>1, PlainIs
  <2>3. Char(p) = src_[p]
    BY <1>2 DEF Char
  <2> QED BY <1>2, <2>2, <2>3
<1>3. CASE p > Len(src_)
  BY <1>1, <1>3 DEF Char
<1> QED BY <1>2, <1>3

\* The scanner looks for what stands there, but for the word it has not whole.
LEMMA StartsIs ==
  ASSUME IInv, Plain(src_), NEW text, Len(text) \in Nat
  PROVE  /\ text # "switch" => (StartsWith(text) <=> Spelt(src_, text, read_pos))
         /\ text = "switch" => ~StartsWith(text) /\ \A p \in 1..Len(src_) : ~Spelt(src_, text, p)
<1>1. Len(src_) \in Nat /\ read_pos \in 1..Len(src_) + 1
  BY DEF IInv, PositionOK
<1>2. CASE text # "switch"
  BY <1>2 DEF StartsWith, Spelt, Length
<1>3. CASE text = "switch"
  <2>1. Len("switch") = 6 /\ Len("switc") = 5 /\ \A k \in 1..5 : Chars("switch")[k] = Chars("switc")[k]
    BY TablesAssumption, Zenon
  <2>2. \A p \in 1..Len(src_) : ~Spelt(src_, "switc", p)
    BY DEF Plain
  <2>3. ASSUME NEW p \in 1..Len(src_), Spelt(src_, "switch", p) PROVE FALSE
    <3>1. p + 6 <= Len(src_) + 1 /\ \A k \in 1..6 : src_[p + k - 1] = Chars("switch")[k]
      BY <2>1, <2>3 DEF Spelt
    <3>2. p + 5 <= Len(src_) + 1 /\ \A k \in 1..5 : src_[p + k - 1] = Chars("switc")[k]
      BY <1>1, <2>1, <3>1
    <3> QED BY <2>1, <2>2, <3>2 DEF Spelt
  <2>4. ASSUME StartsWith("switch") PROVE FALSE
    <3>1. read_pos + 5 <= Len(src_) + 1 /\ \A k \in 1..5 : src_[read_pos + k - 1] = Chars("switch")[k]
      BY <2>4 DEF StartsWith, Length
    <3>2. read_pos \in 1..Len(src_) /\ \A k \in 1..5 : src_[read_pos + k - 1] = Chars("switc")[k]
      BY <1>1, <2>1, <3>1
    <3> QED BY <2>1, <2>2, <3>1, <3>2 DEF Spelt
  <2> QED BY <1>1, <1>3, <2>2, <2>3, <2>4
<1> QED BY <1>2, <1>3

\* A word of the table ends where no word character follows.
LEMMA EndsIs ==
  ASSUME Plain(src_), Len(src_) \in Nat, NEW p \in Nat \ {0}
  PROVE  Char(p) \notin isWord <=> EndsAt(src_, p)
BY CharIs DEF EndsAt

\* Of some numbers one is the first.
LEMMA FirstSome ==
  ASSUME NEW S \in SUBSET Nat, S # {}
  PROVE  First(S) # {}
<1> DEFINE R == OpToRel(<, Nat)
<1>1. \A x, y \in Nat : y < x => <<y, x>> \in R
  BY DEF OpToRel
<1> HIDE DEF R
<1>2. IsWellFoundedOn(R, Nat)
  BY NatLessThanWellFounded DEF R
<1>3. PICK x \in S : \A y \in S : ~(<<y, x>> \in R)
  BY <1>2, WFMin
<1>4. ASSUME NEW y \in S PROVE x <= y
  <2>1. x \in Nat /\ y \in Nat /\ ~(y < x)
    BY <1>1, <1>3
  <2> QED BY <2>1
<1>5. x \in First(S)
  BY <1>4 DEF First
<1> QED BY <1>5

\* Where a token is begun there is a character, neither a blank nor a line end.
LEMMA TokenAt ==
  ASSUME IInv, Plain(src_), AtToken
  PROVE  /\ Len(src_) \in Nat /\ read_pos \in 1..Len(src_) /\ phase = "token"
         /\ Next1 = src_[read_pos] /\ src_[read_pos] \in isWord \cup Signs \cup {QUOTE}
<1>1. Len(src_) \in Nat /\ read_pos \in 1..Len(src_) + 1
  BY DEF IInv, PositionOK
<1>2. Next1 # NUL /\ phase = "token" /\ Next1 \notin Blanks /\ Next1 # "\n"
  BY DEF AtToken
<1>3. read_pos \in 1..Len(src_)
  BY <1>1, <1>2, CharIs DEF Next1
<1>4. Next1 = src_[read_pos]
  BY <1>3 DEF Next1, Char
<1>5. src_[read_pos] \in isWord \cup Blanks \cup Signs \cup {"\n", QUOTE}
  BY <1>3, PlainIs
<1> QED BY <1>1, <1>2, <1>3, <1>4, <1>5

\* A keyword that is found stands there.
LEMMA KeywordAt ==
  ASSUME IInv, Plain(src_), NEW i \in DOMAIN Keywords
  PROVE  StartsWith(Keywords[i][1]) /\ KeywordEnds(Keywords[i][1]) /\ read_pos <= Len(src_)
           <=> /\ Spelt(src_, Keywords[i][1], read_pos) /\ read_pos <= Len(src_)
               /\ EndsAt(src_, read_pos + Len(Keywords[i][1]))
<1>1. Len(src_) \in Nat /\ read_pos \in 1..Len(src_) + 1
  BY DEF IInv, PositionOK
<1>2. Len(Keywords[i][1]) \in Nat
  BY KeywordsAre
<1>3. CASE Keywords[i][1] = "switch"
  BY <1>1, <1>2, <1>3, StartsIs
<1>4. CASE Keywords[i][1] # "switch"
  <2>1. Length(Keywords[i][1]) = Len(Keywords[i][1])
    BY <1>4 DEF Length
  <2>2. read_pos + Len(Keywords[i][1]) \in Nat \ {0}
    BY <1>1, <1>2
  <2>3. KeywordEnds(Keywords[i][1]) <=> EndsAt(src_, read_pos + Len(Keywords[i][1]))
    BY <1>1, <2>1, <2>2, EndsIs DEF KeywordEnds
  <2> QED BY <1>2, <1>4, <2>3, StartsIs
<1> QED BY <1>3, <1>4

\* An operator that is found stands there.
LEMMA OperatorAt ==
  ASSUME IInv, Plain(src_), NEW i \in DOMAIN Operators
  PROVE  StartsWith(Operators[i][1]) <=> Spelt(src_, Operators[i][1], read_pos)
BY StartsIs, OperatorsAre

\* The signs of remarks, when they are found, stand there.
LEMMA RemarkAt ==
  ASSUME IInv, Plain(src_)
  PROVE  /\ StartsWith("/*") <=> Spelt(src_, "/*", read_pos)
         /\ StartsWith("*/") <=> Spelt(src_, "*/", read_pos)
         /\ StartsWith("//") <=> Spelt(src_, "//", read_pos)
<1>1. \A text \in {"/*", "*/", "//"} : Len(text) \in Nat /\ text # "switch"
  BY SignsAre
<1> QED BY <1>1, StartsIs

\* Where no keyword is found there is none.
LEMMA NoKeyword ==
  ASSUME IInv, Plain(src_), Unmatched
  PROVE  NoKeywordAt(src_, read_pos)
<1> DEFINE S == {i \in DOMAIN Keywords : StartsWith(Keywords[i][1]) /\ KeywordEnds(Keywords[i][1])}
<1>1. AtToken /\ First(S) = {}
  BY DEF Unmatched, Keyword
<1>2. DOMAIN Keywords \subseteq Nat
  BY TablesAssumption, Zenon
<1>3. S \in SUBSET Nat
  BY <1>2
<1>4. S = {}
  BY <1>1, <1>3, FirstSome
<1>5. read_pos <= Len(src_)
  <2>1. Len(src_) \in Nat /\ read_pos \in 1..Len(src_)
    BY <1>1, TokenAt
  <2> QED BY <2>1
<1>6. ASSUME NEW i \in DOMAIN Keywords, Spelt(src_, Keywords[i][1], read_pos), EndsAt(src_, read_pos + Len(Keywords[i][1]))
      PROVE  FALSE
  <2>1. StartsWith(Keywords[i][1]) /\ KeywordEnds(Keywords[i][1])
    BY <1>5, <1>6, KeywordAt
  <2> QED BY <1>4, <2>1
<1> QED BY <1>6 DEF NoKeywordAt

\* Where no operator is found there is no sign.
LEMMA NoOperator ==
  ASSUME IInv, Plain(src_), Other
  PROVE  src_[read_pos] \notin Signs
<1>1. AtToken /\ First(OperatorHits) = {}
  BY DEF Other, NoRemark, Unmatched, Operator
<1>2. DOMAIN Operators \subseteq Nat
  BY TablesAssumption, Zenon
<1>3. OperatorHits \in SUBSET Nat
  BY <1>2 DEF OperatorHits
<1>4. OperatorHits = {}
  BY <1>1, <1>3, FirstSome
<1>5. Len(src_) \in Nat /\ read_pos \in 1..Len(src_)
  BY <1>1, TokenAt
<1>6. ASSUME src_[read_pos] \in Signs PROVE FALSE
  <2>1. PICK i \in DOMAIN Operators : Len(Operators[i][1]) = 1 /\ Chars(Operators[i][1]) = <<src_[read_pos]>>
    BY <1>6, TablesAssumption, Zenon
  <2>2. Spelt(src_, Operators[i][1], read_pos)
    BY <1>5, <2>1 DEF Spelt
  <2>3. StartsWith(Operators[i][1])
    BY <2>2, OperatorAt
  <2> QED BY <1>4, <2>3 DEF OperatorHits
<1> QED BY <1>6

-----------------------------------------------------------------------------
(* From token to token                                                      *)

\* A blank or a line end is passed.
LEMMA ReachesOn ==
  ASSUME NEW s, NEW tokens, NEW k, NEW q \in Nat, Reaches(s, tokens, k, q), s[q] \in Blanks \cup {"\n"}
  PROVE  Reaches(s, tokens, k, q + 1)
<1>1. ASSUME NEW p, Gap(s, p, q) PROVE Gap(s, p, q + 1)
  <2>1. p \in 1..q /\ \A i \in p..q - 1 : s[i] \in Blanks \cup {"\n"}
    BY <1>1 DEF Gap
  <2>2. p \in 1..q + 1 /\ \A i \in p..(q + 1) - 1 : i \in p..q - 1 \/ i = q
    BY <2>1
  <2> QED BY <2>1, <2>2 DEF Gap
<1> QED BY <1>1 DEF Reaches

\* The tokens before stay what they are.
LEMMA ReachesKept ==
  ASSUME NEW s, NEW tokens \in Seq(TokenRecord), NEW t, NEW k \in 0..Len(tokens), NEW p
  PROVE  Reaches(s, Append(tokens, t), k, p) <=> Reaches(s, tokens, k, p)
<1>1. CASE k = 0
  BY <1>1 DEF Reaches
<1>2. CASE k # 0
  <2>1. Append(tokens, t)[k] = tokens[k]
    BY <1>2
  <2> QED BY <1>2, <2>1 DEF Reaches
<1> QED BY <1>1, <1>2

\* A token is read that begins where the last has led.
LEMMA AppendRead ==
  ASSUME NEW s, NEW tokens \in Seq(TokenRecord), NEW t, AllRead(s, tokens),
         Reaches(s, tokens, Len(tokens), Begin(t)), Placed(s, t.line, t.col, Begin(t))
  PROVE  AllRead(s, Append(tokens, t))
<1> DEFINE more == Append(tokens, t)
<1>1. /\ Len(tokens) \in Nat /\ Len(more) = Len(tokens) + 1 /\ more[Len(tokens) + 1] = t
      /\ \A k \in 1..Len(tokens) : more[k] = tokens[k]
  OBVIOUS
<1>2. ASSUME NEW k \in 1..Len(tokens) PROVE IsRead(s, more, k)
  <2>1. IsRead(s, tokens, k) /\ k - 1 \in 0..Len(tokens) /\ more[k] = tokens[k]
    BY <1>1 DEF AllRead
  <2>2. Reaches(s, more, k - 1, Begin(tokens[k])) <=> Reaches(s, tokens, k - 1, Begin(tokens[k]))
    BY <2>1, ReachesKept
  <2> HIDE DEF more
  <2> QED BY <2>1, <2>2 DEF IsRead
<1>3. IsRead(s, more, Len(tokens) + 1)
  <2>1. Len(tokens) \in 0..Len(tokens) /\ (Len(tokens) + 1) - 1 = Len(tokens)
    BY <1>1
  <2>2. Reaches(s, more, Len(tokens), Begin(t))
    BY <2>1, ReachesKept
  <2> HIDE DEF more
  <2> QED BY <1>1, <2>1, <2>2 DEF IsRead
<1> HIDE DEF more
<1>4. AllRead(s, more)
  BY <1>1, <1>2, <1>3 DEF AllRead
<1> QED BY <1>4 DEF more

\* Behind a token that is a longest lexeme there is nothing yet.
LEMMA ReachesNext ==
  ASSUME NEW s, NEW tokens \in Seq(TokenRecord), NEW t, NEW l \in LongestAt(s, Begin(t)), IsToken(t, l),
         NEW q \in Nat \ {0}, q = Begin(t) + l.n
  PROVE  Reaches(s, Append(tokens, t), Len(tokens) + 1, q)
<1>1. Append(tokens, t)[Len(tokens) + 1] = t /\ Len(tokens) + 1 # 0
  OBVIOUS
<1>2. Gap(s, Begin(t) + l.n, q)
  BY DEF Gap
<1> QED BY <1>1, <1>2 DEF Reaches

-----------------------------------------------------------------------------
(* Kinds of steps on a plain text                                           *)

\* A token that is a longest lexeme is handed on.
LEMMA DeliversRead ==
  ASSUME IInv, Reading, UNCHANGED src_, NEW t, Deliver(t),
         Reaches(src_, tokens_, Len(tokens_), Begin(t)), Placed(src_, t.line, t.col, Begin(t)),
         NEW l \in LongestAt(src_, Begin(t)), IsToken(t, l), NEW q \in Nat \ {0}, q = Begin(t) + l.n,
         read_pos' = q, Placed(src_, line', col', q)
  PROVE  Reading'
<1>1. tokens_ \in Seq(TokenRecord) /\ AllRead(src_, tokens_)
  BY DEF IInv, TokensOK, Reading
<1>2. tokens_' = Append(tokens_, t) /\ phase' = "token"
  BY DEF Deliver
<1>3. AllRead(src_, tokens_')
  BY <1>1, <1>2, AppendRead
<1>4. Len(tokens_') = Len(tokens_) + 1
  BY <1>1, <1>2
<1>5. Reaches(src_, tokens_', Len(tokens_'), q)
  BY <1>1, <1>2, <1>4, ReachesNext
<1> QED BY <1>2, <1>3, <1>5 DEF Reading, Loops, Where

\* A text is refused where nothing of the language stands.
LEMMA FailsRead ==
  ASSUME Reading, UNCHANGED src_, Fail, NEW p \in 1..Len(src_),
         Reaches(src_, tokens_, Len(tokens_), p), LexemesAt(src_, p) = {}
  PROVE  Reading'
<1>1. IsRefused(src_, tokens_)
  BY DEF IsRefused
<1>2. phase' = "error" /\ tokens_' = tokens_
  BY DEF Fail
<1> QED BY <1>1, <1>2 DEF Reading, Loops

\* Between two tokens nothing is read.
LEMMA PassesRead ==
  ASSUME Reading, UNCHANGED <<src_, tokens_>>, phase' = "token",
         Reaches(src_, tokens_, Len(tokens_), read_pos'), Placed(src_, line', col', read_pos')
  PROVE  Reading'
BY DEF Reading, Loops, Where

\* A token is in work.
LEMMA WorksRead ==
  ASSUME Reading, UNCHANGED <<src_, tokens_>>, phase' \in Loops,
         InWork(phase', src_, tokens_, tok', read_pos'), Where(phase', src_, line', col', read_pos')
  PROVE  Reading'
BY DEF Reading, Loops

\* What a new token is.
LEMMA TokenIs ==
  ASSUME NEW type, NEW c, NEW n
  PROVE  /\ Token(type, c, n).type = type /\ Token(type, c, n).c = c /\ Token(type, c, n).len = n
         /\ Token(type, c, n).line = line /\ Token(type, c, n).col = col
         /\ type # "TokStringLiteral" => Opening(Token(type, c, n)) = 0
         /\ type # "TokStringLiteral" /\ c \in Int => Begin(Token(type, c, n)) = c
BY DEF Token, Begin, Opening

\* What a longer token is.
LEMMA LongerIs ==
  ASSUME NEW t \in TokenRecord
  PROVE  LET u == [t EXCEPT !.len = @ + 1] IN
         /\ u.type = t.type /\ u.line = t.line /\ u.col = t.col /\ u.len = t.len + 1
         /\ Begin(u) = Begin(t)
BY DEF TokenRecord, Begin, Opening

\* Where the scanner is when a token is in work.
LEMMA WorkIs ==
  ASSUME IInv, Reading, phase \in Loops
  PROVE  /\ Len(src_) \in Nat /\ read_pos \in 1..Len(src_) + 1 /\ line \in Int /\ col \in Int
         /\ Where(phase, src_, line, col, read_pos)
         /\ tok \in TokenRecord /\ Begin(tok) \in 1..Len(src_)
         /\ InWork(phase, src_, tokens_, tok, read_pos)
         /\ Reaches(src_, tokens_, Len(tokens_), Begin(tok)) /\ Placed(src_, tok.line, tok.col, Begin(tok))
BY DEF IInv, PositionOK, PhaseOK, Within, Reading, InWork

\* Where the scanner is when it is at a character.
LEMMA AtIs ==
  ASSUME IInv, Plain(src_)
  PROVE  /\ Len(src_) \in Nat /\ read_pos \in 1..Len(src_) + 1 /\ line \in Int /\ col \in Int
         /\ Next1 # NUL => read_pos \in 1..Len(src_) /\ Next1 = src_[read_pos]
         /\ Next1 = NUL => read_pos = Len(src_) + 1
<1>1. Len(src_) \in Nat /\ read_pos \in 1..Len(src_) + 1 /\ line \in Int /\ col \in Int
  BY DEF IInv, PositionOK
<1>2. read_pos \in Nat \ {0}
  BY <1>1
<1>3. Next1 = Char(read_pos)
  BY DEF Next1
<1>4. (Char(read_pos) = NUL <=> read_pos > Len(src_)) /\ (read_pos <= Len(src_) => Char(read_pos) = src_[read_pos])
  BY <1>1, <1>2, CharIs
<1> QED BY <1>1, <1>3, <1>4

\* One character that ends no line is passed, or n of them.
LEMMA MoveRead ==
  ASSUME IInv, Placed(src_, line, col, read_pos), NEW n \in Nat, Move(n),
         \A q \in read_pos..read_pos + n - 1 : src_[q] # "\n"
  PROVE  read_pos' = read_pos + n /\ Placed(src_, line', col', read_pos')
<1>1. read_pos \in Nat \ {0} /\ line \in Int /\ col \in Int
  BY DEF IInv, PositionOK
<1>2. read_pos' = read_pos + n /\ col' = col + n /\ line' = line
  BY DEF Move
<1> QED BY <1>1, <1>2, PlacedOn

-----------------------------------------------------------------------------
(* The steps on a plain text                                                *)

\* Between two tokens.
LEMMA BlanksRead ==
  ASSUME IInv, Plain(src_), Reading, UNCHANGED src_, Blank \/ BlankLine
  PROVE  Reading'
<1>1. phase = "token" /\ phase' = "token" /\ tokens_' = tokens_ /\ Next1 \in Blanks \cup {"\n"}
  BY DEF Blank, BlankLine
<1>2. Next1 # NUL
  BY <1>1, ClassesApart
<1>3. Len(src_) \in Nat /\ read_pos \in 1..Len(src_) /\ src_[read_pos] = Next1 /\ line \in Int /\ col \in Int
  BY <1>2, AtIs
<1>4. Placed(src_, line, col, read_pos) /\ Reaches(src_, tokens_, Len(tokens_), read_pos)
  BY <1>1 DEF Reading, Where
<1>5. Reaches(src_, tokens_, Len(tokens_), read_pos + 1)
  BY <1>1, <1>3, <1>4, ReachesOn
<1>6. read_pos' = read_pos + 1 /\ Placed(src_, line', col', read_pos')
  <2>1. CASE Blank
    <3>1. Move(1) /\ src_[read_pos] # "\n"
      BY <1>3, <2>1, ClassesApart DEF Blank
    <3>2. \A q \in read_pos..read_pos + 1 - 1 : src_[q] # "\n"
      BY <1>3, <3>1
    <3> QED BY <1>4, <3>1, <3>2, MoveRead
  <2>2. CASE BlankLine
    <3>1. read_pos' = read_pos + 1 /\ line' = line + 1 /\ col' = 1 /\ src_[read_pos] = "\n"
      BY <1>3, <2>2 DEF BlankLine, NewLine
    <3>2. Placed(src_, line + 1, 1, read_pos + 1)
      BY <1>3, <1>4, <3>1, PlacedLine DEF Placed
    <3> QED BY <3>1, <3>2
  <2> QED BY <2>1, <2>2
<1> QED BY <1>1, <1>5, <1>6, PassesRead

\* The end of the text.
LEMMA EndOfFileRead ==
  ASSUME IInv, Plain(src_), Reading, UNCHANGED src_, EndOfFile
  PROVE  Reading'
<1> DEFINE t == Token("TokEof", read_pos, 1)
<1>1. phase = "token" /\ phase' = "ok" /\ Next1 = NUL /\ tokens_' = Append(tokens_, t)
  BY DEF EndOfFile
<1>2. read_pos = Len(src_) + 1 /\ read_pos \in Int
  BY <1>1, AtIs
<1>3. t.c = read_pos /\ Begin(t) = read_pos /\ t.line = line /\ t.col = col
  BY <1>2, TokenIs
<1> HIDE DEF t
<1>4. tokens_ \in Seq(TokenRecord) /\ AllRead(src_, tokens_)
  BY DEF IInv, TokensOK, Reading
<1>5. Placed(src_, line, col, read_pos) /\ Reaches(src_, tokens_, Len(tokens_), read_pos)
  BY <1>1 DEF Reading, Where
<1>6. AllRead(src_, tokens_')
  BY <1>1, <1>3, <1>4, <1>5, AppendRead
<1>7. Len(tokens_') > 0 /\ tokens_'[Len(tokens_')].c = Len(src_) + 1
  BY <1>1, <1>2, <1>3, <1>4
<1> QED BY <1>1, <1>6, <1>7 DEF Reading, Loops

\* A word or a sign of the tables.
LEMMA FixedRead ==
  ASSUME IInv, Plain(src_), Reading, UNCHANGED src_, phase = "token", NEW type, type \notin Unfixed, NEW n \in Nat,
         Lexeme(type, n) \in LongestAt(src_, read_pos), Deliver(Token(type, read_pos, n)), Move(n),
         \A q \in read_pos..read_pos + n - 1 : src_[q] # "\n"
  PROVE  Reading'
<1> DEFINE t == Token(type, read_pos, n)
<1>1. read_pos \in Nat \ {0} /\ type \notin {"TokStringLiteral", "TokStarRemark", "TokLineRemark"}
  BY DEF IInv, PositionOK, Unfixed
<1>2. /\ Begin(t) = read_pos /\ t.line = line /\ t.col = col /\ t.type = type /\ t.len = n
      /\ Opening(t) = 0
  BY <1>1, TokenIs
<1> HIDE DEF t
<1>3. Lexeme(type, n).type = type /\ Lexeme(type, n).n = n
  BY LexemeIs
<1>4. IsToken(t, Lexeme(type, n))
  BY <1>1, <1>2, <1>3 DEF IsToken
<1>5. Placed(src_, line, col, read_pos) /\ Reaches(src_, tokens_, Len(tokens_), read_pos)
  BY DEF Reading, Where
<1>6. read_pos' = read_pos + n /\ Placed(src_, line', col', read_pos')
  BY <1>5, MoveRead
<1>7. read_pos + n \in Nat \ {0}
  BY <1>1
<1>8. Deliver(t)
  BY DEF t
<1> QED BY <1>2, <1>3, <1>4, <1>5, <1>6, <1>7, <1>8, DeliversRead

\* The first that is found.
LEMMA FirstIs == ASSUME NEW S, NEW i \in First(S) PROVE i \in S /\ \A j \in S : i <= j
BY DEF First

\* Words of the table.
LEMMA MakeKeywordRead ==
  ASSUME IInv, Plain(src_), Reading, UNCHANGED src_, MakeKeyword
  PROVE  Reading'
<1>1. PICK i \in Keyword : MakeFixed(Keywords, i)
  BY DEF MakeKeyword
<1>2. i \in DOMAIN Keywords /\ StartsWith(Keywords[i][1]) /\ KeywordEnds(Keywords[i][1])
  BY <1>1, FirstIs DEF Keyword
<1> DEFINE n == Len(Keywords[i][1])
<1>3. n \in Nat /\ Keywords[i][2] \notin Unfixed
  BY <1>2, KeywordsAre
<1>4. AtToken /\ Len(src_) \in Nat /\ read_pos \in 1..Len(src_) /\ phase = "token"
  BY TokenAt DEF MakeKeyword
<1>5. read_pos <= Len(src_)
  BY <1>4
<1>6. Spelt(src_, Keywords[i][1], read_pos) /\ EndsAt(src_, read_pos + n)
  BY <1>2, <1>5, KeywordAt
<1>7. Keywords[i][1] # "switch"
  BY <1>2, <1>3, StartsIs
<1>8. Length(Keywords[i][1]) = n
  BY <1>7 DEF Length
<1>9. Lexeme(Keywords[i][2], n) \in LongestAt(src_, read_pos)
  BY <1>2, <1>4, <1>6, KeywordLongest
<1>10. \A q \in read_pos..read_pos + n - 1 : src_[q] # "\n"
  BY <1>2, <1>4, <1>6, KeywordSpelt, ClassesApart
<1>11. Deliver(Token(Keywords[i][2], read_pos, n)) /\ Move(n)
  BY <1>1, <1>8 DEF MakeFixed
<1> HIDE DEF n
<1> QED BY <1>3, <1>4, <1>9, <1>10, <1>11, FixedRead

\* Signs of the table.
LEMMA MakeOperatorRead ==
  ASSUME IInv, Plain(src_), Reading, UNCHANGED src_, MakeOperator
  PROVE  Reading'
<1>1. PICK i \in Operator : MakeFixed(Operators, i)
  BY DEF MakeOperator
<1>2. i \in DOMAIN Operators /\ StartsWith(Operators[i][1]) /\ \A j \in OperatorHits : i <= j
  BY <1>1, FirstIs DEF Operator, OperatorHits
<1> DEFINE n == Len(Operators[i][1])
<1>3. n \in Nat /\ Operators[i][2] \notin Unfixed /\ Operators[i][1] # "switch"
  BY <1>2, OperatorsAre
<1>4. AtToken /\ Len(src_) \in Nat /\ read_pos \in 1..Len(src_) /\ phase = "token"
  BY TokenAt DEF MakeOperator, NoRemark, Unmatched
<1>5. ~Spelt(src_, "/*", read_pos) /\ ~Spelt(src_, "//", read_pos)
  BY RemarkAt DEF MakeOperator, NoRemark
<1>6. Spelt(src_, Operators[i][1], read_pos)
  BY <1>2, OperatorAt
<1>7. \A j \in DOMAIN Operators : Spelt(src_, Operators[j][1], read_pos) => i <= j
  BY <1>2, OperatorAt DEF OperatorHits
<1>8. Length(Operators[i][1]) = n
  BY <1>3 DEF Length
<1>9. Lexeme(Operators[i][2], n) \in LongestAt(src_, read_pos)
  BY <1>2, <1>4, <1>5, <1>6, <1>7, OperatorLongest
<1>10. \A q \in read_pos..read_pos + n - 1 : src_[q] # "\n"
  BY <1>2, <1>4, <1>6, OperatorSpelt, ClassesApart
<1>11. Deliver(Token(Operators[i][2], read_pos, n)) /\ Move(n)
  BY <1>1, <1>8 DEF MakeFixed
<1> HIDE DEF n
<1> QED BY <1>3, <1>4, <1>9, <1>10, <1>11, FixedRead

\* A token is begun.
LEMMA EntersRead ==
  ASSUME IInv, Plain(src_), Reading, UNCHANGED src_, phase = "token", read_pos \in 1..Len(src_),
         NEW loop \in Loops, NEW t, Enter(loop, t), Begin(t) = read_pos, t.line = line, t.col = col,
         LoopRead(loop, src_, t, read_pos, read_pos'), Where(loop, src_, line', col', read_pos')
  PROVE  Reading'
<1>1. Placed(src_, line, col, read_pos) /\ Reaches(src_, tokens_, Len(tokens_), read_pos)
  BY DEF Reading, Where
<1>2. InWork(loop, src_, tokens_, t, read_pos')
  BY <1>1 DEF InWork
<1>3. phase' = loop /\ tok' = t /\ tokens_' = tokens_
  BY DEF Enter
<1> QED BY <1>2, <1>3, WorksRead

\* Remarks are begun.
LEMMA RemarkRead ==
  ASSUME IInv, Plain(src_), Reading, UNCHANGED src_, StarRemark \/ LineRemark
  PROVE  Reading'
<1>1. AtToken /\ Move(2) /\ Len(src_) \in Nat /\ read_pos \in 1..Len(src_) /\ phase = "token"
  BY TokenAt DEF StarRemark, LineRemark, Unmatched
<1>2. Placed(src_, line, col, read_pos)
  BY <1>1 DEF Reading, Where
<1>3. /\ StarRemark => Spelt(src_, "/*", read_pos)
      /\ LineRemark => Spelt(src_, "//", read_pos)
  BY RemarkAt DEF StarRemark, LineRemark
<1>4. src_[read_pos] \in Signs /\ src_[read_pos + 1] \in Signs
  BY <1>1, <1>3, SpeltSigns, ClassesApart
<1>5. \A q \in read_pos..read_pos + 2 - 1 : src_[q] # "\n"
  <2>1. \A q \in read_pos..read_pos + 2 - 1 : q = read_pos \/ q = read_pos + 1
    BY <1>1
  <2> QED BY <1>4, <2>1, ClassesApart
<1>6. read_pos' = read_pos + 2 /\ Placed(src_, line', col', read_pos')
  BY <1>1, <1>2, <1>5, MoveRead
<1>7. CASE StarRemark
  <2> DEFINE t == Token("TokStarRemark", read_pos, Garbage)
  <2>1. Enter("star", t) /\ "star" \in Loops
    BY <1>7 DEF StarRemark, Loops
  <2>2. Begin(t) = read_pos /\ t.type = "TokStarRemark" /\ t.line = line /\ t.col = col /\ t.len = Garbage
    BY <1>1, TokenIs
  <2> HIDE DEF t
  <2>3. StarRead(src_, t, read_pos, read_pos + 2)
    BY <1>1, <1>3, <1>7, <2>2 DEF StarRead
  <2>4. LoopRead("star", src_, t, read_pos, read_pos')
    BY <1>6, <2>3 DEF LoopRead
  <2> QED BY <1>1, <1>6, <2>1, <2>2, <2>4, EntersRead DEF Where
<1>8. CASE LineRemark
  <2> DEFINE t == Token("TokLineRemark", read_pos, 2)
  <2>1. Enter("line", t) /\ "line" \in Loops
    BY <1>8 DEF LineRemark, Loops
  <2>2. Begin(t) = read_pos /\ t.type = "TokLineRemark" /\ t.line = line /\ t.col = col /\ t.len = 2
    BY <1>1, TokenIs
  <2> HIDE DEF t
  <2>3. LineRead(src_, t, read_pos, read_pos + 2)
    BY <1>1, <1>3, <1>8, <2>2 DEF LineRead
  <2>4. LoopRead("line", src_, t, read_pos, read_pos')
    BY <1>6, <2>3 DEF LoopRead
  <2> QED BY <1>1, <1>6, <2>1, <2>2, <2>4, EntersRead DEF Where
<1> QED BY <1>7, <1>8

\* A token goes on.
LEMMA GoesOnRead ==
  ASSUME IInv, Plain(src_), Reading, UNCHANGED src_, phase \in Loops, NEW t, Stay(t),
         Begin(t) = Begin(tok), t.line = tok.line, t.col = tok.col,
         LoopRead(phase, src_, t, Begin(tok), read_pos'), Where(phase, src_, line', col', read_pos')
  PROVE  Reading'
<1>1. InWork(phase, src_, tokens_, t, read_pos')
  BY WorkIs DEF InWork
<1>2. phase' = phase /\ tok' = t /\ tokens_' = tokens_
  BY DEF Stay
<1> QED BY <1>1, <1>2, WorksRead

\* A token is done, n characters long with its signs.
LEMMA DoneRead ==
  ASSUME IInv, Plain(src_), Reading, UNCHANGED src_, phase \in Loops, Deliver(tok), NEW n \in Nat,
         NEW type, Lexeme(type, n) \in LongestAt(src_, Begin(tok)), IsToken(tok, Lexeme(type, n)),
         read_pos' = Begin(tok) + n, Placed(src_, line', col', read_pos')
  PROVE  Reading'
<1>1. /\ Reaches(src_, tokens_, Len(tokens_), Begin(tok)) /\ Placed(src_, tok.line, tok.col, Begin(tok))
      /\ Begin(tok) \in 1..Len(src_) /\ Len(src_) \in Nat
  BY WorkIs
<1>2. Lexeme(type, n).n = n
  BY LexemeIs
<1>3. Begin(tok) + n \in Nat \ {0}
  BY <1>1
<1> QED BY <1>1, <1>2, <1>3, DeliversRead

\* A remark or a string that the text does not close.
LEMMA UnclosedRead ==
  ASSUME IInv, Plain(src_), Reading, UNCHANGED src_, phase \in Loops, Fail,
         LET p == Begin(tok) IN
           \/ Spelt(src_, "/*", p) /\ \A q \in p + 2..Len(src_) : ~Spelt(src_, "*/", q)
           \/ Spelt(src_, "//", p) /\ \A q \in p + 2..Len(src_) : src_[q] # "\n"
           \/ src_[p] = QUOTE /\ \A q \in p + 1..Len(src_) : src_[q] # QUOTE
  PROVE  Reading'
<1>1. Begin(tok) \in 1..Len(src_) /\ Len(src_) \in Nat /\ Reaches(src_, tokens_, Len(tokens_), Begin(tok))
  BY WorkIs
<1>2. LexemesAt(src_, Begin(tok)) = {}
  BY <1>1, Unclosed
<1> QED BY <1>1, <1>2, FailsRead

\* The loop of "/*" on its way.
LEMMA StarRemarkRead ==
  ASSUME IInv, Plain(src_), Reading, UNCHANGED src_, StarRemarkOn \/ StarRemarkLine \/ StarRemarkEof \/ StarRemarkEnd
  PROVE  Reading'
<1> DEFINE p == Begin(tok)
<1>1. phase = "star" /\ phase \in Loops
  BY DEF StarRemarkOn, StarRemarkLine, StarRemarkEof, StarRemarkEnd, Loops
<1>2. /\ Len(src_) \in Nat /\ read_pos \in 1..Len(src_) + 1 /\ line \in Int /\ col \in Int
      /\ Placed(src_, line, col, read_pos) /\ p \in 1..Len(src_)
      /\ InWork(phase, src_, tokens_, tok, read_pos)
  BY <1>1, WorkIs DEF Where
<1>3. StarRead(src_, tok, p, read_pos)
  BY <1>1, <1>2 DEF InWork, LoopRead
<1> HIDE DEF p
<1>4. /\ tok.type = "TokStarRemark" /\ tok.len = Garbage
      /\ Spelt(src_, "/*", p) /\ p + 2 <= read_pos
      /\ \A i \in p + 2..read_pos - 1 : ~Spelt(src_, "*/", i)
  BY <1>3 DEF StarRead
<1>5. /\ Next1 # NUL => read_pos \in 1..Len(src_) /\ Next1 = src_[read_pos]
      /\ Next1 = NUL => read_pos = Len(src_) + 1
  BY AtIs
<1>6. ASSUME NEW q \in read_pos..read_pos + 2, \A i \in read_pos..q - 1 : ~Spelt(src_, "*/", i), Stay(tok),
             read_pos' = q, Placed(src_, line', col', q)
      PROVE  Reading'
  <2>1. \A i \in p + 2..q - 1 : i \in p + 2..read_pos - 1 \/ i \in read_pos..q - 1
    BY <1>2
  <2>2. p + 2 <= q
    BY <1>2, <1>4, <1>6
  <2>3. StarRead(src_, tok, p, q)
    BY <1>4, <1>6, <2>1, <2>2 DEF StarRead
  <2>4. LoopRead(phase, src_, tok, Begin(tok), read_pos')
    BY <1>1, <1>6, <2>3 DEF LoopRead, p
  <2> QED BY <1>1, <1>6, <2>4, GoesOnRead DEF Where
<1>7. ASSUME Fail, \A i \in read_pos..Len(src_) : ~Spelt(src_, "*/", i) PROVE Reading'
  <2>1. \A q \in p + 2..Len(src_) : q \in p + 2..read_pos - 1 \/ q \in read_pos..Len(src_)
    BY <1>2
  <2>2. \A q \in p + 2..Len(src_) : ~Spelt(src_, "*/", q)
    BY <1>4, <1>7, <2>1
  <2>3. Spelt(src_, "/*", Begin(tok)) /\ \A q \in Begin(tok) + 2..Len(src_) : ~Spelt(src_, "*/", q)
    BY <1>4, <2>2 DEF p
  <2> QED BY <1>1, <1>7, <2>3, UnclosedRead
<1>8. CASE StarRemarkOn
  <2>1. Next1 # "\n" /\ Next1 # NUL /\ ~StartsWith("*/") /\ Move(1) /\ Stay(tok)
    BY <1>8 DEF StarRemarkOn
  <2>2. ~Spelt(src_, "*/", read_pos)
    BY <2>1, RemarkAt
  <2>3. \A q \in read_pos..read_pos + 1 - 1 : src_[q] # "\n"
    BY <1>2, <1>5, <2>1
  <2>4. read_pos' = read_pos + 1 /\ Placed(src_, line', col', read_pos')
    BY <1>2, <2>1, <2>3, MoveRead
  <2> DEFINE q == read_pos + 1
  <2>5. q \in read_pos..read_pos + 2 /\ \A i \in read_pos..q - 1 : ~Spelt(src_, "*/", i)
    BY <1>2, <2>2
  <2>6. read_pos' = q /\ Placed(src_, line', col', q)
    BY <2>4
  <2> HIDE DEF q
  <2> QED BY <1>6, <2>1, <2>5, <2>6
<1>9. CASE StarRemarkLine
  <2>1. read_pos \in 1..Len(src_) /\ src_[read_pos] = "\n"
    BY <1>5, <1>9, ClassesApart DEF StarRemarkLine
  <2>2. ~Spelt(src_, "*/", read_pos)
    BY <1>2, <2>1, SpeltSigns
  <2>3. CASE Char(read_pos + 1) = NUL
    <3>1. Fail
      BY <1>9, <2>3 DEF StarRemarkLine
    <3>2. read_pos + 1 \in Nat \ {0}
      BY <1>2
    <3>3. read_pos + 1 > Len(src_)
      BY <1>2, <2>3, <3>2, CharIs
    <3>4. \A i \in read_pos..Len(src_) : i = read_pos
      BY <1>2, <3>3
    <3> QED BY <1>7, <2>2, <3>1, <3>4
  <2>4. CASE Char(read_pos + 1) # NUL
    <3>1. read_pos' = read_pos + 2 /\ line' = line + 1 /\ col' = 2 /\ Stay(tok)
      BY <1>9, <2>4 DEF StarRemarkLine, NewLine
    <3>2. ~Spelt(src_, "*/", read_pos + 1)
      BY <2>1 DEF Plain
    <3> DEFINE q == read_pos + 2
    <3>3. q \in read_pos..read_pos + 2 /\ \A i \in read_pos..q - 1 : i = read_pos \/ i = read_pos + 1
      BY <1>2
    <3>4. p \in 1..read_pos - 1
      BY <1>2, <1>4
    <3>5. Placed(src_, line + 1, 2, read_pos + 2)
      BY <1>2, <1>4, <2>1, <3>4, PlacedSkip DEF Placed
    <3>6. read_pos' = q /\ Placed(src_, line', col', q)
      BY <3>1, <3>5
    <3> HIDE DEF q
    <3>7. \A i \in read_pos..q - 1 : ~Spelt(src_, "*/", i)
      BY <2>2, <3>2, <3>3
    <3> QED BY <1>6, <3>1, <3>3, <3>6, <3>7
  <2> QED BY <2>3, <2>4
<1>10. CASE StarRemarkEof
  <2>1. Fail /\ read_pos = Len(src_) + 1
    BY <1>5, <1>10 DEF StarRemarkEof
  <2>2. \A i \in read_pos..Len(src_) : FALSE
    BY <1>2, <2>1
  <2> QED BY <1>7, <2>1, <2>2
<1>11. CASE StarRemarkEnd
  <2> DEFINE n == (read_pos + 2) - p
  <2>1. Spelt(src_, "*/", read_pos) /\ Deliver(tok) /\ Move(2)
    BY <1>11, RemarkAt DEF StarRemarkEnd
  <2>2. read_pos + 1 <= Len(src_) /\ src_[read_pos] = "*" /\ src_[read_pos + 1] = "/"
    BY <1>2, <2>1, SpeltSigns
  <2>3. n \in 4..Len(src_) + 1 - p /\ p + n - 2 = read_pos /\ p + n - 3 = read_pos - 1 /\ p + n = read_pos + 2 /\ n \in Nat
    BY <1>2, <1>4, <2>2
  <2> HIDE DEF n
  <2>4. Lexeme("TokStarRemark", n) \in LongestAt(src_, p)
    BY <1>2, <1>4, <2>1, <2>3, StarLongest
  <2>5. IsToken(tok, Lexeme("TokStarRemark", n))
    BY <1>4, LexemeIs DEF IsToken
  <2>6. \A q \in read_pos..read_pos + 2 - 1 : q = read_pos \/ q = read_pos + 1
    BY <1>2
  <2>7. \A q \in read_pos..read_pos + 2 - 1 : src_[q] # "\n"
    BY <2>2, <2>6, ClassesApart
  <2>8. read_pos' = read_pos + 2 /\ Placed(src_, line', col', read_pos')
    BY <1>2, <2>1, <2>7, MoveRead
  <2>9. read_pos' = Begin(tok) + n /\ Lexeme("TokStarRemark", n) \in LongestAt(src_, Begin(tok))
    BY <2>3, <2>4, <2>8 DEF p
  <2> QED BY <1>1, <2>1, <2>3, <2>5, <2>8, <2>9, DoneRead
<1> QED BY <1>8, <1>9, <1>10, <1>11

\* The loop of "//" on its way.
LEMMA LineRemarkRead ==
  ASSUME IInv, Plain(src_), Reading, UNCHANGED src_, LineRemarkOn \/ LineRemarkEof \/ LineRemarkEnd
  PROVE  Reading'
<1> DEFINE p == Begin(tok)
<1>1. phase = "line" /\ phase \in Loops
  BY DEF LineRemarkOn, LineRemarkEof, LineRemarkEnd, Loops
<1>2. /\ Len(src_) \in Nat /\ read_pos \in 1..Len(src_) + 1 /\ line \in Int /\ col \in Int
      /\ Placed(src_, line, col, read_pos) /\ p \in 1..Len(src_) /\ tok \in TokenRecord
      /\ InWork(phase, src_, tokens_, tok, read_pos)
  BY <1>1, WorkIs DEF Where
<1>3. LineRead(src_, tok, p, read_pos)
  BY <1>1, <1>2 DEF InWork, LoopRead
<1> HIDE DEF p
<1>4. /\ tok.type = "TokLineRemark" /\ tok.len = read_pos - p
      /\ Spelt(src_, "//", p) /\ p + 2 <= read_pos
      /\ \A i \in p + 2..read_pos - 1 : src_[i] # "\n"
  BY <1>3 DEF LineRead
<1>5. /\ Next1 # NUL => read_pos \in 1..Len(src_) /\ Next1 = src_[read_pos]
      /\ Next1 = NUL => read_pos = Len(src_) + 1
  BY AtIs
<1>6. CASE LineRemarkOn
  <2> DEFINE u == [tok EXCEPT !.len = @ + 1]
  <2>1. Next1 # "\n" /\ Next1 # NUL /\ Move(1) /\ Stay(u)
    BY <1>6 DEF LineRemarkOn
  <2>2. u.type = tok.type /\ u.line = tok.line /\ u.col = tok.col /\ u.len = tok.len + 1 /\ Begin(u) = Begin(tok)
    BY <1>2, LongerIs
  <2> HIDE DEF u
  <2>3. \A q \in read_pos..read_pos + 1 - 1 : src_[q] # "\n"
    BY <1>2, <1>5, <2>1
  <2>4. read_pos' = read_pos + 1 /\ Placed(src_, line', col', read_pos')
    BY <1>2, <2>1, <2>3, MoveRead
  <2>5. u.len = (read_pos + 1) - p /\ p + 2 <= read_pos + 1
    BY <1>2, <1>4, <2>2
  <2>6. \A i \in p + 2..(read_pos + 1) - 1 : src_[i] # "\n"
    BY <1>2, <1>4, <1>5, <2>1
  <2>7. LineRead(src_, u, p, read_pos + 1)
    BY <1>4, <2>2, <2>5, <2>6 DEF LineRead
  <2>8. LoopRead(phase, src_, u, Begin(tok), read_pos')
    BY <1>1, <2>4, <2>7 DEF LoopRead, p
  <2> QED BY <1>1, <2>1, <2>2, <2>4, <2>8, GoesOnRead DEF Where
<1>7. CASE LineRemarkEof
  <2>1. Fail /\ read_pos = Len(src_) + 1
    BY <1>5, <1>7 DEF LineRemarkEof
  <2>2. \A q \in p + 2..Len(src_) : src_[q] # "\n"
    BY <1>2, <1>4, <2>1
  <2>3. Spelt(src_, "//", Begin(tok)) /\ \A q \in Begin(tok) + 2..Len(src_) : src_[q] # "\n"
    BY <1>4, <2>2 DEF p
  <2> QED BY <1>1, <2>1, <2>3, UnclosedRead
<1>8. CASE LineRemarkEnd
  <2> DEFINE n == (read_pos + 1) - p
  <2>1. read_pos \in 1..Len(src_) /\ src_[read_pos] = "\n" /\ Deliver(tok)
    BY <1>5, <1>8, ClassesApart DEF LineRemarkEnd
  <2>2. read_pos' = read_pos + 1 /\ line' = line + 1 /\ col' = 1
    BY <1>8 DEF LineRemarkEnd, NewLine
  <2>3. n \in 3..Len(src_) + 1 - p /\ p + n - 1 = read_pos /\ p + n - 2 = read_pos - 1 /\ p + n = read_pos + 1 /\ n \in Nat
    BY <1>2, <1>4, <2>1
  <2>4. tok.len = n - 1
    BY <1>2, <1>4
  <2> HIDE DEF n
  <2>5. Lexeme("TokLineRemark", n) \in LongestAt(src_, p)
    BY <1>2, <1>4, <2>1, <2>3, LineLongest
  <2>6. IsToken(tok, Lexeme("TokLineRemark", n))
    BY <1>4, <2>4, LexemeIs DEF IsToken
  <2>7. Placed(src_, line + 1, 1, read_pos + 1)
    BY <1>2, <2>1, PlacedLine DEF Placed
  <2>8. read_pos' = Begin(tok) + n /\ Lexeme("TokLineRemark", n) \in LongestAt(src_, Begin(tok))
    BY <2>2, <2>3, <2>5 DEF p
  <2> QED BY <1>1, <2>1, <2>2, <2>3, <2>6, <2>7, <2>8, DoneRead
<1> QED BY <1>6, <1>7, <1>8

\* A string is begun.
LEMMA StringBegunRead ==
  ASSUME IInv, Plain(src_), Reading, UNCHANGED src_, StringLiteral
  PROVE  Reading'
<1> DEFINE t == Token("TokStringLiteral", read_pos + 1, 0)
<1>1. AtToken /\ Len(src_) \in Nat /\ read_pos \in 1..Len(src_) /\ phase = "token" /\ src_[read_pos] = QUOTE
  BY TokenAt DEF StringLiteral, Other, NoRemark, Unmatched
<1>2. read_pos' = read_pos + 1 /\ line' = line /\ col' = col /\ Enter("string", t) /\ "string" \in Loops
  BY DEF StringLiteral, Loops
<1>3. t.type = "TokStringLiteral" /\ t.c = read_pos + 1 /\ t.line = line /\ t.col = col /\ t.len = 0
  BY TokenIs
<1> HIDE DEF t
<1>4. Begin(t) = read_pos
  BY <1>1, <1>3 DEF Begin, Opening
<1>5. Placed(src_, line, col, read_pos) /\ line \in Int /\ col \in Int /\ read_pos \in Nat \ {0}
  BY <1>1 DEF Reading, Where, IInv, PositionOK
<1>6. \A q \in read_pos..read_pos + 1 - 1 : src_[q] # "\n"
  <2>1. \A q \in read_pos..read_pos + 1 - 1 : q = read_pos
    BY <1>1
  <2> QED BY <1>1, <2>1, ClassesApart
<1>7. Lined(src_, line, read_pos + 1)
  BY <1>5, <1>6, LinedOn DEF Placed
<1>8. Where("string", src_, line', col', read_pos')
  BY <1>2, <1>7 DEF Where
<1>9. StringRead(src_, t, read_pos, read_pos + 1)
  BY <1>1, <1>3 DEF StringRead
<1>10. LoopRead("string", src_, t, read_pos, read_pos')
  BY <1>2, <1>9 DEF LoopRead
<1> QED BY <1>1, <1>2, <1>3, <1>4, <1>8, <1>10, EntersRead

\* The loop of a string on its way.
LEMMA StringOnRead ==
  ASSUME IInv, Plain(src_), Reading, UNCHANGED src_, StringLiteralOn \/ StringLiteralEof \/ StringLiteralEnd
  PROVE  Reading'
<1> DEFINE p == Begin(tok)
<1>1. phase = "string" /\ phase \in Loops
  BY DEF StringLiteralOn, StringLiteralEof, StringLiteralEnd, Loops
<1>2. /\ Len(src_) \in Nat /\ read_pos \in 1..Len(src_) + 1 /\ line \in Int /\ col \in Int
      /\ Lined(src_, line, read_pos) /\ p \in 1..Len(src_) /\ tok \in TokenRecord
      /\ InWork(phase, src_, tokens_, tok, read_pos)
  BY <1>1, WorkIs DEF Where
<1>3. StringRead(src_, tok, p, read_pos)
  BY <1>1, <1>2 DEF InWork, LoopRead
<1> HIDE DEF p
<1>4. /\ tok.type = "TokStringLiteral" /\ tok.len = read_pos - (p + 1)
      /\ src_[p] = QUOTE /\ p + 1 <= read_pos
      /\ \A i \in p + 1..read_pos - 1 : src_[i] # QUOTE
  BY <1>3 DEF StringRead
<1>5. /\ Next1 # NUL => read_pos \in 1..Len(src_) /\ Next1 = src_[read_pos]
      /\ Next1 = NUL => read_pos = Len(src_) + 1
  BY AtIs
<1>6. ASSUME src_[read_pos] # "\n" PROVE Lined(src_, line, read_pos + 1)
  <2>1. \A q \in read_pos..read_pos + 1 - 1 : src_[q] # "\n"
    BY <1>2, <1>6
  <2>2. read_pos \in Nat \ {0}
    BY <1>2
  <2> QED BY <1>2, <2>1, <2>2, LinedOn
<1>7. CASE StringLiteralOn
  <2> DEFINE u == [tok EXCEPT !.len = @ + 1]
  <2>1. Next1 # QUOTE /\ Next1 # NUL /\ Stay(u)
    BY <1>7 DEF StringLiteralOn
  <2>2. u.type = tok.type /\ u.line = tok.line /\ u.col = tok.col /\ u.len = tok.len + 1 /\ Begin(u) = Begin(tok)
    BY <1>2, LongerIs
  <2> HIDE DEF u
  <2>3. read_pos' = read_pos + 1 /\ Lined(src_, line', read_pos + 1)
    <3>1. CASE Next1 = "\n"
      <4>1. read_pos' = read_pos + 1 /\ line' = line + 1
        BY <1>7, <3>1 DEF StringLiteralOn, NewLine
      <4>2. Placed(src_, line + 1, 1, read_pos + 1)
        BY <1>2, <1>5, <2>1, <3>1, PlacedLine
      <4> QED BY <4>1, <4>2 DEF Placed
    <3>2. CASE Next1 # "\n"
      <4>1. read_pos' = read_pos + 1 /\ line' = line
        BY <1>7, <3>2 DEF StringLiteralOn, Move
      <4> QED BY <1>5, <1>6, <2>1, <3>2, <4>1
    <3> QED BY <3>1, <3>2
  <2>4. u.len = (read_pos + 1) - (p + 1) /\ p + 1 <= read_pos + 1
    BY <1>2, <1>4, <2>2
  <2>5. \A i \in p + 1..(read_pos + 1) - 1 : src_[i] # QUOTE
    BY <1>2, <1>4, <1>5, <2>1
  <2>6. StringRead(src_, u, p, read_pos + 1)
    BY <1>4, <2>2, <2>4, <2>5 DEF StringRead
  <2>7. LoopRead(phase, src_, u, Begin(tok), read_pos')
    BY <1>1, <2>3, <2>6 DEF LoopRead, p
  <2> QED BY <1>1, <2>1, <2>2, <2>3, <2>7, GoesOnRead DEF Where
<1>8. CASE StringLiteralEof
  <2>1. Fail /\ read_pos = Len(src_) + 1
    BY <1>5, <1>8 DEF StringLiteralEof
  <2>2. \A q \in p + 1..Len(src_) : src_[q] # QUOTE
    BY <1>2, <1>4, <2>1
  <2>3. src_[Begin(tok)] = QUOTE /\ \A q \in Begin(tok) + 1..Len(src_) : src_[q] # QUOTE
    BY <1>4, <2>2 DEF p
  <2> QED BY <1>1, <2>1, <2>3, UnclosedRead
<1>9. CASE StringLiteralEnd
  <2> DEFINE n == (read_pos + 1) - p
  <2>1. read_pos \in 1..Len(src_) /\ src_[read_pos] = QUOTE /\ Deliver(tok)
    BY <1>5, <1>9, ClassesApart DEF StringLiteralEnd
  <2>2. read_pos' = read_pos + 1 /\ line' = line /\ col' = col
    BY <1>9 DEF StringLiteralEnd
  <2>3. n \in 2..Len(src_) + 1 - p /\ p + n - 1 = read_pos /\ p + n - 2 = read_pos - 1 /\ p + n = read_pos + 1 /\ n \in Nat
    BY <1>2, <1>4, <2>1
  <2>4. tok.len = n - 2
    BY <1>2, <1>4
  <2> HIDE DEF n
  <2>5. Lexeme("TokStringLiteral", n) \in LongestAt(src_, p)
    BY <1>2, <1>4, <2>1, <2>3, StringLongest
  <2>6. Opening(tok) = 1
    BY <1>4 DEF Opening
  <2>7. IsToken(tok, Lexeme("TokStringLiteral", n))
    BY <1>4, <2>4, <2>6, LexemeIs DEF IsToken
  <2>8. Placed(src_, line', col', read_pos + 1)
    <3>1. Lined(src_, line, read_pos + 1)
      BY <1>6, <2>1, ClassesApart
    <3>2. read_pos \in 1..(read_pos + 1) - 1 /\ read_pos + 1 \in Nat /\ \A j \in read_pos + 1..(read_pos + 1) - 1 : FALSE
      BY <2>1
    <3> QED BY <2>1, <2>2, <3>1, <3>2, PlacedQuoted
  <2>9. read_pos' = Begin(tok) + n /\ Lexeme("TokStringLiteral", n) \in LongestAt(src_, Begin(tok))
    BY <2>2, <2>3, <2>5 DEF p
  <2> QED BY <1>1, <2>1, <2>2, <2>3, <2>7, <2>8, <2>9, DoneRead
<1> QED BY <1>7, <1>8, <1>9

\* A word is begun: there is a word character, and no keyword.
LEMMA WordBegunRead ==
  ASSUME IInv, Plain(src_), Reading, UNCHANGED src_, NumberOrIdentifier
  PROVE  Reading'
<1> DEFINE type == IF Char(read_pos) \in isNumber THEN "TokIntegerLiteral" ELSE "TokIdentifier"
           t == [Token(type, read_pos, 0) EXCEPT !.col = col + 0]
<1>1. Other /\ Unmatched /\ AtToken /\ Next1 # QUOTE /\ Word(read_pos, 0)
  BY DEF NumberOrIdentifier, Other, NoRemark, Unmatched
<1>2. /\ Len(src_) \in Nat /\ read_pos \in 1..Len(src_) /\ phase = "token" /\ Next1 = src_[read_pos]
      /\ src_[read_pos] \in isWord \cup Signs \cup {QUOTE}
  BY <1>1, TokenAt
<1>3. src_[read_pos] \in isWord
  BY <1>1, <1>2, NoOperator
<1>4. NoKeywordAt(src_, read_pos)
  BY <1>1, NoKeyword
<1>5. Placed(src_, line, col, read_pos) /\ line \in Int /\ col \in Int
  BY <1>2 DEF Reading, Where, IInv, PositionOK
<1>6. Enter("word", t) /\ read_pos' = read_pos /\ line' = line /\ col' = col /\ "word" \in Loops
  BY <1>1, <1>5 DEF Word, Loops
<1>7. type = WordType(src_[read_pos]) /\ type # "TokStringLiteral"
  BY <1>2 DEF WordType, Next1
<1> HIDE DEF type
<1>8. t.type = type /\ t.c = read_pos /\ t.len = 0 /\ t.line = line /\ t.col = col
  BY <1>5 DEF Token
<1> HIDE DEF t
<1>9. Begin(t) = read_pos
  BY <1>2, <1>7, <1>8 DEF Begin, Opening
<1>10. WordRead(src_, t, read_pos, read_pos)
  BY <1>2, <1>3, <1>4, <1>7, <1>8 DEF WordRead
<1>11. LoopRead("word", src_, t, read_pos, read_pos')
  BY <1>6, <1>10 DEF LoopRead
<1>12. Placed(src_, line', col', read_pos')
  BY <1>5, <1>6
<1> QED BY <1>2, <1>6, <1>8, <1>9, <1>11, <1>12, EntersRead DEF Where

\* The loop of a word on its way.
LEMMA WordOnRead ==
  ASSUME IInv, Plain(src_), Reading, UNCHANGED src_, WordOn \/ WordEnd
  PROVE  Reading'
<1> DEFINE p == Begin(tok)
<1>1. phase = "word" /\ phase \in Loops
  BY DEF WordOn, WordEnd, Loops
<1>2. /\ Len(src_) \in Nat /\ read_pos \in 1..Len(src_) + 1 /\ line \in Int /\ col \in Int
      /\ Placed(src_, line, col, read_pos) /\ p \in 1..Len(src_) /\ tok \in TokenRecord
      /\ InWork(phase, src_, tokens_, tok, read_pos)
  BY <1>1, WorkIs DEF Where
<1>3. WordRead(src_, tok, p, read_pos)
  BY <1>1, <1>2 DEF InWork, LoopRead
<1> HIDE DEF p
<1>4. /\ tok.type = WordType(src_[p]) /\ tok.len = read_pos - p /\ p <= read_pos
      /\ src_[p] \in isWord /\ NoKeywordAt(src_, p)
      /\ \A i \in p..read_pos - 1 : src_[i] \in isWord
  BY <1>3 DEF WordRead
<1>5. Next1 # NUL => read_pos \in 1..Len(src_) /\ Next1 = src_[read_pos]
  BY AtIs
<1>6. CASE WordOn
  <2> DEFINE u == [tok EXCEPT !.len = @ + 1]
  <2>1. Next1 \in isWord /\ Move(1) /\ Stay(u)
    BY <1>6 DEF WordOn
  <2>2. u.type = tok.type /\ u.line = tok.line /\ u.col = tok.col /\ u.len = tok.len + 1 /\ Begin(u) = Begin(tok)
    BY <1>2, LongerIs
  <2> HIDE DEF u
  <2>3. src_[read_pos] \in isWord /\ src_[read_pos] # "\n"
    BY <1>5, <2>1, ClassesApart
  <2>4. \A q \in read_pos..read_pos + 1 - 1 : src_[q] # "\n"
    BY <1>2, <2>3
  <2>5. read_pos' = read_pos + 1 /\ Placed(src_, line', col', read_pos')
    BY <1>2, <2>1, <2>4, MoveRead
  <2>6. u.len = (read_pos + 1) - p /\ p <= read_pos + 1
    BY <1>2, <1>4, <2>2
  <2>7. \A i \in p..(read_pos + 1) - 1 : src_[i] \in isWord
    BY <1>2, <1>4, <2>3
  <2>8. WordRead(src_, u, p, read_pos + 1)
    BY <1>4, <2>2, <2>6, <2>7 DEF WordRead
  <2>9. LoopRead(phase, src_, u, Begin(tok), read_pos')
    BY <1>1, <2>5, <2>8 DEF LoopRead, p
  <2> QED BY <1>1, <2>1, <2>2, <2>5, <2>9, GoesOnRead DEF Where
<1>7. CASE WordEnd
  <2> DEFINE n == read_pos - p
             type == WordType(src_[p])
  <2>1. Next1 \notin isWord /\ Deliver(tok) /\ read_pos' = read_pos /\ line' = line /\ col' = col
    BY <1>7 DEF WordEnd, position
  <2>2. EndsAt(src_, read_pos)
    <3>1. read_pos \in Nat \ {0}
      BY <1>2
    <3> QED BY <1>2, <2>1, <3>1, EndsIs DEF Next1
  <2>3. read_pos # p
    BY <1>2, <1>4, <2>2 DEF EndsAt
  <2>4. n \in 1..Len(src_) + 1 - p /\ p + n - 1 = read_pos - 1 /\ p + n = read_pos /\ n \in Nat /\ n - 0 = n
    BY <1>2, <1>4, <2>3
  <2>5. tok.len = n
    BY <1>4
  <2>6. type \notin {"TokStringLiteral", "TokStarRemark", "TokLineRemark"} /\ type = tok.type
    BY <1>4 DEF WordType
  <2> HIDE DEF n
  <2>7. Lexeme(type, n) \in LongestAt(src_, p)
    BY <1>2, <1>4, <2>2, <2>4, WordLongest
  <2> HIDE DEF type
  <2>8. Opening(tok) = 0
    BY <2>6 DEF Opening
  <2>9. IsToken(tok, Lexeme(type, n))
    BY <2>4, <2>5, <2>6, <2>8, LexemeIs DEF IsToken
  <2>10. Placed(src_, line', col', read_pos')
    BY <1>2, <2>1
  <2>11. read_pos' = Begin(tok) + n /\ Lexeme(type, n) \in LongestAt(src_, Begin(tok))
    BY <2>1, <2>4, <2>7 DEF p
  <2> QED BY <1>1, <2>1, <2>4, <2>9, <2>10, <2>11, DoneRead
<1> QED BY <1>6, <1>7

\* A plain text has no character literals.
LEMMA NoCharactorLiteral ==
  ASSUME IInv, Plain(src_), CharactorLiteral \/ CharactorLiteralWrong \/ CharactorLiteralEof
  PROVE  FALSE
<1>1. AtToken /\ Next1 = "'"
  BY DEF CharactorLiteral, CharactorLiteralWrong, CharactorLiteralEof, Other, NoRemark, Unmatched
<1>2. read_pos \in 1..Len(src_) /\ Next1 = src_[read_pos]
  BY <1>1, TokenAt
<1> QED BY <1>1, <1>2, PlainIs

\* The text is read from its first character.
LEMMA InitRead == Init => RInv
<1> SUFFICES ASSUME Init PROVE Reading
  BY DEF RInv
<1>1. phase = "token" /\ tokens_ = <<>> /\ Len(tokens_) = 0 /\ read_pos = 1 /\ line = 1 /\ col = 1
  BY DEF Init
<1>2. Placed(src_, line, col, read_pos)
  BY <1>1, PlacedFirst
<1>3. Reaches(src_, tokens_, Len(tokens_), read_pos)
  BY <1>1 DEF Reaches, Gap
<1>4. AllRead(src_, tokens_)
  BY <1>1 DEF AllRead
<1> QED BY <1>1, <1>2, <1>3, <1>4 DEF Reading, Loops, Where

\* Every step reads on, and so does none.
LEMMA StepRead == IInv /\ RInv /\ [Next]_vars => RInv'
<1> SUFFICES ASSUME IInv, RInv, [Next]_vars, Plain(src_') PROVE Reading'
  BY DEF RInv
<1>1. src_' = src_
  BY DEF Next, vars
<1>2. Plain(src_) /\ Reading
  BY <1>1 DEF RInv
<1>3. CASE Next
  <2>1. Step
    BY <1>3 DEF Next
  <2> QED BY <1>1, <1>2, <2>1, BlanksRead, EndOfFileRead, MakeKeywordRead, MakeOperatorRead, RemarkRead, StarRemarkRead,
             LineRemarkRead, StringBegunRead, StringOnRead, WordBegunRead, WordOnRead, NoCharactorLiteral
          DEF Step
<1>4. CASE UNCHANGED vars
  <2>1. UNCHANGED <<src_, read_pos, line, col, tok, tokens_, phase>>
    BY <1>4 DEF vars, position
  <2> QED BY <1>2, <2>1 DEF Reading
<1> QED BY <1>3, <1>4

\* What is read of a plain text is what it spells.
LEMMA ReadLongest == IInv /\ RInv => SpellsLongest
<1> SUFFICES ASSUME IInv, Reading
             PROVE  /\ phase # "lost"
                    /\ \A k \in DOMAIN tokens_ : IsRead(src_, tokens_, k)
                    /\ phase = "ok" => tokens_[Len(tokens_)].c = Len(src_) + 1
                    /\ phase = "error" => IsRefused(src_, tokens_)
  BY DEF RInv, SpellsLongest
<1>1. DOMAIN tokens_ = 1..Len(tokens_)
  BY DEF IInv, TokensOK
<1> QED BY <1>1 DEF Reading, AllRead

-----------------------------------------------------------------------------
(* The theorems                                                             *)

\* Every step keeps the invariant, and so does none.
LEMMA StepOK == IInv /\ [Next]_vars => IInv'
<1> SUFFICES ASSUME IInv, [Next]_vars PROVE IInv'
  OBVIOUS
<1>1. CASE Next
  <2>1. UNCHANGED src_ /\ Step
    BY <1>1 DEF Next
  <2> QED BY <2>1, BlanksOK, EndOfFileOK, MakeFixedOK, RemarkOK, RemarkOnOK, RemarkEndOK, RefusedOK, StringOK, WordOK, WordOnOK
          DEF Step
<1>2. CASE UNCHANGED vars
  <2>1. UNCHANGED <<src_, read_pos, line, col, tok, tokens_, phase>>
    BY <1>2 DEF vars, position
  <2> QED BY <2>1 DEF IInv, PositionOK, TokensOK, PhaseOK, Before, Within, End
<1> QED BY <1>1, <1>2

\* The invariant holds of every scan.
LEMMA Invariant == Spec => []IInv
BY InitOK, StepOK, PTL DEF Spec

\* And so does what it reads of a plain text.
LEMMA InvariantRead == Spec => []RInv
BY Invariant, InitRead, StepRead, PTL DEF Spec

\* The cursor is never behind the terminator of the source, on whatever text.
THEOREM TypeCorrect == Spec => []TypeOK
BY Invariant, Implied, PTL

\* On whatever text, the tokens lie one behind the other within it, no character
\* in two of them, and a stream that is handed on ends with its one TokEof: what
\* the rule engine assumes of it.
THEOREM StreamSound == Spec => []StreamOK
BY Invariant, Implied, PTL

\* Of every plain text, in which no letter A or B, character literal or "switch" is,
\* nor a remark that ends right behind a line end, the scanner makes the tokens the
\* language has there: each is a longest lexeme where the one before has ended, in
\* its line and column, up to the end of the text; it refuses a text only where a
\* remark or a string is open.
THEOREM LongestSound == Spec => []SpellsLongest
BY Invariant, InvariantRead, ReadLongest, PTL
=============================================================================
