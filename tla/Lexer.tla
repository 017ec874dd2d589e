------------------------------- MODULE Lexer -------------------------------
(***************************************************************************)
(* Tokenizer::CompileTokens of src/src/Lexer.cpp: the characters of a      *)
(* source become tokens.  A token that MakeToken makes without a loop is   *)
(* one step, a loop of it one step for every round.                        *)
(*                                                                         *)
(* A token is [type, line, col, len, c]: c is the position of its first    *)
(* character, and its text is the len characters from there.               *)
(***************************************************************************)
EXTENDS Lexemes

CONSTANTS
  Sources,    \* the texts to be read, sequences of characters
  MaxTokens   \* bound: tokens made before a reader that goes nowhere is given up

ASSUME SourcesAssumption == \A s \in Sources : s \in Seq(STRING)
ASSUME MaxTokensAssumption == MaxTokens \in Nat

VARIABLES
  src_,
  read_pos, line, col,
  tok,        \* the token MakeToken works on
  tokens_,
  phase       \* "token", or the loop it is in; how CompileTokens has ended

position == <<read_pos, line, col>>
vars == <<src_, position, tok, tokens_, phase>>

Loops == {"star", "line", "string", "word"}
Ended == {"ok", "error", "lost"}

NoToken == [type |-> "TokUnknown", line |-> 0, col |-> 0, len |-> 0, c |-> 0]

Init ==
  /\ src_ \in Sources
  /\ read_pos = 1 /\ line = 1 /\ col = 1
  /\ tok = NoToken /\ tokens_ = <<>>
  /\ phase = "token"

-----------------------------------------------------------------------------
(* Characters                                                               *)

Char(p) == IF p <= Len(src_) THEN src_[p] ELSE NUL
Next1 == Char(read_pos)

\* The lengths of the table are written beside the texts.
Length(text) == IF text = "switch" THEN 5 ELSE Len(text)

StartsWith(text) ==
  /\ read_pos + Length(text) <= Len(src_) + 1
  /\ \A i \in 1..Length(text) : src_[read_pos + i - 1] = Chars(text)[i]

\* The entry that is tried first, as a set of no or one index.
First(entries) == {i \in entries : \A j \in entries : i <= j}

KeywordEndsTight(text) == Char(read_pos + Length(text)) \notin UpAlpha \cup LowAlpha

KeywordEnds(text) == Char(read_pos + Length(text)) \notin isWord

Keyword == First({i \in DOMAIN Keywords : StartsWith(Keywords[i][1]) /\ KeywordEnds(Keywords[i][1])})

OperatorHits == {i \in DOMAIN Operators : StartsWith(Operators[i][1])}
OperatorShort == {i \in OperatorHits : \A j \in OperatorHits : j <= i}
Operator == First(OperatorHits)

-----------------------------------------------------------------------------
(* MakeToken                                                                *)

Token(type, c, len) == [type |-> type, line |-> line, col |-> col, len |-> len, c |-> c]

Move(n) == read_pos' = read_pos + n /\ col' = col + n /\ UNCHANGED line
NewLine(n) == read_pos' = read_pos + n /\ line' = line + 1

Deliver(t) ==
  /\ Len(tokens_) < MaxTokens
  /\ tokens_' = Append(tokens_, t) /\ tok' = NoToken
  /\ phase' = "token"

Enter(loop, t) == phase' = loop /\ tok' = t /\ UNCHANGED tokens_
Stay(t) == tok' = t /\ UNCHANGED <<tokens_, phase>>
Fail == phase' = "error" /\ tok' = NoToken /\ UNCHANGED <<tokens_, read_pos, line, col>>

AtToken == phase = "token" /\ Next1 \notin Blanks \cup {"\n", NUL}

Blank == phase = "token" /\ Next1 \in Blanks /\ Move(1) /\ UNCHANGED <<tok, tokens_, phase>>

BlankLine ==
  /\ phase = "token" /\ Next1 = "\n"
  /\ NewLine(1) /\ col' = 1
  /\ UNCHANGED <<tok, tokens_, phase>>

EndOfFile ==
  /\ phase = "token" /\ Next1 = NUL
  /\ tokens_' = Append(tokens_, Token("TokEof", read_pos, 1))
  /\ phase' = "ok"
  /\ UNCHANGED <<position, tok>>

\* Mutant: the last character is read once more.
MakeFixedShort(table, i) ==
  /\ Deliver(Token(table[i][2], read_pos, Length(table[i][1])))
  /\ Move(Length(table[i][1]) - 1)

MakeFixed(table, i) ==
  /\ Deliver(Token(table[i][2], read_pos, Length(table[i][1])))
  /\ Move(Length(table[i][1]))

MakeKeyword == AtToken /\ \E i \in Keyword : MakeFixed(Keywords, i)

Unmatched == AtToken /\ Keyword = {}

StarRemark ==
  /\ Unmatched /\ StartsWith("/*")
  /\ Enter("star", Token("TokStarRemark", read_pos, Garbage))
  /\ Move(2)

StarRemarkEnd ==
  /\ phase = "star" /\ StartsWith("*/")
  /\ Deliver(tok) /\ Move(2)

\* Behind a line the next character is passed unseen, unless the source ends there.
StarRemarkLine ==
  /\ phase = "star" /\ Next1 = "\n"
  /\ IF Char(read_pos + 1) = NUL THEN Fail
     ELSE NewLine(2) /\ col' = 2 /\ Stay(tok)

StarRemarkOn ==
  /\ phase = "star" /\ Next1 \notin {"\n", NUL} /\ ~StartsWith("*/")
  /\ Move(1) /\ Stay(tok)

\* Mutant: the loop waits for the end of the remark.
StarRemarkWaits == phase = "star" /\ Next1 = NUL /\ Stay(tok) /\ UNCHANGED position

StarRemarkEof == phase = "star" /\ Next1 = NUL /\ Fail

LineRemark ==
  /\ Unmatched /\ StartsWith("//")
  /\ Enter("line", Token("TokLineRemark", read_pos, 2))
  /\ Move(2)

LineRemarkEnd ==
  /\ phase = "line" /\ Next1 = "\n"
  /\ Deliver(tok) /\ NewLine(1) /\ col' = 1

LineRemarkOn ==
  /\ phase = "line" /\ Next1 \notin {"\n", NUL}
  /\ Move(1) /\ Stay([tok EXCEPT !.len = @ + 1])

\* Not even the end of the source ends the remark of its last line.
LineRemarkEof == phase = "line" /\ Next1 = NUL /\ Fail

NoRemark == Unmatched /\ ~StartsWith("/*") /\ ~StartsWith("//")

MakeOperator == NoRemark /\ \E i \in Operator : MakeFixed(Operators, i)

Other == NoRemark /\ Operator = {}

\* The quotes are not counted in col.
StringLiteral ==
  /\ Other /\ Next1 = QUOTE
  /\ Enter("string", Token("TokStringLiteral", read_pos + 1, 0))
  /\ read_pos' = read_pos + 1 /\ UNCHANGED <<line, col>>

StringLiteralEnd ==
  /\ phase = "string" /\ Next1 = QUOTE
  /\ Deliver(tok) /\ read_pos' = read_pos + 1 /\ UNCHANGED <<line, col>>

StringLiteralOn ==
  /\ phase = "string" /\ Next1 \notin {QUOTE, NUL}
  /\ IF Next1 = "\n" THEN NewLine(1) /\ col' = 2 ELSE Move(1)
  /\ Stay([tok EXCEPT !.len = @ + 1])

StringLiteralEof == phase = "string" /\ Next1 = NUL /\ Fail

\* A character literal is not returned: MakeToken goes on, and the number or the
\* identifier behind it, be there none, takes the place of tok.
Word(p, columns) ==
  /\ Enter("word", [Token(IF Char(p) \in isNumber THEN "TokIntegerLiteral" ELSE "TokIdentifier", p, 0)
                      EXCEPT !.col = col + columns])
  /\ read_pos' = p /\ col' = col + columns /\ UNCHANGED line

CharactorLiteral ==
  /\ Other /\ Next1 = "'" /\ Char(read_pos + 2) = "'"
  /\ Word(read_pos + 3, 2)

CharactorLiteralWrong ==
  /\ Other /\ Next1 = "'" /\ read_pos + 1 <= Len(src_) /\ Char(read_pos + 2) # "'"
  /\ Fail

\* What is behind the end of the source is not the scanner's to read.
CharactorLiteralEof ==
  /\ Other /\ Next1 = "'" /\ read_pos = Len(src_)
  /\ phase' = "lost" /\ UNCHANGED <<position, tok, tokens_>>

\* Any other character begins an identifier, which may be empty.
NumberOrIdentifier == Other /\ Next1 \notin {QUOTE, "'"} /\ Word(read_pos, 0)

WordOn ==
  /\ phase = "word" /\ Next1 \in isWord
  /\ Move(1) /\ Stay([tok EXCEPT !.len = @ + 1])

WordEndAhead ==
  /\ phase = "word" /\ Next1 \notin isWord
  /\ Deliver(tok) /\ Move(1)

WordEnd ==
  /\ phase = "word" /\ Next1 \notin isWord
  /\ Deliver(tok) /\ UNCHANGED position

-----------------------------------------------------------------------------

Step ==
  \/ Blank \/ BlankLine \/ EndOfFile \/ MakeKeyword
  \/ StarRemark \/ StarRemarkEnd \/ StarRemarkLine \/ StarRemarkOn \/ StarRemarkEof
  \/ LineRemark \/ LineRemarkEnd \/ LineRemarkOn \/ LineRemarkEof \/ MakeOperator
  \/ StringLiteral \/ StringLiteralEnd \/ StringLiteralOn \/ StringLiteralEof
  \/ CharactorLiteral \/ CharactorLiteralWrong \/ CharactorLiteralEof
  \/ NumberOrIdentifier \/ WordOn \/ WordEnd

Next == Step /\ UNCHANGED src_

Spec == Init /\ [][Next]_vars

\* One thread reads, and nothing holds it up.
FairSpec == Spec /\ WF_vars(Next)

-----------------------------------------------------------------------------
(* Properties                                                               *)

TypeOK ==
  /\ read_pos \in 1..Len(src_) + 1
  /\ line \in Nat \ {0} /\ col \in Nat \ {0}
  /\ \A k \in DOMAIN tokens_ : tokens_[k].c \in 1..Len(src_) + 1
  /\ phase \in {"token"} \cup Loops \cup Ended

\* The characters of a token are behind those of the token before and within the
\* source, whatever the source: none is in two tokens, and what the parser takes of
\* the text by tok.c and tok.len never reaches behind the terminator.
TokensInOrder ==
  /\ \A k \in DOMAIN tokens_ : tokens_[k].type # "TokEof" => tokens_[k].c + tokens_[k].len <= Len(src_) + 1
  /\ \A k \in 2..Len(tokens_) : tokens_[k - 1].c + tokens_[k - 1].len <= tokens_[k].c

\* What RuleEngine takes for granted of its stream: CompileTokens, when it answers
\* true, has ended it with the one TokEof.
EndsWithEof ==
  /\ phase = "ok" => tokens_ # <<>>
  /\ \A k \in DOMAIN tokens_ : tokens_[k].type = "TokEof" <=> phase = "ok" /\ k = Len(tokens_)

\* The stream CompileTokens hands to the parser, whatever the source: its tokens
\* are pieces of the text, one behind the other, and the one TokEof is its last.
StreamOK == TokensInOrder /\ EndsWithEof

\* The ordered tables, tried first to last, find at every place the longest lexeme:
\* no character is lost or read twice, no operator is cut short by one that begins
\* it, no keyword is taken from the front of a longer word, every token has the
\* line and column it stands in, and a text is refused only where a remark or a
\* string is not closed.
SpellsLongest ==
  Plain(src_) /\ phase \in Ended =>
    /\ phase # "lost"
    /\ \A k \in DOMAIN tokens_ : IsRead(src_, tokens_, k)
    /\ phase = "ok" => tokens_[Len(tokens_)].c = Len(src_) + 1
    /\ phase = "error" => IsRefused(src_, tokens_)
=============================================================================
