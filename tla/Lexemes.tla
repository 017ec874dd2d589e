------------------------------ MODULE Lexemes ------------------------------
(***************************************************************************)
(* The characters of a source, and what a text spells: at each place the   *)
(* longest lexeme of LangSpec.txt, in its line and column.  It is what the *)
(* scanner of Lexer is measured by.                                        *)
(***************************************************************************)
EXTENDS TokenTable, FiniteSets

-----------------------------------------------------------------------------
(* Characters                                                               *)

NUL == ""
QUOTE == "\""

UpAlpha == {"C", "D", "E", "F", "G", "H", "I", "J", "K", "L", "M", "N", "O", "P", "Q", "R", "S",
            "T", "U", "V", "W", "X", "Y", "Z"}  \* (c) > 66
LowAlpha == {"a", "b", "c", "d", "e", "f", "g", "h", "i", "j", "k", "l", "m", "n", "o", "p", "q",
             "r", "s", "t", "u", "v", "w", "x", "y", "z"}
isNumber == {"0", "1", "2", "3", "4", "5", "6", "7", "8", "9"}
isWord == UpAlpha \cup LowAlpha \cup isNumber
Blanks == {" ", "\t", "\r"}

Signs == {"+", "-", "*", "/", "%", "=", "&", "|", "^", "~", "<", ">", "!", "?",
          "(", ")", "{", "}", "[", "]", ",", ".", ":", ";"}

Chars(text) == [i \in 1..Len(text) |-> SubSeq(text, i, i)]

Garbage == -1 \* the len of a remark, which nothing has initialised

\* The types of tokens that have no spelling in the tables.
Unfixed == {"TokUnknown", "TokStarRemark", "TokLineRemark", "TokStringLiteral", "TokIntegerLiteral",
            "TokIdentifier", "TokEof"}

\* Facts of the tables, which TLC looks up: what characters the words and the signs
\* have, and that a longer sign is tried before a shorter one.
ASSUME TablesAssumption ==
  /\ DOMAIN Keywords \cup DOMAIN Operators \subseteq Nat
  /\ \A i \in DOMAIN Keywords : LET w == Keywords[i][1] IN
       /\ Len(w) \in Nat \ {0} /\ \A k \in 1..Len(w) : Chars(w)[k] \in LowAlpha
       /\ Keywords[i][2] \notin Unfixed
  /\ \A i \in DOMAIN Operators : LET w == Operators[i][1] IN
       /\ Len(w) \in Nat \ {0} /\ w # "switch" /\ \A k \in 1..Len(w) : Chars(w)[k] \in Signs
       /\ Operators[i][2] \notin Unfixed
       /\ \A j \in DOMAIN Operators : i <= j => Len(Operators[j][1]) <= Len(w)
  /\ \A c \in Signs : \E i \in DOMAIN Operators :
       Len(Operators[i][1]) = 1 /\ Chars(Operators[i][1]) = <<c>>
  /\ Len("switch") = 6 /\ Len("switc") = 5 /\ \A k \in 1..5 : Chars("switch")[k] = Chars("switc")[k]
  /\ Len("/*") = 2 /\ Chars("/*") = <<"/", "*">>
  /\ Len("*/") = 2 /\ Chars("*/") = <<"*", "/">>
  /\ Len("//") = 2 /\ Chars("//") = <<"/", "/">>
  /\ Len(QUOTE) = 1 /\ Chars(QUOTE) = <<QUOTE>>
  /\ Len("\n") = 1 /\ Chars("\n") = <<"\n">>

-----------------------------------------------------------------------------
(* What a text s spells: the lexemes at p, by their types and lengths       *)

Lexeme(type, n) == [type |-> type, n |-> n]

Spelt(s, text, p) ==
  /\ p + Len(text) <= Len(s) + 1
  /\ \A i \in 1..Len(text) : s[p + i - 1] = Chars(text)[i]

FixedAt(s, table, p) ==
  {Lexeme(table[i][2], Len(table[i][1])) : i \in {j \in DOMAIN table : Spelt(s, table[j][1], p)}}

WordType(c) == IF c \in isNumber THEN "TokIntegerLiteral" ELSE "TokIdentifier"

\* A word is no identifier when it is a keyword.
WordsAt(s, p) ==
  {Lexeme(WordType(s[p]), n) :
     n \in {m \in 1..Len(s) + 1 - p :
              /\ \A q \in p..p + m - 1 : s[q] \in isWord
              /\ \A l \in FixedAt(s, Keywords, p) : l.n # m}}

\* What begins and ends as told, and ends nowhere before.
ClosedAt(s, type, first, last, p) ==
  {Lexeme(type, n) :
     n \in {m \in Len(first) + Len(last)..Len(s) + 1 - p :
              /\ Spelt(s, first, p) /\ Spelt(s, last, p + m - Len(last))
              /\ \A q \in p + Len(first)..p + m - Len(last) - 1 : ~Spelt(s, last, q)}}

\* The sign of a remark is no operator.
LexemesAt(s, p) ==
  IF Spelt(s, "/*", p) \/ Spelt(s, "//", p)
  THEN ClosedAt(s, "TokStarRemark", "/*", "*/", p) \cup ClosedAt(s, "TokLineRemark", "//", "\n", p)
  ELSE FixedAt(s, Keywords, p) \cup FixedAt(s, Operators, p) \cup WordsAt(s, p)
         \cup ClosedAt(s, "TokStringLiteral", QUOTE, QUOTE, p)

LongestAt(s, p) == {l \in LexemesAt(s, p) : \A m \in LexemesAt(s, p) : m.n <= l.n}

\* Of a string literal the token is what is between the quotes.
Opening(t) == IF t.type = "TokStringLiteral" THEN 1 ELSE 0
Begin(t) == t.c - Opening(t)

IsToken(t, l) ==
  /\ t.type = l.type
  /\ t.len = CASE l.type = "TokStarRemark" -> Garbage
               [] l.type = "TokLineRemark" -> l.n - 1
               [] OTHER -> l.n - 2 * Opening(t)

Gap(s, p, q) == p \in 1..q /\ \A i \in p..q - 1 : s[i] \in Blanks \cup {"\n"}

LinesBefore(s, p) == {i \in 1..p - 1 : s[i] = "\n"}

\* In a remark a line end that follows another is passed uncounted, ...
LinesCounted(s, p) ==
  ~\E j \in 2..p - 2 :
     /\ s[j] = "\n" /\ s[j + 1] = "\n"
     /\ \E i \in 1..j - 1 : Spelt(s, "/*", i) /\ \A k \in i + 2..j - 1 : ~Spelt(s, "*/", k)

\* ... and a quote has no column.
ColumnsCounted(s, p) ==
  LinesCounted(s, p) /\ \A i \in 1..p - 1 : s[i] = QUOTE => \E j \in i + 1..p - 1 : s[j] = "\n"

InLine(s, l, p) == l = 1 + Cardinality(LinesBefore(s, p))
InColumn(s, c, p) == \E q \in LinesBefore(s, p) \cup {0} : c = p - q /\ \A i \in LinesBefore(s, p) : i <= q

Lined(s, l, p) == LinesCounted(s, p) => InLine(s, l, p)

Placed(s, l, c, p) ==
  /\ Lined(s, l, p)
  /\ ColumnsCounted(s, p) => InColumn(s, c, p)

\* The k-th of the tokens is a longest lexeme of the text, and from it to p there is nothing more.
Reaches(s, tokens, k, p) ==
  IF k = 0 THEN Gap(s, 1, p)
  ELSE \E l \in LongestAt(s, Begin(tokens[k])) : IsToken(tokens[k], l) /\ Gap(s, Begin(tokens[k]) + l.n, p)

IsRead(s, tokens, k) ==
  /\ Reaches(s, tokens, k - 1, Begin(tokens[k]))
  /\ Placed(s, tokens[k].line, tokens[k].col, Begin(tokens[k]))

IsRefused(s, tokens) == \E p \in 1..Len(s) : Reaches(s, tokens, Len(tokens), p) /\ LexemesAt(s, p) = {}

\* Texts of the language as the scanner knows it: without the letters A and B, which
\* it takes for none, character literals, and "switch", of which the table has five
\* characters, nor with a remark that ends right behind a line end.
Plain(s) ==
  \A p \in 1..Len(s) :
    /\ s[p] \in isWord \cup Blanks \cup Signs \cup {"\n", QUOTE}
    /\ ~Spelt(s, "switc", p)
    /\ s[p] = "\n" => ~Spelt(s, "*/", p + 1)
=============================================================================
