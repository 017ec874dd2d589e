------------------------------ MODULE MCLexer ------------------------------
(***************************************************************************)
(* Lexer on every short text over a few alphabets, on the programs of the  *)
(* parser's pool, and on single lexemes.                                   *)
(***************************************************************************)
EXTENDS Lexer, Programs

-----------------------------------------------------------------------------
(* Texts                                                                    *)

Texts(S, n) == UNION {[1..k -> S] : k \in 0..n}

ShortTexts ==
  Texts({"<", "=", ">", "i"}, 5) \cup Texts({"+", "-", "=", ">", "&", "|"}, 4)
  \cup Texts({"i", "f", "1", " ", "\n"}, 5) \cup Texts({"/", "*", "a", "="}, 6)
  \cup Texts({"/", "a", " ", "\n"}, 5) \cup Texts({"\"", "a", " ", "\n"}, 5)
  \cup Texts({".", "(", "a", "\t"}, 4)

Keyworded == UNION {{w, w \o "1", "x" \o w, w \o ";" \o w} : w \in {Keywords[i][1] : i \in DOMAIN Keywords} \ {"switch"}}

Joined(ws) == FoldLeft(LAMBDA text, w : text \o " " \o w, "", ws)
Printed == {[text |-> Chars(Joined(TextOf(ds))), tokens |-> TokensOf(ds)] : ds \in SupportedPrograms}
ProgramTexts == {p.text : p \in Printed}

\* Texts with a character that begins no lexeme the scanner knows.
OddTexts == {"'a'", "'a'b;", "'ab", "'a", "'", "_", "Ab"}

Others == {"a/* x\nb */c\n//\n", "/*\n", "a /* b\nc", "\r\n~a%b^c!d?e:f,g{h}[i]",
           "a /*\n\nb*/ c\n \"d\ne\" f", "a\n\n /*\nb*/ c"}

MCSources == ShortTexts \cup ProgramTexts \cup {Chars(w) : w \in OddTexts \cup Keyworded \cup Others}

\* Single lexemes, as LangSpec.txt and Lexer.h spell them.
Lexicon ==
  "abcd012" :> "TokIdentifier" @@ "Abc" :> "TokIdentifier" @@ "12345" :> "TokIntegerLiteral"
  @@ "\"test\"" :> "TokStringLiteral" @@ "'A'" :> "TokCharactorLiteral" @@ "switch" :> "TokSwitch"
LexiconSources == {Chars(w) : w \in DOMAIN Lexicon}

-----------------------------------------------------------------------------
(* Properties                                                               *)

\* What the parser's runs take for the tokens of a program is what the scanner
\* makes of its text.
Delivers ==
  phase \in Ended => \A p \in Printed : p.text = src_ =>
    /\ phase = "ok" /\ Len(tokens_) = Len(p.tokens)
    /\ \A k \in DOMAIN tokens_ :
         /\ tokens_[k].type = p.tokens[k].type
         /\ tokens_[k].type \in {"TokIdentifier", "TokIntegerLiteral"} =>
              SubSeq(src_, tokens_[k].c, tokens_[k].c + tokens_[k].len - 1) = Chars(p.tokens[k].c)

\* The scanner comes to the end of every text of the language.
Terminates == Plain(src_) ~> phase \in Ended

\* A lexeme alone is read whole, as a token of its type.
LexiconRead ==
  /\ phase # "error"
  /\ \A w \in DOMAIN Lexicon : src_ = Chars(w) /\ tokens_ # <<>> => tokens_[1].type = Lexicon[w]
=============================================================================
