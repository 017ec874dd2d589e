----------------------------- MODULE MCNearMiss -----------------------------
(***************************************************************************)
(* Parser on programs with one mistake: every deletion, replacement and    *)
(* insertion of one token in a few correct programs, and all short bodies  *)
(* of a function.                                                          *)
(***************************************************************************)
EXTENDS Parser

LOCAL Syntax == INSTANCE Printer

CONSTANTS
  Sources,    \* correct programs, as sequences of token texts
  Edits,      \* the texts a mistake may bring in
  Alphabet,   \* the texts of the short bodies
  MaxBody     \* bound: tokens of a short body

\* What every source begins with: a definition, and the name of a type.
Prelude == <<"typedef", "int", "t", ";">>

Function(body) == <<"int", "f", "(", "void", ")", "{">> \o body \o <<"}">>

MCSources == {
  Function(<<"t", "*", "b", ";", "a", "=", "-", "b", "*", "1", ";">>),
  <<"t", "f", "(", "t", "p", ",", "t", "q", ")", "{", "if", "(", "p", ")", "break", ";", "}">>,
  <<"class", "R", "{", "t", "a", ";", "}", ";", "class", "R", "[", "2", "]", "b", ";">>,
  <<"const", "t", "a", "=", "1", ";", "static", "int", "b", ";">>}
MCEdits == {"t", "a", ";"}
MCAlphabet == {"t", "a", ";", "*", "=", "{", "}"}

Mistakes(s) ==
  {s} \cup {RemoveAt(s, k) : k \in DOMAIN s}
  \cup {ReplaceAt(s, k, e) : k \in DOMAIN s, e \in Edits}
  \cup {InsertAt(s, k, e) : k \in DOMAIN s, e \in Edits}

Bodies == UNION {[1..n -> Alphabet] : n \in 0..MaxBody}

MCTokenStreams ==
  {Syntax!Tokens(Prelude \o s) : s \in UNION {Mistakes(m) : m \in Sources} \cup {Function(w) : w \in Bodies}}

\* The declarations as a program again, kind by kind in the order of the source.
Definitions(ac) ==
  LET d == ac.decls IN
  Reverse([k \in DOMAIN d.typedefs |->
             <<"Typedef", d.typedefs[k][2], ac.types[d.typedefs[k][2]][2]>>])
  \o Reverse(d.records) \o Reverse(d.constants)
  \o Reverse([k \in DOMAIN d.variables |-> <<"Vars", <<d.variables[k]>>>>])
  \o Reverse(d.functions)

\* RecordType::Get takes any type of that name, so "class" is lost before an alias.
IsAlias(name) == name \in DOMAIN ac_.types /\ ac_.types[name][1] = "user"
LosesClass(k) ==
  /\ tokens_[k].type = "TokClass" /\ IsAlias(tokens_[k + 1].c)
  /\ tokens_[k + 2].type # "TokBraceOpen"
Written ==
  FlattenSeq([k \in DOMAIN tokens_ |-> IF LosesClass(k) THEN <<>> ELSE <<tokens_[k]>>])

\* A source that is accepted is what its declarations say: nothing else that was
\* written has been dropped or taken for another thing.
NothingDropped ==
  verdict = "True" => Syntax!Tokens(Syntax!Program(Definitions(ac_))) = Written
=============================================================================
