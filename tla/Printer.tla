------------------------------ MODULE Printer ------------------------------
(***************************************************************************)
(* The concrete syntax of LangSpec.txt, written the other way round: from  *)
(* the tree a program means to its tokens, with no more parentheses than   *)
(* the table of operator priorities asks for.  It shares nothing with the  *)
(* rule table or the actions of the parser but the names of the nodes, so  *)
(* parsing what is printed is a check of both.                             *)
(***************************************************************************)
EXTENDS Grammar, TokenTable, SequencesExt

\* Spelling and priority of the operators (1 binds tightest).
Infixes ==
  [BinMul |-> <<"*", 1>>, BinDiv |-> <<"/", 1>>, BinMod |-> <<"%", 1>>,
   BinSum |-> <<"+", 2>>, BinSub |-> <<"-", 2>>,
   BitShiftRight |-> <<">>", 3>>, BitShiftLeft |-> <<"<<", 3>>,
   BitAnd |-> <<"&", 4>>, BitXor |-> <<"^", 5>>, BitOr |-> <<"|", 6>>,
   GreatorThan |-> <<">", 7>>, LessThan |-> <<"<", 7>>, GreatorThanEq |-> <<">=", 7>>,
   LessThanEq |-> <<"<=", 7>>, Equal |-> <<"==", 7>>, NotEqual |-> <<"!=", 7>>]

PrefixText == [Pos |-> "+", Neg |-> "-", Not |-> "!", BitNot |-> "~"]

Assignments ==
  [Add |-> "+=", Sub |-> "-=", Mul |-> "*=", Div |-> "/=", Mod |-> "%=", BitAnd |-> "&=",
   BitOr |-> "|=", BitXor |-> "^=", ShiftL |-> "<<=", ShiftR |-> ">>="]

\* The priority of the operator at the root; operands come before 1: a cast is
\* a term (0), a prefix operator a unary (-1), the rest a primary (-2).
Priority(e) ==
  CASE e[1] = "BinaryOp" -> Infixes[e[2]][2]
    [] e[1] = "LogicalAnd" -> 8
    [] e[1] = "LogicalOr" -> 9
    [] e[1] = "Cond" -> 10
    [] e[1] \in {"Assign", "OpAssign"} -> 11
    [] e[1] = "Cast" -> 0
    [] e[1] \in {"UnaryOp", "PrefixOp", "PtrDereference", "Address", "SizeofExpr"} -> -1
    [] OTHER -> -2

Paren(ts) == <<"(">> \o ts \o <<")">>

\* x, y, ..., z
List(xs, Text(_)) ==
  FlattenSeq([k \in DOMAIN xs |-> (IF k > 1 THEN <<",">> ELSE <<>>) \o Text(xs[k])])

Null == <<"nullptr">>

RECURSIVE TypeRef(_)
TypeRef(t) ==
  CASE t[1] = "ptr" -> TypeRef(t[2]) \o <<"*">>
    [] t[1] = "array" -> TypeRef(t[2]) \o <<"[">> \o SubSeq(t, 3, Len(t)) \o <<"]">>
    [] t[1] = "function" -> TypeRef(t[2]) \o Paren(List(t[3], TypeRef))
    [] t[1] = "user" -> <<t[2]>>
    [] t[1] = "record" -> <<"class", t[2]>>
    [] t[1] \in {"unsigned char", "unsigned short", "unsigned int", "unsigned long"} ->
         <<"unsigned", SubSeq(t[1], 10, Len(t[1]))>>
    [] OTHER -> t

RECURSIVE Expr(_)
\* e where the grammar asks for an expression of at most this priority
Within(e, priority) == IF Priority(e) > priority THEN Paren(Expr(e)) ELSE Expr(e)

\* Operators associate to the left, assignments and conditions to the right.
Expr(e) ==
  LET Left(l, op, r, p) == Within(l, p) \o <<op>> \o Within(r, p - 1) IN
  CASE e[1] = "BinaryOp" -> Left(e[3], Infixes[e[2]][1], e[4], Infixes[e[2]][2])
    [] e[1] = "LogicalAnd" -> Left(e[2], "&&", e[3], 8)
    [] e[1] = "LogicalOr" -> Left(e[2], "||", e[3], 9)
    [] e[1] = "Cond" -> Within(e[2], 9) \o <<"?">> \o Expr(e[3]) \o <<":">> \o Within(e[4], 10)
    [] e[1] = "Assign" -> Within(e[2], 0) \o <<"=">> \o Expr(e[3])
    [] e[1] = "OpAssign" -> Within(e[3], 0) \o <<Assignments[e[2]]>> \o Expr(e[4])
    [] e[1] = "Cast" -> Paren(TypeRef(e[2])) \o Within(e[3], 0)
    [] e[1] = "UnaryOp" -> <<PrefixText[e[2]]>> \o Within(e[3], 0)
    [] e[1] = "PtrDereference" -> <<"*">> \o Within(e[2], 0)
    [] e[1] = "Address" -> <<"&">> \o Within(e[2], 0)
    [] e[1] = "PrefixOp" -> <<IF e[2] = "Inc" THEN "++" ELSE "--">> \o Within(e[3], -1)
    [] e[1] = "SizeofExpr" -> <<"sizeof">> \o Within(e[2], -1)
    [] e[1] = "SizeofType" -> <<"sizeof">> \o Paren(TypeRef(e[2]))
    [] e[1] = "SuffixOp" -> Within(e[3], -2) \o <<IF e[2] = "Inc" THEN "++" ELSE "--">>
    [] e[1] = "ArrayRef" -> Within(e[2], -2) \o <<"[">> \o Expr(e[3]) \o <<"]">>
    [] e[1] = "MemberRef" -> Within(e[2], -2) \o <<".", e[3]>>
    [] e[1] = "PtrMemberRef" -> Within(e[2], -2) \o <<"->", e[3]>>
    [] e[1] = "FuncCall" -> Within(e[2], -2) \o Paren(List(e[3][2], Expr))
    [] e[1] \in {"Variable", "IntegerLiteral", "StringLiteral"} -> <<e[2]>>

\* Declarations of variables, each one with its own type.
Variable(d) ==
  (IF d[2] THEN <<"static">> ELSE <<>>) \o TypeRef(d[3]) \o <<d[4]>>
    \o (IF d[5] = Null THEN <<>> ELSE <<"=">> \o Expr(d[5]))

\* The same ones in a single declaration, when they have one type and storage.
Joined(ds) ==
  Variable(ds[1])
    \o FlattenSeq([k \in 1..Len(ds) - 1 |->
         <<",">> \o SubSeq(Variable(ds[k + 1]), Len(TypeRef(ds[1][3])) + 1 + (IF ds[1][2] THEN 1 ELSE 0),
                           Len(Variable(ds[k + 1])))]) \o <<";">>

Variables(ds) == FlattenSeq([k \in DOMAIN ds |-> Variable(ds[k]) \o <<";">>])

RECURSIVE Stmt(_)
Stmt(s) ==
  CASE s[1] = "ExprStmt" -> Expr(s[2]) \o <<";">>
    [] s[1] = "If" -> <<"if">> \o Paren(Expr(s[2])) \o Stmt(s[3])
                        \o (IF s[4] = Null THEN <<>> ELSE <<"else">> \o Stmt(s[4]))
    [] s[1] = "While" -> <<"while">> \o Paren(Expr(s[2])) \o Stmt(s[3])
    [] s[1] = "DoWhile" -> <<"do">> \o Stmt(s[2]) \o <<"while">> \o Paren(Expr(s[3])) \o <<";">>
    [] s[1] = "For" -> LET Clause(e) == IF e = Null THEN <<>> ELSE Expr(e) IN
         <<"for">> \o Paren(Clause(s[2]) \o <<";">> \o Clause(s[3]) \o <<";">> \o Clause(s[4])) \o Stmt(s[5])
    [] s[1] = "Switch" -> LET Label(e) == <<"case">> \o Expr(e) \o <<":">>
                              Clause(c) == (IF c[2] = <<>> THEN <<"default", ":">>
                                            ELSE FlattenSeq([k \in DOMAIN c[2] |-> Label(c[2][k])])) \o Stmt(c[3])
                          IN <<"switch">> \o Paren(Expr(s[2])) \o <<"{">>
                               \o FlattenSeq([k \in DOMAIN s[3] |-> Clause(s[3][k])]) \o <<"}">>
    [] s[1] = "Block" -> <<"{">> \o Variables(s[2])
                           \o FlattenSeq([k \in DOMAIN s[3] |-> Stmt(s[3][k])]) \o <<"}">>
    [] s[1] = "Label" -> <<s[2], ":">> \o Stmt(s[3])
    [] s[1] = "Goto" -> <<"goto", s[2], ";">>
    [] s[1] = "Empty" -> <<";">>
    [] s[1] = "Break" -> <<"break", ";">>
    [] s[1] = "Continue" -> <<"continue", ";">>
    [] s[1] = "Return" -> <<"return">> \o (IF Len(s) > 1 THEN Expr(s[2]) ELSE <<>>) \o <<";">>

Param(p) ==
  CASE p = <<"Param", <<"void">>, "">> -> <<"void">>
    [] p[2] = <<"...">> -> <<"...">>
    [] OTHER -> TypeRef(p[2]) \o <<p[3]>>

FunctionText(d) ==
  (IF d[2] THEN <<"static">> ELSE <<>>) \o TypeRef(d[3]) \o <<d[4]>> \o Paren(List(d[5], Param)) \o Stmt(d[6])

\* A definition at the top level.  A typedef carries its type with it, and
\* variables come as the list of one declaration.
Definition(d) ==
  CASE d[1] = "Import" -> <<"import", d[2][1]>>
                            \o FlattenSeq([k \in 1..Len(d[2]) - 1 |-> <<".", d[2][k + 1]>>]) \o <<";">>
    [] d[1] = "Typedef" -> <<"typedef">> \o TypeRef(d[3]) \o <<d[2], ";">>
    [] d[1] = "Vars" -> Joined(d[2])
    [] d[1] = "ConstantDecl" -> <<"const">> \o TypeRef(d[2]) \o <<d[3], "=">> \o Expr(d[4]) \o <<";">>
    [] d[1] = "Record" -> <<"class", d[2], "{">> \o Variables(d[3])
                            \o FlattenSeq([k \in DOMAIN d[4] |-> FunctionText(d[4][k])]) \o <<"}", ";">>
    [] d[1] = "Function" -> FunctionText(d)

Program(ds) == FlattenSeq([k \in DOMAIN ds |-> Definition(ds[k])])

-----------------------------------------------------------------------------

Numbers == {"0", "1", "2", "10", "20"}

\* The tokens CompileTokens makes of these texts.  A character literal never
\* becomes a token: MakeToken goes on to the identifier or number behind it.
Tokens(texts) ==
  LET spelling == Spelling
      type(text) == IF text \in DOMAIN spelling THEN spelling[text]
                    ELSE IF text \in Numbers THEN "TokIntegerLiteral"
                    ELSE IF SubSeq(text, 1, 1) = "\"" THEN "TokStringLiteral" ELSE "TokIdentifier" IN
  [k \in DOMAIN texts |-> [type |-> type(texts[k]), c |-> texts[k]]] \o <<[type |-> "TokEof", c |-> "eof"]>>
=============================================================================
