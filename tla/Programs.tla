------------------------------ MODULE Programs ------------------------------
(***************************************************************************)
(* Pools of programs, as the trees Printer takes.                          *)
(***************************************************************************)
EXTENDS ParseActions

LOCAL Syntax == INSTANCE Printer

TextOf(ds) == Syntax!Program(ds)
TokensOf(ds) == Syntax!Tokens(TextOf(ds))

-----------------------------------------------------------------------------
(* Trees                                                                    *)

IntType == <<"int">>
a == <<"Variable", "a">>
b == <<"Variable", "b">>
one == <<"IntegerLiteral", "1">>

Typedef(name, type) == <<"Typedef", name, type>>
Record(name, members) == <<"Record", name, members, <<>>>>
StaticVar(static, type, name, init) == <<"VariableDecl", static, type, name, init>>
Var(type, name, init) == StaticVar(FALSE, type, name, init)
Block(locals, stmts) == <<"Block", locals, stmts>>
Function(type, params, block) == <<"Function", FALSE, type, "f", params, block>>

\* Nothing but a definition above the first one tells its storage from garbage.
After(def) == <<Typedef("t", IntType), def>>
Returning(e) == After(Function(IntType, <<VoidParam>>, Block(<<>>, <<<<"Return", e>>>>)))
Doing(stmts) == After(Function(<<"void">>, <<VoidParam>>, Block(<<>>, stmts)))

Apply(op, l, r) ==
  CASE op \in {"LogicalAnd", "LogicalOr", "Assign"} -> <<op, l, r>>
    [] op = "Cond" -> <<op, l, one, r>>
    [] op \in DOMAIN Syntax!Assignments /\ op \notin DOMAIN Syntax!Infixes -> <<"OpAssign", op, l, r>>
    [] OTHER -> <<"BinaryOp", op, l, r>>

Wrap(kind, e) ==
  CASE kind \in {"Neg", "Pos"} -> <<"UnaryOp", kind, e>>
    [] kind = "Cast" -> <<kind, <<"ptr", IntType>>, e>>
    [] kind \in {"Inc", "Dec"} -> <<"PrefixOp", kind, e>>
    [] OTHER -> <<kind, e>>

-----------------------------------------------------------------------------
(* Pools of programs                                                        *)

Ops == {"Assign", "Cond", "LogicalOr", "BinSub", "BinMul"}
OtherOps ==
  {"LogicalAnd", "BitOr", "BitAnd", "LessThan", "GreatorThan", "GreatorThanEq", "LessThanEq", "Equal", "NotEqual",
   "BitShiftRight", "BitShiftLeft", "BinSum", "BinDiv", "BinMod",
   "Add", "Sub", "Mul", "Div", "Mod", "ShiftL", "ShiftR"}
Wraps == {"Neg", "Cast", "Inc", "SizeofExpr", "PtrDereference", "Address"}

\* One operator of every priority, the loosest at the root.
Levels == <<"LogicalOr", "LogicalAnd", "Equal", "BitOr", "BitAnd", "BitShiftLeft", "BinSum", "BinMod">>
Chain(Nest(_, _)) == FoldRight(Nest, Levels, one)

\* Operators of any two priorities nested to the left and to the right, prefix
\* operators and casts inside, outside and around each other.
Expressions ==
  {Apply(o, Apply(p, a, one), b) : o, p \in Ops} \cup {Apply(o, a, Apply(p, one, b)) : o, p \in Ops}
  \cup {Apply(o, Apply("BinSub", a, b), one) : o \in OtherOps}
  \cup {Chain(LAMBDA op, e : Apply(op, a, e)), Chain(LAMBDA op, e : Apply(op, e, b))}
  \cup {Wrap(w, Apply(o, a, one)) : w \in Wraps, o \in {"BinMul", "Assign"}}
  \cup {Apply("BinMul", Wrap(w, a), Wrap(w, b)) : w \in Wraps}
  \cup {Wrap(w, Wrap(x, a)) : w, x \in Wraps} \cup {Wrap("Pos", a), Wrap("Dec", a)}
  \cup {<<"OpAssign", op, a, one>> : op \in {"BitAnd", "BitOr", "BitXor"}}
  \cup {<<"StringLiteral", "\"s\"">>}

VarTypes ==
  {<<"void">>, <<"unsigned long">>, <<"user", "t">>, <<"record", "R">>, <<"array", IntType>>,
   <<"array", <<"ptr", <<"user", "t">>>>, "2">>, <<"ptr", <<"ptr", <<"record", "R">>>>>>}

\* A type everywhere a type may stand; each list of definitions has two of them.
TypePrograms ==
  {<<Typedef("t", IntType), Record("R", <<Var(IntType, "x", Null)>>), Typedef("u", T),
     Record("S", <<Var(T, "m", Null), Var(T, "n", one)>>), <<"ConstantDecl", T, "c", one>>,
     <<"ConstantDecl", T, "d", a>>, <<"Vars", <<Var(T, "v", Null), Var(T, "w", a), Var(T, "z", Null)>>>>,
     <<"Vars", <<StaticVar(TRUE, T, "p", one), StaticVar(TRUE, T, "q", Null)>>>>,
     Function(T, <<<<"Param", IF T = <<"void">> THEN IntType ELSE T, "a">>>>, Block(<<Var(T, "l", a), StaticVar(TRUE, T, "s", Null)>>,
       <<<<"Return", <<"Cast", T, a>>>>>>))>> : T \in VarTypes}

PrimitivePrograms == {After(<<"Vars", <<Var(<<PrimitiveTypes[r]>>, "v", Null)>>>>) : r \in DOMAIN PrimitiveTypes}

ParamPrograms ==
  LET p == <<"Param", IntType, "p">>
      q == <<"Param", <<"ptr", <<"user", "t">>>>, "q">> IN
  {After(Function(IntType, ps, Block(<<>>, <<>>))) :
     ps \in {<<p>>, <<p, VarArgs>>, <<p, q>>, <<p, q, VarArgs>>, <<VoidParam>>}}

Statements ==
  {<<"ExprStmt", a>>, <<"Return", a>>, <<"Return">>, <<"Break">>, <<"Continue">>, <<"Goto", "l">>,
   Block(<<>>, <<>>), Block(<<Var(IntType, "x", a), Var(<<"user", "t">>, "y", Null)>>, <<<<"ExprStmt", b>>, <<"Break">>>>)}
Compounds(s) ==
  <<<<"If", a, s, Null>>, <<"While", b, s>>, <<"DoWhile", s, a>>, <<"For", a, b, one, s>>,
    <<"Label", "l", s>>, Block(<<>>, <<s, s>>)>>

\* Every statement inside every other one, one after the other.
StatementPrograms ==
  {Doing(Compounds(s)) : s \in Statements}
  \cup {Doing(<<FoldLeft(LAMBDA s, k : Compounds(s)[k], <<"Break">>, <<1, 2, 3, 4, 5, 6, 1>>)>>)}

\* t names a type, a does not: the same tokens declare or multiply.
AmbiguousPrograms ==
  LET ptr == Var(<<"ptr", <<"user", "t">>>>, "b", Null)
      product == <<"ExprStmt", Apply("BinMul", a, b)>> IN
  {Doing(<<Block(<<ptr>>, <<product>>), product>>),
   <<Typedef("t", IntType), Typedef("a", IntType),
     Function(IntType, <<VoidParam>>, Block(<<Var(<<"ptr", <<"user", "a">>>>, "b", Null)>>, <<>>))>>}

\* The sources of src/test.
TestPrograms ==
  LET long == <<"long">>
      sum == Apply("BinSum", Apply("BinSum", a, b), <<"IntegerLiteral", "2">>)
      hoho == <<"Variable", "hoho">>
      n(k) == <<"IntegerLiteral", k>> IN
  {After(Function(<<"void">>, <<VoidParam>>, Block(<<Var(long, "hoho", n("20"))>>, <<<<"Return">>>>)))
     \o <<Function(IntType, <<<<"Param", IntType, "b">>>>,
            Block(<<Var(IntType, "a", Null), Var(IntType, "b", n("10"))>>,
                  <<<<"ExprStmt", Apply("Assign", a, sum)>>, <<"Return", b>>>>))>>,
   After(<<"Vars", <<Var(IntType, "a", Null), Var(IntType, "b", n("10"))>>>>),
   After(Function(<<"void">>, <<VoidParam>>,
     Block(<<Var(long, "hoho", n("20"))>>,
       <<Block(<<Var(<<"char">>, "hoho", n("1"))>>,
           <<Block(<<Var(<<"short">>, "hoho", n("0"))>>,
               <<<<"ExprStmt", Apply("Assign", hoho, Apply("BinSum", hoho, n("10")))>>>>),
             Block(<<>>, <<<<"ExprStmt", Apply("Assign", hoho, n("20"))>>>>)>>),
         <<"Return">>>>))),
   <<Record("aaa", <<Var(<<"record", "ccc">>, "c", Null)>>), Typedef("bbb", <<"record", "aaa">>),
     Record("ccc", <<Var(<<"user", "bbb">>, "d", Null)>>), <<"Vars", <<Var(<<"record", "aaa">>, "d", Null)>>>>>>}

ImportPrograms ==
  {<<<<"Import", <<"a", "b">>>>, Typedef("t", IntType)>>,
   <<<<"Import", <<"a", "b", "c">>>>, <<"Import", <<"b", "a">>>>>>}

SupportedPrograms ==
  {Returning(e) : e \in Expressions} \cup TypePrograms \cup PrimitivePrograms \cup ParamPrograms \cup StatementPrograms
    \cup AmbiguousPrograms \cup ImportPrograms \cup TestPrograms

\* Operators whose action builds the node of another one.
OperatorPrograms == {Returning(<<"UnaryOp", "Not", a>>), Returning(Apply("BitXor", a, b))}

\* Programs of LangSpec.txt with a construct the parser has a rule for.
FullPrograms ==
  LET call == <<"FuncCall", a, <<"Args", <<one>>>>>>
      p(name) == <<"Param", IntType, name>>
      method == Function(IntType, <<VoidParam>>, Block(<<>>, <<>>)) IN
  {Doing(<<s>>) : s \in {<<"Empty">>, <<"If", a, <<"Break">>, <<"Continue">>>>,
                        <<"For", Null, Null, Null, <<"Break">>>>,
                        <<"Switch", a, <<<<"Case", <<one>>, <<"Break">>>>>>>>}}
  \cup {Returning(e) : e \in {call, <<"SuffixOp", "Inc", a>>, <<"ArrayRef", a, one>>, <<"MemberRef", a, "b">>,
                             <<"PtrMemberRef", a, "b">>, <<"SizeofType", IntType>>}}
  \cup {After(d) : d \in {Function(IntType, <<p("a"), p("b"), p("c")>>, Block(<<>>, <<>>)),
                          Function(IntType, <<<<"Param", <<"ptr", <<"void">>>>, "p">>>>, Block(<<>>, <<>>)),
                          <<"Record", "R", <<>>, <<method>>>>,
                          Typedef("g", <<"function", IntType, <<IntType, IntType>>>>)}}

SwitchPrograms ==
  {Doing(<<<<"Switch", a, <<<<"Case", <<one>>, <<"Break">>>>, <<"Case", <<>>, <<"Break">>>>>>>>>>)}

-----------------------------------------------------------------------------
(* What a program means                                                     *)

NodesOf(ds, class) == Reverse(SelectSeq(ds, LAMBDA d : d[1] = class))

\* The declarations of a program: each list in the reverse of the source order,
\* the variables of one declaration in the order they are declared.
Meaning(ds) ==
  [imports   |-> [k \in DOMAIN NodesOf(ds, "Import") |-> <<"Import", Reverse(NodesOf(ds, "Import")[k][2])>>],
   functions |-> NodesOf(ds, "Function"),
   constants |-> NodesOf(ds, "ConstantDecl"),
   records   |-> NodesOf(ds, "Record"),
   typedefs  |-> [k \in DOMAIN NodesOf(ds, "Typedef") |-> <<"Typedef", NodesOf(ds, "Typedef")[k][2]>>],
   variables |-> FlattenSeq([k \in DOMAIN NodesOf(ds, "Vars") |-> NodesOf(ds, "Vars")[k][2]])]

\* The names that definitions outside of functions put into the type table.
TypeNames(ds) ==
  LET RECURSIVE Classes(_)
      Classes(type) == CASE type[1] = "record" -> {type[2]}
                         [] type[1] \in {"array", "ptr"} -> Classes(type[2])
                         [] OTHER -> {}
      Used(names, types) == [n \in UNION {Classes(t) : t \in types} \ DOMAIN names |-> <<"record">>] @@ names
      Add(names, d) ==
        CASE d[1] = "Typedef" -> NewName(Used(names, {d[3]}), d[2], <<"user", d[3]>>)
          [] d[1] = "Record" -> NewName(Used(names, {d[3][k][3] : k \in DOMAIN d[3]}), d[2], <<"record">>)
          [] OTHER -> names
  IN FoldLeft(Add, <<>>, ds)
=============================================================================
