------------------------------ MODULE Contexts ------------------------------
(***************************************************************************)
(* Pools of programs for the phases, as the parser leaves them: names in   *)
(* nested scopes, every kind of expression, void types, classes.           *)
(*                                                                         *)
(* Some of them the grammar has no way to yet (calls, array references and *)
(* member functions): the passes are written for their trees.              *)
(***************************************************************************)
EXTENDS Programs

x == <<"Variable", "x">>
y == <<"Variable", "y">>
v == <<"Variable", "v">>
f == <<"Variable", "f">>

Local(name) == Var(IntType, name, Null)
Fun(name, params, block) == <<"Function", FALSE, IntType, name, params, block>>
Param(type, name) == <<"Param", type, name>>
Do(e) == <<"ExprStmt", e>>
Set(l, r) == Do(Apply("Assign", l, r))

NameLists == {<<>>, <<"x">>, <<"y">>, <<"x", "y">>, <<"x", "x">>}
Locals(names) == [k \in DOMAIN names |-> Local(names[k])]

\* x and y in and behind a block, each declared, or not, at three places around it.
ScopePrograms ==
  {<<<<"Vars", Locals(globals)>>,
     Fun("f", <<Param(IntType, param)>>,
       Block(Locals(outer), <<Block(Locals(inner), <<Set(x, y)>>), Set(y, x)>>))>> :
     globals \in {<<>>, <<"x">>, <<"y", "x">>}, param \in {"x", "y", "z"}, outer \in NameLists \ {<<"x", "y">>}, inner \in NameLists}

\* Names at the top level and in initializers; and what stands behind the first
\* function, variable or constant of a list.
TopPrograms ==
  LET g(name, init) == <<"Vars", <<Var(IntType, name, init)>>>>
      c(name, init) == <<"ConstantDecl", IntType, name, init>>
      h(name, params, e) == Fun(name, params, Block(<<>>, <<Do(e)>>))
      p == <<Param(IntType, "p")>> IN
  {<<g("x", y), g("y", one)>>, <<g("y", one), g("x", y)>>, <<g("y", one), g("x", v)>>,
   <<c("x", one), g("x", one)>>, <<c("x", y), c("y", x)>>, <<g("f", one), h("f", p, x)>>,
   <<h("f", p, x), h("g", p, one)>>, <<h("f", p, one), h("g", p, x)>>, <<h("f", p, one), h("f", p, one)>>,
   <<h("f", <<p[1], p[1]>>, one)>>,
   <<h("f", p, <<"FuncCall", f, <<"Args", <<<<"Variable", "p">>>>>>>>)>>,
   <<g("x", one), h("f", p, <<"FuncCall", x, <<"Args", <<>>>>>>)>>,
   <<Fun("f", p, Block(<<Var(IntType, "y", x), Var(IntType, "x", one)>>, <<>>))>>}

\* Every statement, around names that are in scope.
AllStatements ==
  LET s == Set(x, one) IN
  <<<<"If", x, s, Null>>, <<"If", x, s, <<"Break">>>>, <<"While", x, s>>, <<"DoWhile", s, x>>, <<"For", x, x, x, s>>,
    <<"For", Null, Null, Null, <<"Continue">>>>, <<"Label", "l", s>>, <<"Goto", "l">>,
    <<"Switch", x, <<<<"Case", <<one, x>>, s>>>>>>, Block(<<>>, <<s, s>>), <<"Return">>, <<"Return", x>>>>

Args(es) == <<"Args", es>>

Exprs ==
  {Apply(op, x, y) : op \in {"Assign", "Cond", "LogicalAnd", "Add", "BinSum"}} \cup {Wrap(k, x) : k \in Wraps \cup {"Neg"}}
  \cup {Apply("Assign", l, one) : l \in {one, Wrap("PtrDereference", x), Apply("BinSum", x, y), <<"ArrayRef", v, one>>,
                                         <<"MemberRef", x, "m">>, <<"PtrMemberRef", x, "m">>, Wrap("Inc", x)}}
  \cup {<<"OpAssign", "Add", one, x>>, <<"SuffixOp", "Inc", x>>, <<"SizeofType", IntType>>,
        <<"FuncCall", f, Args(<<x, Apply("Assign", one, x)>>)>>, <<"FuncCall", <<"FuncCall", f, Args(<<>>)>>, Args(<<>>)>>,
        <<"ArrayRef", x, one>>, <<"ArrayRef", f, one>>, <<"ArrayRef", v, x>>, <<"ArrayRef", <<"ArrayRef", v, one>>, one>>,
        Apply("BinSum", <<"ArrayRef", v, one>>, <<"ArrayRef", x, one>>)}

ExprPrograms ==
  LET params == <<Param(<<"array", IntType>>, "v"), Param(IntType, "x")>>
      body(ss) == Block(<<Local("y")>>, ss) IN
  {<<Fun("f", params, body(<<Do(e)>>))>> : e \in Exprs} \cup {<<Fun("f", params, body(AllStatements))>>}
  \cup {<<Fun("f", params, body(<<Do(<<"ArrayRef", v, one>>)>>)), Fun("g", <<Param(IntType, "x")>>, Block(<<>>, <<>>))>>,
        <<Fun("f", <<params[2], VarArgs>>, Block(<<>>, <<Do(<<"ArrayRef", x, one>>)>>))>>,
        <<<<"ConstantDecl", <<"array", IntType>>, "c", Apply("Assign", x, <<"ArrayRef", <<"Variable", "c">>, one>>)>>,
          <<"Vars", <<Var(IntType, "x", Null)>>>>>>}

\* void, an array of it and one of such arrays at every place where a type may stand;
\* and functions with (void), alone and behind one that has parameters.
VoidPrograms ==
  LET T(place, at, type) == IF place = at THEN type ELSE IntType
      void == <<"void">>
      top(at, type) ==
        <<<<"Vars", <<Var(T("variable", at, type), "a", Null)>>>>, <<"ConstantDecl", T("constant", at, type), "c", one>>,
          Record("R", <<Var(T("member", at, type), "m", Null)>>)>>
      fun(at, type) ==
        Fun("f", <<Param(T("parameter", at, type), "p")>>,
          Block(<<>>, <<Block(<<Local("k"), Var(T("local", at, type), "l", Null)>>, <<>>)>>))
      nullary == Fun("g", <<VoidParam>>, Block(<<Local("k")>>, <<<<"Return">>>>))
      types == {void, <<"array", void>>, <<"array", <<"array", void>>>>, <<"ptr", void>>} IN
  {top(at, type) : at \in {"variable", "constant", "member"}, type \in types}
  \cup {Append(top(at, type), fun(at, type)) : at \in {"variable", "constant", "parameter", "local"}, type \in types}
  \cup {<<nullary>>, <<fun("none", void), nullary>>}

-----------------------------------------------------------------------------
(* Classes                                                                  *)

A == <<"record", "A">>
B == <<"record", "B">>
AliasOfB == <<"user", "t">>

MemberLists ==
  {<<>>} \cup {<<T>> : T \in {IntType, A, B, AliasOfB, <<"array", A>>, <<"array", B>>, <<"ptr", A>>}}
    \cup {<<T, U>> : T \in {IntType, A, B}, U \in {A, B, AliasOfB}}

Class(name, types) == Record(name, [k \in DOMAIN types |-> Var(types[k], <<"m", "n">>[k], Null)])

\* Two classes with up to two members; one defined twice, under the name of an
\* alias, or with a member function; three in a row.
ClassPrograms ==
  {<<Class("A", as), Typedef("t", B), Class("B", bs)>> : as, bs \in MemberLists}
  \cup {<<Class("A", <<IntType>>), Class("A", <<A>>)>>, <<Class("A", <<A>>), Class("A", <<IntType>>)>>,
        <<Typedef("A", IntType), Class("A", <<<<"user", "A">>>>)>>,
        <<Record("A", <<>>), <<"Record", "B", <<Var(A, "m", Null)>>, <<Fun("g", <<Param(IntType, "p")>>, Block(<<>>, <<>>))>>>>>>,
        <<Class("A", <<B>>), Class("B", <<<<"record", "C">>>>), Class("C", <<A>>)>>,
        <<Class("A", <<B>>), Class("B", <<<<"record", "C">>>>), Class("C", <<IntType, B>>)>>,
        <<Class("A", <<B>>)>>}

Programs == ScopePrograms \cup TopPrograms \cup ExprPrograms \cup VoidPrograms \cup ClassPrograms

Contexts == {[decls |-> Meaning(ds), types |-> TypeNames(ds)] : ds \in Programs}

TypesOfRefused == TypeNames(<<Class("A", <<A>>)>>)
=============================================================================
