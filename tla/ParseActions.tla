---------------------------- MODULE ParseActions ----------------------------
(***************************************************************************)
(* The semantic actions of sealang (src/src/Parser.cpp): what each matched *)
(* rule does to parse_stack_ and to the ASTContext.                        *)
(*                                                                         *)
(* An action maps a stack to its set of outcomes: no outcome when one of   *)
(* its asserts fires, several where it reads memory nothing initialised.   *)
(* Items keep type_ and rule_name_ of ParseInfo; the data_ union is node.  *)
(* AST nodes and types are tuples named after their C++ class.  The text   *)
(* of an identifier or a literal stands for itself.                        *)
(***************************************************************************)
EXTENDS AST, Grammar, SequencesExt

\* rule_name_ has no initialiser: items pushed without one hold this.
Unset == "uninitialised"
AnyRule == DOMAIN SeaGrammar \cup {Unset}

Item(type, rule, node) == [type |-> type, rule |-> rule, node |-> node]

\* The n-th item from the top, and the stack without the top n.
Nth(s, n) == s[Len(s) - n + 1]
Drop(s, n) == SubSeq(s, 1, Len(s) - n)

\* What an action asks of an item before it takes it.
Pattern(type, rules) == [type |-> type, rules |-> rules, expr |-> FALSE]
Node(rules) == Pattern("ASTNode", rules)
ExprNode(rules) == [Node(rules) EXCEPT !.expr = TRUE]
Identifier == Pattern("Identifier", AnyRule)
Name == Pattern("Identifier", {"name"})

Fits(item, pat) ==
  /\ item.type = pat.type /\ item.rule \in pat.rules
  /\ pat.expr => IsExprNode(item.node)

\* The top of the stack fits.  An empty stack holds nothing that does.
TopFits(s, pat) == s # <<>> /\ Fits(Nth(s, 1), pat)

\* Reads the items pats[1] (the top), pats[2], ..., and pushes one in their
\* place, made of their nodes in that order.
Reduce(s, pats, type, rule, Make(_)) ==
  IF Len(s) >= Len(pats) /\ \A n \in DOMAIN pats : Fits(Nth(s, n), pats[n])
  THEN {Append(Drop(s, Len(pats)),
               Item(type, rule, Make([n \in DOMAIN pats |-> Nth(s, n).node])))}
  ELSE {}

ReduceNode(s, pats, rule, Make(_)) == Reduce(s, pats, "ASTNode", rule, Make)

\* SetRuleNameForPI, once the top is what the action expects.
Rename(s, pat, rule) ==
  IF TopFits(s, pat) THEN {Append(Drop(s, 1), [Nth(s, 1) EXCEPT !.rule = rule])} ELSE {}

Push(s, type, rule, node) == {Append(s, Item(type, rule, node))}

\* How many items on top carry one of these rule names, whatever their type.
CountTop(s, rules) ==
  Len(s) - Max({0} \cup {k \in 1..Len(s) : s[k].rule \notin rules})

\* The nodes of the top n items, the top first.
TopNodes(s, n) == [k \in 1..n |-> Nth(s, k).node]

-----------------------------------------------------------------------------
(* Imports, names and storage                                               *)

\* The paths are kept as read; ImportStmt reverses them.  The copy of the first
\* name lacks its terminator: what the path holds may go on with garbage.
ImportAct(rule, s) ==
  CASE rule = "import_stmts" -> Rename(s, Node({"import_stmt"}), "import_stmts")
    [] rule = "import_stmt" ->
         ReduceNode(s, <<Node({"rep_dot_name"})>>, "import_stmt",
                    LAMBDA a : <<"Import", Reverse(a[1][2])>>)
    [] rule = "rep_dot_name" ->
         ReduceNode(s, <<Name, Node({"rep_dot_name"})>>, "rep_dot_name",
                    LAMBDA a : <<"Import", Append(a[2][2], a[1])>>)
         \cup UNION {ReduceNode(s, <<Name, Name>>, "rep_dot_name",
                       LAMBDA a : <<"Import", <<IF garbled THEN Unset ELSE a[2], a[1]>>>>) :
                       garbled \in BOOLEAN}

\* Storage sets no rule name.
NameAct(rule, s) ==
  CASE rule = "top_defs" ->
         IF s # <<>> /\ Nth(s, 1).rule \in {"deffunc", "defvars", "defconst", "defclass", "typedef_"}
         THEN {s} ELSE {}
    [] rule = "name" -> Rename(s, Identifier, "name")
    [] rule = "storage" -> Push(s, "StorageInfo", Unset, TRUE)

-----------------------------------------------------------------------------
(* Types                                                                    *)

DerivedTypes ==
  {"typeref_base", "seq_unassigned_array", "seq_assigned_array", "seq_ptr", "seq_func"}
BaseType == Pattern("ASTType", DerivedTypes)

TypeAct(rule, s) ==
  CASE rule = "type" ->
         ReduceNode(s, <<Pattern("ASTType", {"typeref"})>>, "type", LAMBDA a : <<"TypeNode", a[1]>>)
    [] rule = "typeref" -> Rename(s, BaseType, "typeref")
    [] rule = "seq_unassigned_array" ->
         Reduce(s, <<BaseType>>, "ASTType", rule, LAMBDA a : <<"array", a[1]>>)
    [] rule = "seq_assigned_array" ->
         Reduce(s, <<Pattern("Integer", AnyRule), BaseType>>, "ASTType", rule,
                LAMBDA a : <<"array", a[2], a[1]>>)
    [] rule = "seq_ptr" -> Reduce(s, <<BaseType>>, "ASTType", rule, LAMBDA a : <<"ptr", a[1]>>)
    [] rule = "seq_func" ->
         Reduce(s, <<Pattern("Types", {"param_typerefs"}), BaseType>>, "ASTType", rule,
                LAMBDA a : <<"function", a[2], a[1]>>)

PrimitiveTypes ==
  [seq_void |-> "void", seq_char |-> "char", seq_short |-> "short", seq_int |-> "int",
   seq_long |-> "long", seq_unsigned_char |-> "unsigned char",
   seq_unsigned_short |-> "unsigned short", seq_unsigned_int |-> "unsigned int",
   seq_unsigned_long |-> "unsigned long", seq_float |-> "float", seq_double |-> "double"]

BaseTypeRules == DOMAIN PrimitiveTypes \cup {"seq_class_identifier", "seq_user_type"}

PrimitiveTypeAct(rule, s) ==
  IF rule = "typeref_base"
  THEN Rename(s, Pattern("ASTType", BaseTypeRules), "typeref_base")
  ELSE Push(s, "ASTType", rule, <<PrimitiveTypes[rule]>>)

\* types is the type table: names of classes and aliases.  RecordType::Get takes
\* whatever has the name; only an alias counts as a user type.
NamedType(types, name) ==
  IF name \in DOMAIN types /\ types[name][1] = "user" THEN <<"user", name>> ELSE <<"record", name>>

NamedTypeAct(rule, s, types) ==
  CASE rule = "seq_class_identifier" ->
         Reduce(s, <<Identifier>>, "ASTType", rule, LAMBDA a : NamedType(types, a[1]))
    [] rule = "seq_user_type" ->
         IF TopFits(s, Identifier) /\ Nth(s, 1).node \in DOMAIN types
              /\ types[Nth(s, 1).node][1] = "user"
         THEN Reduce(s, <<Identifier>>, "ASTType", rule, LAMBDA a : <<"user", a[1]>>)
         ELSE {}
    \* UserType::Get refuses the name of a class and keeps the first alias of a name
    [] rule = "typedef_" ->
         IF TopFits(s, Identifier) /\ Nth(s, 1).node \in DOMAIN types
              /\ types[Nth(s, 1).node][1] = "record"
         THEN {}
         ELSE ReduceNode(s, <<Identifier, Pattern("ASTType", {"typeref"})>>, rule,
                         LAMBDA a : <<"Typedef", a[1]>>)

\* Act_rep_param_comma_type never reads the stack: its pi_type is uninitialised.
\* Either its assert fires or it lists a null type, which FunctionType::Get then
\* dereferences; no run gets past the function type.
ParamTypeAct(rule, s) ==
  CASE rule = "param_typerefs" ->
         Rename(s, Pattern("Types", {"seq_param_type_void", "seq_param_type_list"}), rule)
    [] rule = "seq_param_type_void" -> Push(s, "Types", rule, <<<<"void">>>>)
    [] rule = "seq_param_type_list" ->
         Rename(s, Pattern("Types", {"rep_param_comma_type", "opt_vararg_type"}), rule)
    [] rule = "rep_param_comma_type" -> {}
    [] rule = "opt_vararg_type" ->
         Reduce(s, <<Pattern("Types", {"rep_param_comma_type"})>>, "Types", rule,
                LAMBDA a : Append(a[1], <<"...">>))

-----------------------------------------------------------------------------
(* Functions and blocks                                                     *)

BraceOpen == Pattern("TokenType", {"TokBraceOpen"})

\* What a probe for StorageInfo finds: the static flag, and the stack it leaves.
\* Below an empty stack lies uninitialised memory, which may look like one.
ReadStorage(s) ==
  IF s = <<>> THEN {<<FALSE, s>>, <<TRUE, s>>}
  ELSE IF Nth(s, 1).type = "StorageInfo" THEN {<<TRUE, Drop(s, 1)>>} ELSE {<<FALSE, s>>}

\* DefFunc also compares the rule name that Storage has left unset.
ReadFunctionStorage(s) ==
  ReadStorage(s) \cup
  IF s # <<>> /\ Nth(s, 1).type = "StorageInfo" THEN {<<FALSE, s>>} ELSE {}

FunctionAct(s) ==
  LET pats == <<Node({"block"}), Pattern("ParamDeclList", {"params"}), Name,
                Pattern("ASTType", {"typeref"})>> IN
  UNION {LET Make(a) == <<"Function", st[1], a[4], a[3], a[2], a[1]>>
             below == st[2] IN
         ReduceNode(below \o SubSeq(s, Len(s) - 3, Len(s)), pats, "deffunc", Make) :
           st \in IF Len(s) < 4 THEN {} ELSE ReadFunctionStorage(Drop(s, 4))}

\* Lists come off the stack last first: statements are reversed once collected,
\* the variables of a list keep their order.
BlockAct(s) ==
  LET n == CountTop(s, {"defvar_list", "stmts"})
      lists == [k \in 1..n |-> Nth(s, k)]
      OfType(type) == FlattenSeq([k \in 1..n |-> IF lists[k].type = type THEN lists[k].node ELSE <<>>])
  IN IF \A k \in 1..n : lists[k].type \in {"VarDeclList", "StmtNodeList"}
     THEN ReduceNode(Drop(s, n), <<BraceOpen>>, "block",
            LAMBDA a : <<"Block", OfType("VarDeclList"), Reverse(OfType("StmtNodeList"))>>)
     ELSE {}

-----------------------------------------------------------------------------
(* Classes                                                                  *)

\* Members are collected from the last to the first and reversed at the end.
ClassAct(s) ==
  LET n == CountTop(s, {"seq_class_member_variable", "seq_class_member_function"})
      members == [k \in 1..n |-> Nth(s, k)]
      vars == FlattenSeq([k \in 1..n |->
                IF members[k].rule = "seq_class_member_variable" THEN Reverse(members[k].node) ELSE <<>>])
      funs == FlattenSeq([k \in 1..n |->
                IF members[k].rule = "seq_class_member_function" THEN <<members[k].node>> ELSE <<>>])
      typed == \A k \in 1..n :
                 members[k].type = IF members[k].rule = "seq_class_member_variable"
                                   THEN "VarDeclList" ELSE "ASTNode"
  IN IF typed
     THEN ReduceNode(Drop(s, n), <<BraceOpen, Name>>, "defclass",
                     LAMBDA a : <<"Record", a[2], Reverse(vars), Reverse(funs)>>)
     ELSE {}

MemberAct(rule, s) ==
  CASE rule = "seq_class_member_variable" -> Rename(s, Pattern("VarDeclList", {"defvars"}), rule)
    [] rule = "seq_class_member_function" -> Rename(s, Node({"deffunc"}), rule)

-----------------------------------------------------------------------------
(* Parameters                                                               *)

VoidParam == <<"Param", <<"void">>, "">>
VarArgs == <<"Param", <<"...">>, "...">>

\* A third parameter finds rep_comma_param below it, which nothing takes.
ParamAct(rule, s) ==
  CASE rule = "param" ->
         ReduceNode(s, <<Name, Node({"type"})>>, rule, LAMBDA a : <<"Param", a[2][2], a[1]>>)
    [] rule = "params" -> Rename(s, Pattern("ParamDeclList", {"seq_param_void", "seq_param_list"}), rule)
    [] rule = "seq_param_void" -> Push(s, "ParamDeclList", rule, <<VoidParam>>)
    [] rule = "seq_param_list" -> Rename(s, Pattern("ParamDeclList", {"opt_vararg", "fixedparams"}), rule)
    [] rule = "opt_vararg" ->
         Reduce(s, <<Pattern("ParamDeclList", {"fixedparams"})>>, "ParamDeclList", rule,
                LAMBDA a : Append(a[1], VarArgs))
    [] rule = "fixedparams" ->
         Reduce(s, <<Node({"param"})>>, "ParamDeclList", rule, LAMBDA a : <<a[1]>>)
         \cup Rename(s, Pattern("ParamDeclList", {"rep_comma_param"}), rule)
    [] rule = "rep_comma_param" ->
         Reduce(s, <<Node({"param"}), Node({"param"})>>, "ParamDeclList", rule,
                LAMBDA a : <<a[2], a[1]>>)
         \cup Reduce(s, <<Node({"param"}), Pattern("ParamDeclList", {"fixedparams"})>>,
                "ParamDeclList", rule, LAMBDA a : Append(a[2], a[1]))

-----------------------------------------------------------------------------
(* Variables and constants                                                  *)

\* The loop takes names, each with an initializer above it, down to a type.
VariablesFrom(s, t) ==
  /\ Fits(s[t], Node({"type"})) /\ Fits(s[t + 1], Name)
  /\ \A k \in t + 1..Len(s) :
       Fits(s[k], Name) \/ (Fits(s[k], ExprNode({"expr"})) /\ Fits(s[k - 1], Name))

Variables(s, t, static) ==
  LET names == SetToSortSeq({k \in t + 1..Len(s) : Fits(s[k], Name)}, <)
      Init(k) == IF k < Len(s) /\ ~Fits(s[k + 1], Name) THEN s[k + 1].node ELSE Null
  IN [n \in DOMAIN names |->
        <<"VariableDecl", static, s[t].node[2], s[names[n]].node, Init(names[n])>>]

DefVarsAct(s) ==
  UNION {UNION {Push(st[2], "VarDeclList", "defvars", Variables(s, t, st[1])) :
                  st \in ReadStorage(SubSeq(s, 1, t - 1))} :
           t \in {t \in 1..Len(s) - 1 : VariablesFrom(s, t)}}

VariableAct(rule, s) ==
  CASE rule = "defvars" -> DefVarsAct(s)
    [] rule = "defconst" ->
         ReduceNode(s, <<Node({"expr"}), Name, Node({"type"})>>, rule,
                    LAMBDA a : <<"ConstantDecl", a[3][2], a[2], a[1]>>)
    [] rule = "defvar_list" ->
         LET merged == Reduce(s, <<Pattern("VarDeclList", {"defvars"}),
                                   Pattern("VarDeclList", {"defvar_list"})>>,
                              "VarDeclList", rule, LAMBDA a : a[2] \o a[1])
         IN IF merged # {} THEN merged ELSE Rename(s, Pattern("VarDeclList", {"defvars"}), rule)

-----------------------------------------------------------------------------
(* Operands                                                                 *)

UnaryRules ==
  {"seq_preinc_unary", "seq_predec_unary", "seq_pos_term", "seq_neg_term", "seq_not_term",
   "seq_bitnot_term", "seq_ptr_term", "seq_adr_term", "seq_sizeof_type", "seq_sizeof_unary"}

TermAct(rule, s) ==
  CASE rule = "term" -> Rename(s, ExprNode({"seq_type_term", "unary"}), rule)
    [] rule = "seq_type_term" ->
         ReduceNode(s, <<ExprNode({"term"}), Node({"type"})>>, rule, LAMBDA a : <<"Cast", a[2][2], a[1]>>)
    \* the postfix rules are not among those taken here
    [] rule = "unary" -> Rename(s, Node(UnaryRules \cup {"primary"}), rule)

PrefixAct(rule, s) ==
  LET Operand == ExprNode(AnyRule)
      Make(e) ==
        CASE rule = "seq_preinc_unary" -> <<"PrefixOp", "Inc", e>>
          [] rule = "seq_predec_unary" -> <<"PrefixOp", "Dec", e>>
          [] rule = "seq_pos_term" -> <<"UnaryOp", "Pos", e>>
          [] rule = "seq_neg_term" -> <<"UnaryOp", "Neg", e>>
          [] rule = "seq_not_term" -> <<"UnaryOp", "Not", e>>
  IN ReduceNode(s, <<Operand>>, rule, LAMBDA a : Make(a[1]))

\* Act_seq_sizeof_type wants an expression where the rule has left a type.
AddressAct(rule, s) ==
  LET Operand == ExprNode(IF rule = "seq_bitnot_term" THEN {"term"} ELSE AnyRule)
      Make(e) ==
        CASE rule = "seq_bitnot_term" -> <<"UnaryOp", "BitNot", e>>
          [] rule = "seq_ptr_term" -> <<"PtrDereference", e>>
          [] rule = "seq_adr_term" -> <<"Address", e>>
          [] rule = "seq_sizeof_type" -> <<"SizeofType", e>>
          [] rule = "seq_sizeof_unary" -> <<"SizeofExpr", e>>
  IN ReduceNode(s, <<Operand>>, rule, LAMBDA a : Make(a[1]))

PostfixAct(rule, s) ==
  LET Operand == ExprNode(AnyRule) IN
  CASE rule = "postfix" -> IF TopFits(s, Node(AnyRule)) THEN {s} ELSE {}
    [] rule = "seq_post_inc" -> ReduceNode(s, <<Operand>>, rule, LAMBDA a : <<"SuffixOp", "Inc", a[1]>>)
    [] rule = "seq_post_dec" -> ReduceNode(s, <<Operand>>, rule, LAMBDA a : <<"SuffixOp", "Dec", a[1]>>)
    [] rule = "seq_array_reference" ->
         ReduceNode(s, <<Operand, Operand>>, rule, LAMBDA a : <<"ArrayRef", a[2], a[1]>>)
    [] rule = "seq_dot_name" ->
         ReduceNode(s, <<Identifier, Operand>>, rule, LAMBDA a : <<"MemberRef", a[2], a[1]>>)
    [] rule = "seq_arrow_name" ->
         ReduceNode(s, <<Identifier, Operand>>, rule, LAMBDA a : <<"PtrMemberRef", a[2], a[1]>>)

IsArgs(item) == item.type = "ASTNode" /\ item.node[1] = "Args"

\* Args takes the ArgsNode off and, when it was one, does not put it back.
CallAct(rule, s) ==
  LET n == Len(s)
      arg == n >= 1 /\ s[n].type = "ASTNode" /\ IsExprNode(s[n].node)
  IN
  CASE rule = "seq_fncall" ->
         IF n >= 2 /\ IsArgs(s[n]) /\ Fits(s[n - 1], ExprNode(AnyRule))
         THEN Push(Drop(s, 2), "ASTNode", rule, <<"FuncCall", s[n - 1].node, s[n].node>>)
         ELSE {}
    [] rule = "args" ->
         IF n >= 1 /\ IsArgs(s[n]) THEN {Drop(s, 1)}
         ELSE Push(Drop(s, 1), "ASTNode", rule, <<"Args", <<>>>>)
    [] rule = "seq_args_expr" ->
         IF arg THEN Push(Drop(s, 1), "ASTNode", rule, <<"Args", <<s[n].node>>>>) ELSE {}
    [] rule = "rep_args_expr" ->
         IF arg /\ n >= 2 /\ IsArgs(s[n - 1])
         THEN Push(Drop(s, 2), "ASTNode", rule, <<"Args", Append(s[n - 1].node[2], s[n].node)>>)
         ELSE {}

\* "(" expr ")" has no other effect: its action may answer False, which
\* TraverseRule takes for success.
PrimaryAct(rule, s) ==
  LET Literal(type, class) ==
        ReduceNode(s, <<Pattern(type, AnyRule)>>, "primary", LAMBDA a : <<class, a[1]>>)
  IN
  CASE rule = "seq_po_expr_pc" -> {s}
    [] rule = "primary" ->
         Literal("Integer", "IntegerLiteral") \cup Literal("String", "StringLiteral")
           \cup Literal("Identifier", "Variable")
           \cup Rename(s, ExprNode({"expr"}), "primary")

-----------------------------------------------------------------------------
(* Expressions                                                              *)

\* lhs operator rhs: the operand just read and the one below it.
Infix(s, rule, rhs, lhs, Make(_, _)) ==
  ReduceNode(s, <<Node(rhs), Node(lhs)>>, rule, LAMBDA a : Make(a[2], a[1]))

\* Faulty variants: the operands change places; the left one stays on the stack.
BinaryOpSwapped(s, rule, op, rhs, lhs) ==
  Infix(s, rule, rhs, lhs, LAMBDA l, r : <<"BinaryOp", op, r, l>>)
BinaryOpKeepsLeft(s, rule, op, rhs, lhs) ==
  ReduceNode(s, <<Node(rhs)>>, rule, LAMBDA a : <<"BinaryOp", op, Nth(s, 2).node, a[1]>>)

BinaryOp(s, rule, op, rhs, lhs) == Infix(s, rule, rhs, lhs, LAMBDA l, r : <<"BinaryOp", op, l, r>>)

ExprAct(rule, s) ==
  CASE rule = "expr" -> Rename(s, ExprNode({"seq_assign_value", "seq_opassign_value", "expr10"}), rule)
    [] rule = "seq_assign_value" ->
         ReduceNode(s, <<ExprNode({"expr"}), Node({"term"})>>, rule, LAMBDA a : <<"Assign", a[2], a[1]>>)

AssignOps ==
  [TokComAdd |-> "Add", TokComSub |-> "Sub", TokComMul |-> "Mul", TokComDiv |-> "Div",
   TokComMod |-> "Mod", TokComBitAnd |-> "BitAnd", TokComBitOr |-> "BitOr",
   TokComBitXor |-> "BitXor", TokComBitShiftL |-> "ShiftL", TokComBitShiftR |-> "ShiftR"]

\* The operator is the token behind the current one.
OpAssignAct(rule, tokens, pos, s) ==
  CASE rule = "opassign_op" -> Push(s, "TokenType", rule, tokens[pos].type)
    [] rule = "seq_opassign_value" ->
         ReduceNode(s, <<ExprNode({"expr"}), Pattern("TokenType", {"opassign_op"}), Node({"term"})>>,
                    rule, LAMBDA a : <<"OpAssign", AssignOps[a[2]], a[3], a[1]>>)

\* CondExprNode is made without its condition, which Expr10 then sets.
Expr10Act(rule, s) ==
  CASE rule = "expr10" ->
         ReduceNode(s, <<Node({"opt_ternaryop"}), Node({"expr9"})>>, rule,
                    LAMBDA a : <<"Cond", a[2], a[1][2], a[1][3]>>)
         \cup Rename(s, Node({"expr9"}), rule)
    [] rule = "opt_ternaryop" ->
         ReduceNode(s, <<Node({"expr10"}), Node({"expr"})>>, rule, LAMBDA a : <<"CondTail", a[2], a[1]>>)

Expr9Act(rule, s) ==
  LET lhs == {"expr8", "rep_or_expr8"} IN
  CASE rule = "expr9" -> Rename(s, Node(lhs), rule)
    [] rule = "rep_or_expr8" -> Infix(s, rule, {"expr8"}, lhs, LAMBDA l, r : <<"LogicalOr", l, r>>)

Expr8Act(rule, s) ==
  LET lhs == {"expr7", "rep_and_expr7"} IN
  CASE rule = "expr8" -> Rename(s, Node(lhs), rule)
    [] rule = "rep_and_expr7" -> Infix(s, rule, {"expr7"}, lhs, LAMBDA l, r : <<"LogicalAnd", l, r>>)

CompareOps ==
  [seq_gr_expr6 |-> "GreatorThan", seq_ls_expr6 |-> "LessThan", seq_geq_expr6 |-> "GreatorThanEq",
   seq_leq_expr6 |-> "LessThanEq", seq_eq_expr6 |-> "Equal", seq_neq_expr6 |-> "NotEqual"]

Expr7Act(rule, s) ==
  LET lhs == {"expr6"} \cup DOMAIN CompareOps IN
  IF rule = "expr7" THEN Rename(s, Node(lhs), rule)
  ELSE BinaryOp(s, rule, CompareOps[rule], {"expr6"}, lhs)

Expr6Act(rule, s) ==
  LET lhs == {"expr5", "rep_bitor_expr5"} IN
  CASE rule = "expr6" -> Rename(s, Node(lhs), rule)
    [] rule = "rep_bitor_expr5" -> BinaryOp(s, rule, "BitOr", {"expr5"}, lhs)

\* Act_rep_bitxor_expr4 builds a BitOr.
Expr5Act(rule, s) ==
  LET lhs == {"expr4", "rep_bitxor_expr4"} IN
  CASE rule = "expr5" -> Rename(s, Node(lhs), rule)
    [] rule = "rep_bitxor_expr4" -> BinaryOp(s, rule, "BitOr", {"expr4"}, lhs)

Expr4Act(rule, s) ==
  LET lhs == {"expr3", "rep_bitand_expr3"} IN
  CASE rule = "expr4" -> Rename(s, Node(lhs), rule)
    [] rule = "rep_bitand_expr3" -> BinaryOp(s, rule, "BitAnd", {"expr3"}, lhs)

ArithmeticOps ==
  [seq_rshft_expr2 |-> "BitShiftRight", seq_lshft_expr2 |-> "BitShiftLeft",
   seq_sum_expr1 |-> "BinSum", seq_sub_expr1 |-> "BinSub",
   seq_mul_term |-> "BinMul", seq_div_term |-> "BinDiv", seq_mod_term |-> "BinMod"]

Expr3Act(rule, s) ==
  LET lhs == {"expr2", "seq_rshft_expr2", "seq_lshft_expr2"} IN
  IF rule = "expr3" THEN Rename(s, Node(lhs), rule)
  ELSE BinaryOp(s, rule, ArithmeticOps[rule], {"expr2"}, lhs)

Expr2Act(rule, s) ==
  LET lhs == {"expr1", "seq_sum_expr1", "seq_sub_expr1"} IN
  IF rule = "expr2" THEN Rename(s, Node(lhs), rule)
  ELSE BinaryOp(s, rule, ArithmeticOps[rule], {"expr1"}, lhs)

Expr1Act(rule, s) ==
  LET lhs == {"term", "seq_mul_term", "seq_div_term", "seq_mod_term"} IN
  IF rule = "expr1" THEN Rename(s, Node(lhs), rule)
  ELSE BinaryOp(s, rule, ArithmeticOps[rule], {"term"}, lhs)

-----------------------------------------------------------------------------
(* Statements                                                               *)

StmtRules ==
  {"labeled_stmt", "expr_stmt", "block", "if_stmt", "while_stmt", "dowhile_stmt", "for_stmt",
   "switch_stmt", "break_stmt", "continue_stmt", "goto_stmt", "return_stmt"}

\* Every iteration of stmts wraps the statements on top into a list of its own.
\* An empty statement leaves nothing for stmt to find.
StmtAct(rule, s) ==
  CASE rule = "stmts" ->
         LET n == CountTop(s, {"stmt"}) IN
         IF \A k \in 1..n : Nth(s, k).type = "ASTNode"
         THEN Push(Drop(s, n), "StmtNodeList", rule, Reverse(TopNodes(s, n)))
         ELSE {}
    [] rule = "stmt" -> Rename(s, Node(StmtRules), rule)
    [] rule = "labeled_stmt" ->
         ReduceNode(s, <<Node({"stmt"}), Identifier>>, rule, LAMBDA a : <<"Label", a[2], a[1]>>)
    [] rule = "expr_stmt" -> ReduceNode(s, <<Node({"expr"})>>, rule, LAMBDA a : <<"ExprStmt", a[1]>>)

\* With an else body IfStmt tests that body, renamed opt_else_stmt, where it
\* means the then body; without one the two are the same item.
IfAct(rule, s) ==
  CASE rule = "if_stmt" ->
         IF TopFits(s, Node({"opt_else_stmt"})) THEN {}
         ELSE ReduceNode(s, <<Node({"stmt"}), Node({"expr"})>>, rule, LAMBDA a : <<"If", a[2], a[1], Null>>)
    [] rule = "opt_else_stmt" -> Rename(s, Node({"stmt"}), rule)

LoopAct(rule, s) ==
  CASE rule = "while_stmt" ->
         ReduceNode(s, <<Node({"stmt"}), Node({"expr"})>>, rule, LAMBDA a : <<"While", a[2], a[1]>>)
    [] rule = "dowhile_stmt" ->
         ReduceNode(s, <<Node({"expr"}), Node({"stmt"})>>, rule, LAMBDA a : <<"DoWhile", a[2], a[1]>>)

\* Faulty variant: the clauses are taken in the order they were pushed.
ForActUnreversed(rule, s) ==
  IF rule = "for_stmt"
  THEN ReduceNode(s, <<Node({"stmt"}), Node({"opt_for_inc_expr"}), Node({"opt_for_cond_expr"}),
                       Node({"opt_for_init_expr"})>>, rule,
                  LAMBDA a : <<"For", a[2], a[3], a[4], a[1]>>)
  ELSE Rename(s, Node({"expr"}), rule)

ForAct(rule, s) ==
  IF rule = "for_stmt"
  THEN ReduceNode(s, <<Node({"stmt"}), Node({"opt_for_inc_expr"}), Node({"opt_for_cond_expr"}),
                       Node({"opt_for_init_expr"})>>, rule,
                  LAMBDA a : <<"For", a[4], a[3], a[2], a[1]>>)
  ELSE Rename(s, Node({"expr"}), rule)

\* SwitchStmt does not expect the TokBraceOpen item that the brace has pushed.
SwitchAct(rule, s) ==
  CASE rule = "switch_stmt" ->
         ReduceNode(s, <<Pattern("CaseNodeList", {"case_clauses"}), Node({"expr"})>>, rule,
                    LAMBDA a : <<"Switch", a[2], a[1]>>)
    [] rule = "case_clauses" ->
         LET n == CountTop(s, {"case_clause", "default_clause"}) IN
         IF \A k \in 1..n : Nth(s, k).type = "ASTNode"
         THEN Push(Drop(s, n), "CaseNodeList", rule, Reverse(TopNodes(s, n)))
         ELSE {}

CaseAct(rule, s) ==
  CASE rule = "default_clause" ->
         ReduceNode(s, <<Node({"case_body"})>>, rule, LAMBDA a : <<"Case", <<>>, a[1]>>)
    [] rule = "case_clause" ->
         ReduceNode(s, <<Node({"case_body"}), Pattern("ExprNodeList", {"case_list"})>>, rule,
                    LAMBDA a : <<"Case", a[2], a[1]>>)
    [] rule = "case_list" ->
         LET longer == Reduce(s, <<Node({"primary"}), Pattern("ExprNodeList", {"case_list"})>>,
                              "ExprNodeList", rule, LAMBDA a : Append(a[2], a[1]))
         IN IF longer # {} THEN longer
            ELSE Reduce(s, <<Node({"primary"})>>, "ExprNodeList", rule, LAMBDA a : a)
    [] rule = "case_body" -> Rename(s, Node({"stmt"}), rule)

JumpAct(rule, s) ==
  CASE rule = "break_stmt" -> Push(s, "ASTNode", rule, <<"Break">>)
    [] rule = "continue_stmt" -> Push(s, "ASTNode", rule, <<"Continue">>)
    [] rule = "goto_stmt" -> ReduceNode(s, <<Identifier>>, rule, LAMBDA a : <<"Goto", a[1]>>)
    [] rule = "return_stmt" -> Rename(s, Node({"seq_return", "seq_return_expr"}), rule)
    [] rule = "seq_return" -> Push(s, "ASTNode", rule, <<"Return">>)
    [] rule = "seq_return_expr" ->
         ReduceNode(s, <<Node({"expr"})>>, rule, LAMBDA a : <<"Return", a[1]>>)

-----------------------------------------------------------------------------
(* Tokens                                                                   *)

\* The destructor of the ParseInfo of a character deletes the character itself.
TokenAct(rule, tok, s) ==
  CASE rule = "TokIntegerLiteral" -> Push(s, "Integer", Unset, tok.c)
    [] rule = "TokStringLiteral" -> Push(s, "String", Unset, tok.c)
    [] rule = "TokIdentifier" -> Push(s, "Identifier", Unset, tok.c)
    [] rule = "TokBraceOpen" -> Push(s, "TokenType", rule, tok.type)
    [] rule = "TokCharactorLiteral" -> {}

-----------------------------------------------------------------------------
(* The translation unit                                                     *)

TopLevelLists ==
  [imports |-> "import_stmts", functions |-> "deffunc", constants |-> "defconst",
   records |-> "defclass", typedefs |-> "typedef_"]

\* CompilationUnit empties the stack from the top, so every list of
\* declarations is in the reverse of the source order.  Other AST nodes and
\* variable lists are dropped, any other item is an error.
Declarations(s) ==
  LET n == Len(s)
      OfRule(type, rule) == SelectSeq(Reverse(s), LAMBDA x : x.type = type /\ x.rule = rule)
      NodesOf(items) == [k \in DOMAIN items |-> items[k].node]
  IN [list \in DOMAIN TopLevelLists |-> NodesOf(OfRule("ASTNode", TopLevelLists[list]))]
       @@ [variables |-> FlattenSeq(NodesOf(OfRule("VarDeclList", "defvars")))]

UnitAct(s) == IF \A k \in 1..Len(s) : s[k].type \in {"ASTNode", "VarDeclList"} THEN {<<>>} ELSE {}

\* What an action leaves in the ASTContext: new names in the type table (the
\* class of a definition only once its body has been parsed), the declarations.
NewName(types, name, type) == IF name \in DOMAIN types THEN types ELSE types @@ (name :> type)

Context(rule, s, t, ac) ==
  CASE rule = "seq_class_identifier" ->
         [ac EXCEPT !.types = NewName(@, Nth(s, 1).node, <<"record">>)]
    [] rule = "typedef_" -> [ac EXCEPT !.types = NewName(@, Nth(s, 1).node, <<"user", Nth(s, 2).node>>)]
    [] rule = "defclass" -> [ac EXCEPT !.types = NewName(@, Nth(t, 1).node[2], <<"record">>)]
    [] rule = "compilation_unit" -> [ac EXCEPT !.decls = Declarations(s)]
    [] OTHER -> ac

-----------------------------------------------------------------------------

\* The table rule_actions_ (InitSuccessAction); a rule without an action
\* leaves the stack alone.
StackAct(rule, tokens, pos, s, types) ==
  CASE rule = "compilation_unit" -> UnitAct(s)
    [] rule \in {"import_stmts", "import_stmt", "rep_dot_name"} -> ImportAct(rule, s)
    [] rule \in {"top_defs", "name", "storage"} -> NameAct(rule, s)
    [] rule \in {"type", "typeref", "seq_unassigned_array", "seq_assigned_array", "seq_ptr", "seq_func"} ->
         TypeAct(rule, s)
    [] rule \in {"typeref_base"} \cup DOMAIN PrimitiveTypes -> PrimitiveTypeAct(rule, s)
    [] rule \in {"seq_class_identifier", "seq_user_type", "typedef_"} -> NamedTypeAct(rule, s, types)
    [] rule \in {"param_typerefs", "seq_param_type_void", "seq_param_type_list",
                 "rep_param_comma_type", "opt_vararg_type"} -> ParamTypeAct(rule, s)
    [] rule = "deffunc" -> FunctionAct(s)
    [] rule = "block" -> BlockAct(s)
    [] rule = "defclass" -> ClassAct(s)
    [] rule \in {"seq_class_member_variable", "seq_class_member_function"} -> MemberAct(rule, s)
    [] rule \in {"param", "params", "seq_param_void", "seq_param_list", "opt_vararg", "fixedparams",
                 "rep_comma_param"} -> ParamAct(rule, s)
    [] rule \in {"defvars", "defconst", "defvar_list"} -> VariableAct(rule, s)
    [] rule \in {"term", "seq_type_term", "unary"} -> TermAct(rule, s)
    [] rule \in {"seq_preinc_unary", "seq_predec_unary", "seq_pos_term", "seq_neg_term", "seq_not_term"} ->
         PrefixAct(rule, s)
    [] rule \in {"seq_bitnot_term", "seq_ptr_term", "seq_adr_term", "seq_sizeof_type",
                 "seq_sizeof_unary"} -> AddressAct(rule, s)
    [] rule \in {"postfix", "seq_post_inc", "seq_post_dec", "seq_array_reference", "seq_dot_name",
                 "seq_arrow_name"} -> PostfixAct(rule, s)
    [] rule \in {"seq_fncall", "args", "seq_args_expr", "rep_args_expr"} -> CallAct(rule, s)
    [] rule \in {"primary", "seq_po_expr_pc"} -> PrimaryAct(rule, s)
    [] rule \in {"expr", "seq_assign_value"} -> ExprAct(rule, s)
    [] rule \in {"opassign_op", "seq_opassign_value"} -> OpAssignAct(rule, tokens, pos, s)
    [] rule \in {"expr10", "opt_ternaryop"} -> Expr10Act(rule, s)
    [] rule \in {"expr9", "rep_or_expr8"} -> Expr9Act(rule, s)
    [] rule \in {"expr8", "rep_and_expr7"} -> Expr8Act(rule, s)
    [] rule \in {"expr7"} \cup DOMAIN CompareOps -> Expr7Act(rule, s)
    [] rule \in {"expr6", "rep_bitor_expr5"} -> Expr6Act(rule, s)
    [] rule \in {"expr5", "rep_bitxor_expr4"} -> Expr5Act(rule, s)
    [] rule \in {"expr4", "rep_bitand_expr3"} -> Expr4Act(rule, s)
    [] rule \in {"expr3", "seq_rshft_expr2", "seq_lshft_expr2"} -> Expr3Act(rule, s)
    [] rule \in {"expr2", "seq_sum_expr1", "seq_sub_expr1"} -> Expr2Act(rule, s)
    [] rule \in {"expr1", "seq_mul_term", "seq_div_term", "seq_mod_term"} -> Expr1Act(rule, s)
    [] rule \in {"stmts", "stmt", "labeled_stmt", "expr_stmt"} -> StmtAct(rule, s)
    [] rule \in {"if_stmt", "opt_else_stmt"} -> IfAct(rule, s)
    [] rule \in {"while_stmt", "dowhile_stmt"} -> LoopAct(rule, s)
    [] rule \in {"for_stmt", "opt_for_init_expr", "opt_for_cond_expr", "opt_for_inc_expr"} -> ForAct(rule, s)
    [] rule \in {"switch_stmt", "case_clauses"} -> SwitchAct(rule, s)
    [] rule \in {"default_clause", "case_clause", "case_list", "case_body"} -> CaseAct(rule, s)
    [] rule \in {"break_stmt", "continue_stmt", "goto_stmt", "return_stmt", "seq_return",
                 "seq_return_expr"} -> JumpAct(rule, s)
    [] rule \in {"TokIntegerLiteral", "TokCharactorLiteral", "TokStringLiteral", "TokIdentifier",
                 "TokBraceOpen"} -> TokenAct(rule, tokens[pos + 1], s)
    [] OTHER -> {s}

ParseAct(rule, tokens, pos, s, ac) ==
  {[stack |-> t, ac |-> Context(rule, s, t, ac)] : t \in StackAct(rule, tokens, pos, s, ac.types)}

\* The table rule_fail_actions_ (InitFailAction): a closing brace or
\* parenthesis is never optional, and only the end may follow the definitions.
ParseFailAct(rule, tokens, pos) ==
  \/ rule \in {"TokBraceClose", "TokParenClose"}
  \/ rule = "top_defs" /\ tokens[pos + 1].type # "TokEof"

ParseHasType(ac, tok) == tok.c \in DOMAIN ac.types

EmptyContext == [types |-> <<>>, decls |-> Null]
=============================================================================
