------------------------------ MODULE Grammar ------------------------------
(***************************************************************************)
(* The rule table of sealang, as SyntaxAnalyzer::InitBasicRule fills it    *)
(* (src/src/ParserGrammer.cpp): for every rule its action_ (the kind), its *)
(* lookahead_ and its sub_rules_.                                          *)
(***************************************************************************)
EXTENDS Naturals, Sequences, TLC

Rule(kind, lookahead, subs) ==
  [action_ |-> kind, lookahead_ |-> lookahead, sub_rules_ |-> subs]

Sequence(lookahead, subs) == Rule("Sequence", lookahead, subs)
Select(subs) == Rule("Select", 0, subs)
RepeatStar(subs) == Rule("RepeatStar", 0, subs)
RepeatDagger(subs) == Rule("RepeatDagger", 0, subs)
Options(subs) == Rule("Options", 0, subs)

\* The enum Lexer::TokenType up to TokEnd.
TokenType ==
  {"TokUnknown", "TokEof", "TokImport", "TokStatic", "TokIf", "TokElse", "TokDo", "TokWhile",
   "TokReturn", "TokFor", "TokBreak", "TokTypeDef", "TokConst", "TokSwitch", "TokCase",
   "TokDefault", "TokContinue", "TokGoto", "TokSizeOf", "TokSigned", "TokUnsigned", "TokChar",
   "TokShort", "TokInt", "TokLong", "TokFloat", "TokDouble", "TokVoid", "TokClass",
   "TokComBitShiftL", "TokComBitShiftR", "TokDotDotDot", "TokBitShiftL", "TokBitShiftR",
   "TokUnaryInc", "TokUnaryDec", "TokComAdd", "TokComSub", "TokComMul", "TokComDiv", "TokComMod",
   "TokComBitAnd", "TokComBitOr", "TokComBitXor", "TokEqual", "TokNotEqual", "TokLessThanEqual",
   "TokGreatorThenEqual", "TokConAnd", "TokConOr", "TokRightArrow", "TokAdd", "TokSub", "TokMul",
   "TokDiv", "TokMod", "TokAssign", "TokBitAnd", "TokBitOr", "TokBitXor", "TokBitNot",
   "TokLessThan", "TokGreatorThan", "TokConNot", "TokQuestion", "TokParenOpen", "TokParenClose",
   "TokBraceOpen", "TokBraceClose", "TokBracketOpen", "TokBracketClose", "TokComma", "TokDot",
   "TokColon", "TokSemiColon", "TokDoubleQuot", "TokSingleQuot", "TokStarRemark",
   "TokLineRemark", "TokIdentifier", "TokIntegerLiteral", "TokStringLiteral",
   "TokCharactorLiteral"}

\* Every token is a rule of its own.
TokenRules == [t \in TokenType |-> Rule("Terminal", 0, <<t>>)]

\* Translation units, base types and imports.
UnitGrammar == [
  compilation_unit |-> Sequence(0, <<"import_stmts", "top_defs", "TokEof">>),
  typeref_base |-> Select(<<"seq_void", "seq_char", "seq_short", "seq_int", "seq_long",
      "seq_unsigned_char", "seq_unsigned_short", "seq_unsigned_int", "seq_unsigned_long",
      "seq_float", "seq_double", "seq_class_identifier", "seq_user_type">>),
  seq_void |-> Sequence(0, <<"TokVoid">>),
  seq_char |-> Sequence(0, <<"TokChar">>),
  seq_short |-> Sequence(0, <<"TokShort">>),
  seq_int |-> Sequence(0, <<"TokInt">>),
  seq_long |-> Sequence(0, <<"TokLong">>),
  seq_unsigned_char |-> Sequence(2, <<"TokUnsigned", "TokChar">>),
  seq_unsigned_short |-> Sequence(2, <<"TokUnsigned", "TokShort">>),
  seq_unsigned_int |-> Sequence(2, <<"TokUnsigned", "TokInt">>),
  seq_unsigned_long |-> Sequence(2, <<"TokUnsigned", "TokLong">>),
  seq_float |-> Sequence(0, <<"TokFloat">>),
  seq_double |-> Sequence(0, <<"TokDouble">>),
  seq_class_identifier |-> Sequence(0, <<"TokClass", "TokIdentifier">>),
  seq_user_type |-> Sequence(16, <<"TokIdentifier">>),
  import_stmts |-> RepeatStar(<<"import_stmt">>),
  import_stmt |-> Sequence(0, <<"TokImport", "name", "rep_dot_name", "TokSemiColon">>),
  rep_dot_name |-> RepeatStar(<<"TokDot", "name">>),
  name |-> Sequence(0, <<"TokIdentifier">>),
  top_defs |-> RepeatStar(<<"sel_fun_var_const_class_typedef">>),
  sel_fun_var_const_class_typedef |-> Select(<<"deffunc", "defvars", "defconst", "defclass",
      "typedef_">>)]

\* Type definitions and derived types.
TypeGrammar == [
  typedef_ |-> Sequence(0, <<"TokTypeDef", "typeref", "TokIdentifier", "TokSemiColon">>),
  typeref |-> Sequence(0, <<"typeref_base", "rep_sel_arry_ptr_fnptr">>),
  rep_sel_arry_ptr_fnptr |-> RepeatStar(<<"sel_arry_ptr_fnptr">>),
  sel_arry_ptr_fnptr |-> Select(<<"seq_unassigned_array", "seq_assigned_array", "seq_ptr",
      "seq_func">>),
  seq_unassigned_array |-> Sequence(0, <<"TokBracketOpen", "TokBracketClose">>),
  seq_assigned_array |-> Sequence(0, <<"TokBracketOpen", "TokIntegerLiteral",
      "TokBracketClose">>),
  seq_ptr |-> Sequence(0, <<"TokMul">>),
  seq_func |-> Sequence(0, <<"TokParenOpen", "param_typerefs", "TokParenClose">>),
  param_typerefs |-> Select(<<"seq_param_type_void", "seq_param_type_list">>),
  seq_param_type_void |-> Sequence(0, <<"TokVoid">>),
  seq_param_type_list |-> Sequence(0, <<"typeref", "rep_param_comma_type", "opt_vararg_type">>),
  rep_param_comma_type |-> RepeatStar(<<"TokComma", "typeref">>),
  opt_vararg_type |-> RepeatStar(<<"TokComma", "TokDotDotDot">>)]

\* Definitions.
DeclGrammar == [
  defvars |-> Sequence(3, <<"storage", "type", "name", "opt_var_initialize",
      "opt_rep_var_initialize", "TokSemiColon">>),
  opt_var_initialize |-> Options(<<"TokAssign", "expr">>),
  opt_rep_var_initialize |-> Options(<<"rep_var_initialize">>),
  rep_var_initialize |-> RepeatStar(<<"TokComma", "name", "opt_var_initialize">>),
  defconst |-> Sequence(0, <<"TokConst", "type", "name", "TokAssign", "expr", "TokSemiColon">>),
  storage |-> Options(<<"TokStatic">>),
  type |-> Sequence(0, <<"typeref">>),
  deffunc |-> Sequence(4, <<"storage", "typeref", "name", "TokParenOpen", "params",
      "TokParenClose", "block">>),
  params |-> Select(<<"seq_param_void", "seq_param_list">>),
  seq_param_void |-> Sequence(0, <<"TokVoid">>),
  seq_param_list |-> Sequence(0, <<"fixedparams", "opt_vararg">>),
  opt_vararg |-> Options(<<"TokComma", "TokDotDotDot">>),
  fixedparams |-> Sequence(0, <<"param", "rep_comma_param">>),
  rep_comma_param |-> RepeatStar(<<"TokComma", "param">>),
  param |-> Sequence(0, <<"type", "name">>),
  defvar_list |-> RepeatStar(<<"defvars">>),
  block |-> Sequence(0, <<"TokBraceOpen", "defvar_list", "stmts", "TokBraceClose">>),
  defclass |-> Sequence(0, <<"TokClass", "name", "class_member_list", "TokSemiColon">>),
  class_member_list |-> Sequence(0, <<"TokBraceOpen", "rep_class_member", "TokBraceClose">>),
  rep_class_member |-> RepeatStar(<<"class_member">>),
  class_member |-> Select(<<"seq_class_member_variable", "seq_class_member_function">>),
  seq_class_member_variable |-> Sequence(0, <<"defvars">>),
  seq_class_member_function |-> Sequence(0, <<"deffunc">>)]

\* Statements.
StmtGrammar == [
  stmts |-> RepeatStar(<<"stmt">>),
  stmt |-> Select(<<"TokSemiColon", "labeled_stmt", "expr_stmt", "block", "if_stmt",
      "while_stmt", "dowhile_stmt", "for_stmt", "switch_stmt", "break_stmt", "continue_stmt",
      "goto_stmt", "return_stmt">>),
  labeled_stmt |-> Sequence(2, <<"TokIdentifier", "TokColon", "stmt">>),
  expr_stmt |-> Sequence(0, <<"expr", "TokSemiColon">>),
  if_stmt |-> Sequence(0, <<"TokIf", "TokParenOpen", "expr", "TokParenClose", "stmt",
      "opt_else_stmt">>),
  opt_else_stmt |-> Options(<<"TokElse", "stmt">>),
  while_stmt |-> Sequence(0, <<"TokWhile", "TokParenOpen", "expr", "TokParenClose", "stmt">>),
  dowhile_stmt |-> Sequence(0, <<"TokDo", "stmt", "TokWhile", "TokParenOpen", "expr",
      "TokParenClose", "TokSemiColon">>),
  for_stmt |-> Sequence(0, <<"TokFor", "TokParenOpen", "opt_for_init_expr", "TokSemiColon",
      "opt_for_cond_expr", "TokSemiColon", "opt_for_inc_expr", "TokParenClose", "stmt">>),
  opt_for_init_expr |-> Options(<<"expr">>),
  opt_for_cond_expr |-> Options(<<"expr">>),
  opt_for_inc_expr |-> Options(<<"expr">>),
  switch_stmt |-> Sequence(0, <<"TokSwitch", "TokParenOpen", "expr", "TokParenClose",
      "TokBraceOpen", "case_clauses", "TokBraceClose">>),
  case_clauses |-> Sequence(0, <<"rep_case_clause", "opt_default_clause">>),
  rep_case_clause |-> RepeatStar(<<"case_clause">>),
  opt_default_clause |-> Options(<<"default_clause">>),
  case_clause |-> Sequence(0, <<"case_list", "case_body">>),
  case_list |-> RepeatDagger(<<"TokCase", "primary", "TokColon">>),
  default_clause |-> Sequence(0, <<"TokDefault", "TokColon", "case_body">>),
  case_body |-> Sequence(0, <<"stmt">>),
  break_stmt |-> Sequence(0, <<"TokBreak", "TokSemiColon">>),
  continue_stmt |-> Sequence(0, <<"TokContinue", "TokSemiColon">>),
  goto_stmt |-> Sequence(0, <<"TokGoto", "TokIdentifier", "TokSemiColon">>),
  return_stmt |-> Select(<<"seq_return", "seq_return_expr">>),
  seq_return |-> Sequence(2, <<"TokReturn", "TokSemiColon">>),
  seq_return_expr |-> Sequence(0, <<"TokReturn", "expr", "TokSemiColon">>)]

\* Expressions, one rule per level of precedence.
ExprGrammar == [
  expr |-> Select(<<"seq_assign_value", "seq_opassign_value", "expr10">>),
  seq_assign_value |-> Sequence(2, <<"term", "TokAssign", "expr">>),
  seq_opassign_value |-> Sequence(2, <<"term", "opassign_op", "expr">>),
  opassign_op |-> Select(<<"TokComAdd", "TokComSub", "TokComMul", "TokComDiv", "TokComMod",
      "TokComBitAnd", "TokComBitOr", "TokComBitXor", "TokComBitShiftL", "TokComBitShiftR">>),
  expr10 |-> Sequence(0, <<"expr9", "opt_ternaryop">>),
  opt_ternaryop |-> Options(<<"TokQuestion", "expr", "TokColon", "expr10">>),
  expr9 |-> Sequence(0, <<"expr8", "rep_or_expr8">>),
  rep_or_expr8 |-> RepeatStar(<<"TokConOr", "expr8">>),
  expr8 |-> Sequence(0, <<"expr7", "rep_and_expr7">>),
  rep_and_expr7 |-> RepeatStar(<<"TokConAnd", "expr7">>),
  expr7 |-> Sequence(0, <<"expr6", "rep_op_expr6">>),
  rep_op_expr6 |-> RepeatStar(<<"sel_op_expr6">>),
  sel_op_expr6 |-> Select(<<"seq_gr_expr6", "seq_ls_expr6", "seq_geq_expr6", "seq_leq_expr6",
      "seq_eq_expr6", "seq_neq_expr6">>),
  seq_gr_expr6 |-> Sequence(0, <<"TokGreatorThan", "expr6">>),
  seq_ls_expr6 |-> Sequence(0, <<"TokLessThan", "expr6">>),
  seq_geq_expr6 |-> Sequence(0, <<"TokGreatorThenEqual", "expr6">>),
  seq_leq_expr6 |-> Sequence(0, <<"TokLessThanEqual", "expr6">>),
  seq_eq_expr6 |-> Sequence(0, <<"TokEqual", "expr6">>),
  seq_neq_expr6 |-> Sequence(0, <<"TokNotEqual", "expr6">>),
  expr6 |-> Sequence(0, <<"expr5", "rep_bitor_expr5">>),
  rep_bitor_expr5 |-> RepeatStar(<<"TokBitOr", "expr5">>),
  expr5 |-> Sequence(0, <<"expr4", "rep_bitxor_expr4">>),
  rep_bitxor_expr4 |-> RepeatStar(<<"TokBitXor", "expr4">>),
  expr4 |-> Sequence(0, <<"expr3", "rep_bitand_expr3">>),
  rep_bitand_expr3 |-> RepeatStar(<<"TokBitAnd", "expr3">>),
  expr3 |-> Sequence(0, <<"expr2", "rep_shift_expr2">>),
  rep_shift_expr2 |-> RepeatStar(<<"sel_shift_expr2">>),
  sel_shift_expr2 |-> Select(<<"seq_rshft_expr2", "seq_lshft_expr2">>),
  seq_rshft_expr2 |-> Sequence(0, <<"TokBitShiftR", "expr2">>),
  seq_lshft_expr2 |-> Sequence(0, <<"TokBitShiftL", "expr2">>),
  expr2 |-> Sequence(0, <<"expr1", "rep_sumsub_expr1">>),
  rep_sumsub_expr1 |-> RepeatStar(<<"sel_sumsub_expr1">>),
  sel_sumsub_expr1 |-> Select(<<"seq_sum_expr1", "seq_sub_expr1">>),
  seq_sum_expr1 |-> Sequence(0, <<"TokAdd", "expr1">>),
  seq_sub_expr1 |-> Sequence(0, <<"TokSub", "expr1">>),
  expr1 |-> Sequence(0, <<"term", "rep_muldivmod_term">>),
  rep_muldivmod_term |-> RepeatStar(<<"sel_muldivmod_term">>),
  sel_muldivmod_term |-> Select(<<"seq_mul_term", "seq_div_term", "seq_mod_term">>),
  seq_mul_term |-> Sequence(0, <<"TokMul", "term">>),
  seq_div_term |-> Sequence(0, <<"TokDiv", "term">>),
  seq_mod_term |-> Sequence(0, <<"TokMod", "term">>)]

\* Operands.
TermGrammar == [
  term |-> Select(<<"seq_type_term", "unary">>),
  seq_type_term |-> Sequence(0, <<"TokParenOpen", "type", "TokParenClose", "term">>),
  unary |-> Select(<<"seq_preinc_unary", "seq_predec_unary", "seq_pos_term", "seq_neg_term",
      "seq_not_term", "seq_bitnot_term", "seq_ptr_term", "seq_adr_term", "seq_sizeof_type",
      "seq_sizeof_unary", "postfix">>),
  seq_preinc_unary |-> Sequence(0, <<"TokUnaryInc", "unary">>),
  seq_predec_unary |-> Sequence(0, <<"TokUnaryDec", "unary">>),
  seq_pos_term |-> Sequence(0, <<"TokAdd", "term">>),
  seq_neg_term |-> Sequence(0, <<"TokSub", "term">>),
  seq_not_term |-> Sequence(0, <<"TokBitNot", "term">>),
  seq_bitnot_term |-> Sequence(0, <<"TokConNot", "term">>),
  seq_ptr_term |-> Sequence(0, <<"TokMul", "term">>),
  seq_adr_term |-> Sequence(0, <<"TokBitAnd", "term">>),
  seq_sizeof_type |-> Sequence(2, <<"TokSizeOf", "TokParenOpen", "type", "TokParenClose">>),
  seq_sizeof_unary |-> Sequence(0, <<"TokSizeOf", "unary">>),
  postfix |-> Sequence(0, <<"primary", "rep_reffunc">>),
  rep_reffunc |-> RepeatStar(<<"sel_reffunc">>),
  sel_reffunc |-> Select(<<"seq_post_inc", "seq_post_dec", "seq_array_reference",
      "seq_dot_name", "seq_arrow_name", "seq_fncall">>),
  seq_post_inc |-> Sequence(0, <<"TokUnaryInc">>),
  seq_post_dec |-> Sequence(0, <<"TokUnaryDec">>),
  seq_array_reference |-> Sequence(0, <<"TokBracketOpen", "expr", "TokBracketClose">>),
  seq_dot_name |-> Sequence(0, <<"TokDot", "name">>),
  seq_arrow_name |-> Sequence(0, <<"TokRightArrow", "name">>),
  seq_fncall |-> Sequence(0, <<"TokParenOpen", "args", "TokParenClose">>),
  args |-> Options(<<"seq_args_expr", "rep_args_expr">>),
  seq_args_expr |-> Sequence(0, <<"expr">>),
  rep_args_expr |-> RepeatStar(<<"TokComma", "expr">>),
  primary |-> Select(<<"TokIntegerLiteral", "TokCharactorLiteral", "TokStringLiteral",
      "TokIdentifier", "seq_po_expr_pc">>),
  seq_po_expr_pc |-> Sequence(0, <<"TokParenOpen", "expr", "TokParenClose">>)]

AllRules ==
  UnitGrammar @@ TypeGrammar @@ DeclGrammar @@ StmtGrammar @@ ExprGrammar @@ TermGrammar
    @@ TokenRules

\* Faulty variants: variables are not looked ahead for; an assignment is
\* left-recursive.
NoVariableLookahead ==
  [defvars |-> Sequence(0, DeclGrammar.defvars.sub_rules_)] @@ AllRules
LeftRecursive ==
  [seq_assign_value |-> Sequence(0, <<"expr", "TokAssign", "expr">>)] @@ AllRules

\* The table rules_.
SeaGrammar == AllRules
=============================================================================
