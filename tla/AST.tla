-------------------------------- MODULE AST --------------------------------
(***************************************************************************)
(* The nodes of src/include/ASTNode.h, as tuples named after their class,  *)
(* and the order in which ASTVisitor goes through them.                    *)
(*                                                                         *)
(* A TypeNode is the type it holds, inside the node it belongs to: no      *)
(* visitor does anything there.                                            *)
(***************************************************************************)
EXTENDS Naturals, Sequences

Null == <<"nullptr">>

\* IsKindOf(LValueNodeTy), IsKindOf(ExprNodeTy)
LValueClasses == {"ArrayRef", "PtrDereference", "MemberRef", "PtrMemberRef", "Variable"}
AssignClasses == {"Assign", "OpAssign"}
OperatorClasses ==
  {"Address", "BinaryOp", "LogicalAnd", "LogicalOr", "Cast", "Cond", "CondTail", "FuncCall"}
UnaryClasses == {"SizeofExpr", "SizeofType", "UnaryOp", "PrefixOp", "SuffixOp"}
LiteralClasses == {"IntegerLiteral", "StringLiteral"}

ExprClasses == LValueClasses \cup AssignClasses \cup OperatorClasses \cup UnaryClasses \cup LiteralClasses

IsExprNode(node) == node[1] \in ExprClasses
IsAssignable(node) == node[1] \in LValueClasses

-----------------------------------------------------------------------------
(* What Visit visits of a node, in this order; a null pointer is passed.    *)

Opt(node) == IF node = Null THEN <<>> ELSE <<node>>

StmtChildren(n) ==
  CASE n[1] = "Block" -> n[2] \o n[3]
    [] n[1] = "Label" -> <<n[3]>>
    [] n[1] = "ExprStmt" -> <<n[2]>>
    [] n[1] = "If" -> <<n[2], n[3]>> \o Opt(n[4])
    [] n[1] = "While" -> <<n[2], n[3]>>
    [] n[1] = "DoWhile" -> <<n[3], n[2]>>
    [] n[1] = "For" -> Opt(n[2]) \o Opt(n[3]) \o Opt(n[4]) \o <<n[5]>>
    [] n[1] = "Case" -> n[2] \o <<n[3]>>
    [] n[1] = "Switch" -> <<n[2]>> \o n[3]
    [] n[1] = "Return" -> Tail(n)
    [] n[1] \in {"Break", "Continue", "Goto"} -> <<>>

ExprChildren(n) ==
  CASE n[1] \in {"Variable", "SizeofType"} \cup LiteralClasses -> <<>>
    [] n[1] \in {"Assign", "LogicalAnd", "LogicalOr", "ArrayRef"} -> <<n[2], n[3]>>
    [] n[1] \in {"OpAssign", "BinaryOp"} -> <<n[3], n[4]>>
    [] n[1] = "Cond" -> <<n[2], n[3], n[4]>>
    [] n[1] = "FuncCall" -> <<n[2]>> \o n[3][2]
    [] n[1] \in {"Address", "PtrDereference", "MemberRef", "PtrMemberRef", "SizeofExpr"} -> <<n[2]>>
    [] n[1] \in {"Cast", "UnaryOp", "PrefixOp", "SuffixOp"} -> <<n[3]>>

DeclChildren(n) ==
  CASE n[1] = "Function" -> n[5] \o <<n[6]>>
    [] n[1] = "VariableDecl" -> Opt(n[5])
    [] n[1] = "ConstantDecl" -> <<n[4]>>
    [] n[1] = "Param" -> <<>>
    [] n[1] = "Record" -> n[3] \o n[4]
    [] n[1] \in {"Typedef", "Import"} -> <<>>

DeclClasses == {"Function", "VariableDecl", "ConstantDecl", "Param", "Record", "Typedef", "Import"}

Children(n) ==
  IF IsExprNode(n) THEN ExprChildren(n)
  ELSE IF n[1] \in DeclClasses THEN DeclChildren(n) ELSE StmtChildren(n)
=============================================================================
