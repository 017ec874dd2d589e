------------------------------- MODULE Passes -------------------------------
(***************************************************************************)
(* The passes over the AST: LocalVarResolver, Sema, TypeChecker and        *)
(* ASTPrinter, each an ASTVisitor that treats some nodes in its own way.   *)
(*                                                                         *)
(* The C++ stack of Visit calls is agenda: what is still to be done, the   *)
(* next first.  A node is known by its path: the list of Declarations it   *)
(* is in, its index there, and the indices of the children down to it.     *)
(***************************************************************************)
EXTENDS Driver

VARIABLES
  agenda,
  scopes_,        \* all scopes made: [parent, extent, decls]; the first is topScope_
  currentScope_,
  bound           \* defined_decl_: from the path of a VariableNode to that of a NamedDecl

passVars == <<agenda, scopes_, currentScope_, bound>>

NoScope == 0

\* extent is the path of the block or function, <<>> for topScope_; the code does
\* not keep it, and no action reads it.
EmptyScope(parent, extent) == [parent |-> parent, extent |-> extent, decls |-> <<>>]

PassesInit ==
  /\ agenda = <<>>
  /\ scopes_ = <<EmptyScope(NoScope, <<>>)>> /\ currentScope_ = 1
  /\ bound = <<>>

-----------------------------------------------------------------------------
(* Items of the agenda                                                      *)

\* called: the node is the function of a call (SetFuncVarNode)
Visit(node, path, called) == [op |-> "visit", node |-> node, path |-> path, called |-> called]
Declare(node, path) == [op |-> "declare", node |-> node, path |-> path]

\* outer is the scope that PushScope left; the code does not keep it, and no action reads it.
Pop(outer) == [op |-> "pop", outer |-> outer]

VisitAll(item) ==
  LET ns == Children(item.node) IN
  [k \in DOMAIN ns |-> Visit(ns[k], Append(item.path, k), item.node[1] = "FuncCall" /\ k = 1)]

DeclareAll(nodes, path) == [k \in DOMAIN nodes |-> Declare(nodes[k], Append(path, k))]

VisitList(list) == [i \in DOMAIN decls_[list] |-> Visit(decls_[list][i], <<list, i>>, FALSE)]

Top == agenda[1]
Now(op) == agenda # <<>> /\ Top.op = op
Then(items) == agenda' = items \o Tail(agenda)
Stop == agenda' = <<>>

-----------------------------------------------------------------------------
(* Scope                                                                    *)

NameOf(node) ==
  CASE node[1] \in {"Function", "VariableDecl"} -> node[4]
    [] node[1] \in {"ConstantDecl", "Param"} -> node[3]

Hits(s, name) == {i \in DOMAIN scopes_[s].decls : NameOf(scopes_[s].decls[i].node) = name}

HasDuplicatedName(name) == Hits(currentScope_, name) # {}

\* From the current scope outwards, the first declaration that is one of Found(_).
Search(Found(_)) ==
  LET from[s \in 0..Len(scopes_)] ==
        IF s = NoScope THEN Null
        ELSE IF Found(s) # {} THEN scopes_[s].decls[CHOOSE i \in Found(s) : \A j \in Found(s) : i <= j].path
             ELSE from[scopes_[s].parent]
  IN from[currentScope_]

\* Mutant: the top level first.
FindDeclTopFirst(name) ==
  IF Hits(1, name) # {} THEN scopes_[1].decls[CHOOSE i \in Hits(1, name) : TRUE].path ELSE Search(LAMBDA s : Hits(s, name))

FindDecl(name) == Search(LAMBDA s : Hits(s, name))
FindFuncDecl(name) ==
  Search(LAMBDA s : {i \in Hits(s, name) : scopes_[s].decls[i].node[1] = "Function"})

PushScope ==
  /\ scopes_' = Append(scopes_, EmptyScope(currentScope_, Top.path))
  /\ currentScope_' = Len(scopes_) + 1

\* Mutant: to the top scope at once.
PopScopeToTop == 1

PopScope == IF scopes_[currentScope_].parent = NoScope THEN currentScope_ ELSE scopes_[currentScope_].parent

-----------------------------------------------------------------------------
(* LocalVarResolver                                                         *)

\* The names of the top level; then, as Visit answers true and that ends each of
\* the three loops, the first variable, constant and function of the lists.
First(list) == IF VisitList(list) = <<>> THEN <<>> ELSE <<VisitList(list)[1]>>

ResolveLocalVariable ==
  /\ Begin("resolve")
  /\ agenda' = DeclareAll(decls_.functions, <<"functions">>) \o DeclareAll(decls_.constants, <<"constants">>)
                 \o DeclareAll(decls_.variables, <<"variables">>)
                 \o First("variables") \o First("constants") \o First("functions")
  /\ UNCHANGED <<scopes_, currentScope_, bound>>

AddNamedDecl ==
  /\ Now("declare")
  /\ IF HasDuplicatedName(NameOf(Top.node))
     THEN Refuse /\ Stop /\ UNCHANGED scopes_
     ELSE /\ scopes_' = [scopes_ EXCEPT ![currentScope_].decls = Append(@, [node |-> Top.node, path |-> Top.path])]
          /\ Then(<<>>) /\ Continue
  /\ UNCHANGED <<currentScope_, bound>>

Visiting(phase, classes) == status = phase /\ Now("visit") /\ Top.node[1] \in classes

\* Mutant: the variables of a block are declared behind their initializers.
ResolveBlockLate ==
  /\ Visiting("resolve", {"Block"})
  /\ PushScope
  /\ Then(SubSeq(VisitAll(Top), 1, Len(Top.node[2])) \o DeclareAll(Top.node[2], Top.path)
            \o SubSeq(VisitAll(Top), Len(Top.node[2]) + 1, Len(VisitAll(Top))) \o <<Pop(currentScope_)>>)
  /\ Continue /\ UNCHANGED bound

\* All variables of a block are declared before an initializer is visited.
ResolveBlock ==
  /\ Visiting("resolve", {"Block"})
  /\ PushScope
  /\ Then(DeclareAll(Top.node[2], Top.path) \o VisitAll(Top) \o <<Pop(currentScope_)>>)
  /\ Continue /\ UNCHANGED bound

\* The body is a block, with a scope of its own.
ResolveFunctionDecl ==
  /\ Visiting("resolve", {"Function"})
  /\ PushScope
  /\ Then(DeclareAll(Top.node[5], Top.path)
            \o <<Visit(Top.node[6], Append(Top.path, Len(Top.node[5]) + 1), FALSE)>> \o <<Pop(currentScope_)>>)
  /\ Continue /\ UNCHANGED bound

ResolveVariable ==
  /\ Visiting("resolve", {"Variable"})
  /\ LET nd == IF Top.called THEN FindFuncDecl(Top.node[2]) ELSE FindDecl(Top.node[2]) IN
     IF nd = Null THEN Refuse /\ Stop /\ UNCHANGED bound
     ELSE bound' = Put(bound, Top.path, nd) /\ Then(<<>>) /\ Continue
  /\ UNCHANGED <<scopes_, currentScope_>>

LeaveScope ==
  /\ Now("pop")
  /\ currentScope_' = PopScope
  /\ Then(<<>>) /\ Continue /\ UNCHANGED <<scopes_, bound>>

-----------------------------------------------------------------------------
(* Sema                                                                     *)

SemaCheck ==
  /\ Begin("sema")
  /\ agenda' = VisitList("constants") \o VisitList("variables") \o VisitList("records") \o VisitList("functions")
  /\ UNCHANGED <<scopes_, currentScope_, bound>>

Examine(ok) == IF ok THEN Then(VisitAll(Top)) /\ Continue ELSE Refuse /\ Stop

CheckAssignment ==
  /\ Visiting("sema", AssignClasses)
  /\ Examine(IsAssignable(IF Top.node[1] = "Assign" THEN Top.node[2] ELSE Top.node[3]))
  /\ UNCHANGED <<scopes_, currentScope_, bound>>

\* Mutant: whatever is called.
CheckInvalidFunCallAny ==
  /\ Visiting("sema", {"FuncCall"})
  /\ Examine(TRUE)
  /\ UNCHANGED <<scopes_, currentScope_, bound>>

CheckInvalidFunCall ==
  /\ Visiting("sema", {"FuncCall"})
  /\ Examine(Top.node[2][1] = "Variable")
  /\ UNCHANGED <<scopes_, currentScope_, bound>>

\* The node a path leads to.
NodeAt(path) ==
  LET down[k \in 2..Len(path)] == IF k = 2 THEN decls_[path[1]][path[2]] ELSE Children(down[k - 1])[path[k]]
  IN down[Len(path)]

\* GetTypeNode(): a function has none, nor has "...".
TypeNodeOf(node) ==
  CASE node[1] = "VariableDecl" -> node[3]
    [] node[1] \in {"ConstantDecl", "Param"} /\ node[2] # <<"...">> -> node[2]
    [] OTHER -> Null

\* The declaration of the base is asked for its type, be there one or not.
CheckInvalidArrRef ==
  /\ Visiting("sema", {"ArrayRef"})
  /\ LET path == Append(Top.path, 1)
         type == IF path \in DOMAIN bound THEN TypeNodeOf(NodeAt(bound[path])) ELSE Null IN
     IF Top.node[2][1] = "Variable" /\ type = Null THEN Crash /\ Stop
     ELSE Examine(Top.node[2][1] = "Variable" /\ type[1] = "array")
  /\ UNCHANGED <<scopes_, currentScope_, bound>>

-----------------------------------------------------------------------------
(* TypeChecker                                                              *)

TypeCheck ==
  /\ Begin("check")
  /\ agenda' = VisitList("variables") \o VisitList("functions")
  /\ UNCHANGED <<scopes_, currentScope_, bound>>

\* Mutant: arrays of void are let through.
CheckInvalidVariableTypeScalar(type) == type # <<"void">>

CheckInvalidVariableType(type) == type # <<"void">> /\ (type[1] = "array" => type[2] # <<"void">>)

CheckInvalidVariable ==
  /\ Visiting("check", {"VariableDecl", "Param"})
  /\ LET type == TypeNodeOf(Top.node) IN
     IF type = Null THEN Crash /\ Stop ELSE Examine(CheckInvalidVariableType(type))
  /\ UNCHANGED <<scopes_, currentScope_, bound>>

-----------------------------------------------------------------------------
(* ASTPrinter: what is printed is left out, the way through the tree is not *)

PrintAST ==
  /\ Begin("print")
  /\ agenda' = VisitList("functions") \o VisitList("constants") \o VisitList("variables")
                 \o VisitList("records") \o VisitList("typedefs") \o VisitList("imports")
  /\ UNCHANGED <<scopes_, currentScope_, bound>>

PrintNode ==
  /\ status = "print" /\ Now("visit") /\ Top.node[1] # "Function"
  /\ Then(VisitAll(Top)) /\ Continue
  /\ UNCHANGED <<scopes_, currentScope_, bound>>

\* Mutant: a null TypeNode is passed over.
PrintFunctionDeclNull ==
  /\ Visiting("print", {"Function"})
  /\ Then(VisitAll(Top)) /\ Continue
  /\ UNCHANGED <<scopes_, currentScope_, bound>>

\* A function has no TypeNode, and the name of the type in it is printed.
PrintFunctionDecl ==
  /\ Visiting("print", {"Function"})
  /\ Crash /\ Stop
  /\ UNCHANGED <<scopes_, currentScope_, bound>>

-----------------------------------------------------------------------------
(* ASTVisitor                                                               *)

Overridden ==
  [resolve |-> {"Block", "Function", "Variable"}, sema |-> AssignClasses \cup {"FuncCall", "ArrayRef"},
   check |-> {"VariableDecl", "Param"}]

VisitChildren ==
  /\ status # "print" /\ Now("visit") /\ Top.node[1] \notin Overridden[status]
  /\ Then(VisitAll(Top)) /\ Continue
  /\ UNCHANGED <<scopes_, currentScope_, bound>>

EndOfPass ==
  /\ status \in DOMAIN Overridden \cup {"print"} /\ agenda = <<>>
  /\ Return /\ UNCHANGED passVars

PassesNext ==
  \/ ResolveLocalVariable \/ AddNamedDecl \/ ResolveBlock \/ ResolveFunctionDecl \/ ResolveVariable \/ LeaveScope
  \/ SemaCheck \/ CheckAssignment \/ CheckInvalidFunCall \/ CheckInvalidArrRef
  \/ TypeCheck \/ CheckInvalidVariable
  \/ PrintAST \/ PrintNode \/ PrintFunctionDecl
  \/ VisitChildren \/ EndOfPass
=============================================================================
