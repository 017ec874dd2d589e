------------------------------- MODULE Driver -------------------------------
(***************************************************************************)
(* The ASTContext the parser has filled, and the calls of the phases on it *)
(* (src/src/ASTContext.cpp, Sema::Check, TypeChecker::Check).  main.cpp    *)
(* calls none of them and the tests some, so they come in any order.       *)
(***************************************************************************)
EXTENDS AST

CONSTANTS
  Nodes,  \* the nodes there may be
  Height, \* of the tree below each of them: trees are finite
  Units   \* what the parser may leave: [decls, types]

VARIABLES
  decls_,   \* the Declarations, NoDeclarations when the program was refused
  types_,   \* the type table: from the name of a class or an alias to its type
  status,   \* the phase that runs, "idle" between two, "stopped" after an assert
  answers   \* from a phase that has ended to how

NoDeclarations == [nullptr |-> TRUE]

Phases == {"resolve", "complete", "recursion", "sema", "check", "print"}

Lists == {"functions", "constants", "variables", "records", "typedefs", "imports"}

\* A node has its children in vectors, and a function its block; Declarations are
\* lists of nodes.
ASSUME TreesAssumption ==
  LET NodeList == Seq(Nodes) IN
  /\ \A n \in Nodes :
       /\ Children(n) \in NodeList
       /\ n[1] = "Block" => n[2] \in NodeList /\ n[3] \in NodeList
       /\ n[1] = "Function" => n[5] \in NodeList /\ <<n[6]>> \in NodeList
       /\ n[1] = "FuncCall" => <<n[2]>> \in NodeList /\ n[3][2] \in NodeList
       /\ n[1] = "Record" => n[3] \in NodeList /\ n[4] \in NodeList
       /\ (n[1] = "Assign" => Len(n) = 3) /\ (n[1] = "OpAssign" => Len(n) = 4)
  /\ \A u \in Units : u.decls # NoDeclarations => \A list \in Lists : u.decls[list] \in NodeList

\* There is an end to every way down.
ASSUME HeightAssumption ==
  /\ Height \in [Nodes -> Nat]
  /\ \A n \in Nodes : \A k \in DOMAIN Children(n) : Height[Children(n)[k]] < Height[n]

AreDecls(nodes) == \A k \in DOMAIN nodes : nodes[k][1] \in DeclClasses
AreParams(nodes) == \A k \in DOMAIN nodes : nodes[k][1] = "Param"

\* What a program and a block declare are declarations, a function has ParamDecls; a
\* class is in the table of types, if no alias has taken its name.
ASSUME DeclsAssumption ==
  /\ \A n \in Nodes : (n[1] = "Block" => AreDecls(n[2])) /\ (n[1] = "Function" => AreParams(n[5]))
  /\ \A u \in Units : u.decls # NoDeclarations =>
       /\ \A list \in {"functions", "constants", "variables"} : AreDecls(u.decls[list])
       /\ \A i \in DOMAIN u.decls.records : u.decls.records[i][1] = "Record"
       /\ \A i \in DOMAIN u.decls.records :
            LET name == u.decls.records[i][2] IN
            name \in DOMAIN u.types /\ (u.types[name][1] # "user" => u.types[name] = <<"record">>)

DriverInit ==
  /\ \E u \in Units : decls_ = u.decls /\ types_ = u.types
  /\ status = "idle" /\ answers = <<>>

\* f with e for x.
Put(f, x, e) == [y \in DOMAIN f \cup {x} |-> IF y = x THEN e ELSE f[y]]

\* Only the search for recursive classes has no use for the Declarations.
Begin(phase) ==
  /\ status = "idle" /\ phase \notin DOMAIN answers
  /\ decls_ # NoDeclarations \/ phase = "recursion"
  /\ status' = phase
  /\ UNCHANGED <<decls_, types_, answers>>

Answer(phase, next, how) ==
  /\ answers' = Put(answers, phase, how) /\ status' = next
  /\ UNCHANGED <<decls_, types_>>

Return == Answer(status, "idle", "true")
Refuse == Answer(status, "stopped", "assert") \* assert(0 && ...)
Crash == Answer(status, "stopped", "crash")   \* a null pointer is followed, or the stack overflows

\* The printer looks whether there are Declarations, the other phases do not.
NoDecls ==
  /\ status = "idle" /\ decls_ = NoDeclarations
  /\ \/ "print" \notin DOMAIN answers /\ Answer("print", "idle", "false")
     \/ \E phase \in Phases \ {"recursion", "print"} : Answer(phase, "stopped", "crash")

Continue == UNCHANGED <<decls_, types_, status, answers>>
=============================================================================
