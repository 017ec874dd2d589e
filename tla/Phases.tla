------------------------------- MODULE Phases -------------------------------
(***************************************************************************)
(* Everything that may be called on an ASTContext the parser has filled:   *)
(* the resolver binds names that Sema asks for their types, TypeResolver   *)
(* completes the classes that the search for recursive ones goes through.  *)
(***************************************************************************)
EXTENDS Passes, Types, FiniteSets

vars == <<decls_, types_, status, answers, passVars, typeVars>>

Init == DriverInit /\ PassesInit /\ TypesInit

\* All phases have been called, or one of them has ended the process.
Terminated ==
  /\ status \notin Phases
  /\ status = "stopped" \/ DOMAIN answers = Phases
  /\ UNCHANGED vars

Next ==
  \/ PassesNext /\ UNCHANGED typeVars
  \/ TypesNext /\ UNCHANGED passVars
  \/ NoDecls /\ UNCHANGED <<passVars, typeVars>>
  \/ Terminated

Spec == Init /\ [][Next]_vars

\* A phase that has been called goes on; nothing makes anybody call one.
FairSpec == Spec /\ WF_vars(Next /\ status \in Phases)

-----------------------------------------------------------------------------
(* The trees                                                                *)

Kid(x, k) == [node |-> Children(x.node)[k], path |-> Append(x.path, k)]
Kids(found) == UNION {{Kid(x, k) : k \in DOMAIN Children(x.node)} : x \in found}

\* All of a tree, level by level: [node, path].
Tree(node, path) ==
  LET level[h \in 0..Height[node]] == IF h = 0 THEN {[node |-> node, path |-> path]} ELSE Kids(level[h - 1])
  IN UNION {level[h] : h \in 0..Height[node]}

InLists(lists) == UNION {UNION {Tree(decls_[list][i], <<list, i>>) : i \in DOMAIN decls_[list]} : list \in lists}

\* What LocalVarResolver comes to.
Visited ==
  UNION {Tree(decls_[list][1], <<list, 1>>) : list \in {l \in {"variables", "constants", "functions"} : decls_[l] # <<>>}}

OfClass(found, class) == {x \in found : x.node[1] = class}

Up(path) == SubSeq(path, 1, Len(path) - 1)
Around(path) == {<<>>} \cup {SubSeq(path, 1, n) : n \in 2..Len(path) - 1}

GlobalDecls ==
  UNION {{[node |-> decls_[list][i], path |-> <<list, i>>] : i \in DOMAIN decls_[list]} :
           list \in {"functions", "constants", "variables"}}

\* What a block and a function declare.
Locals(n) == IF n[1] = "Block" THEN n[2] ELSE IF n[1] = "Function" THEN n[5] ELSE <<>>

LocalDecls(path) ==
  LET ns == Locals(NodeAt(path)) IN {[node |-> ns[k], path |-> Append(path, k)] : k \in DOMAIN ns}

\* The tree a declaration is for: the whole program, a function or a block.
Extent(d) == IF Len(d.path) = 2 THEN <<>> ELSE Up(d.path)

Callee(path) == Len(path) > 2 /\ path[Len(path)] = 1 /\ NodeAt(Up(path))[1] = "FuncCall"

\* The declarations a name may mean at its place.
Meant(name, path) ==
  {d \in UNION {IF q = <<>> THEN GlobalDecls ELSE LocalDecls(q) : q \in Around(path)} :
     NameOf(d.node) = name /\ (Callee(path) => d.node[1] = "Function")}

Twice(found) == \E c, d \in found : c.path # d.path /\ NameOf(c.node) = NameOf(d.node) /\ Extent(c) = Extent(d)

Answered(phase) == decls_ # NoDeclarations /\ phase \in DOMAIN answers

-----------------------------------------------------------------------------
(* Properties                                                               *)

\* The state of the phases fits together: between two of them nothing is left of
\* the last one, scopes hang below earlier ones (Scope::AddChild), what is bound
\* are VariableNodes, to declarations, and what is complete are classes.
TypeOK ==
  /\ status \in Phases \cup {"idle", "stopped"} /\ DOMAIN answers \subseteq Phases
  /\ status \notin DOMAIN answers
  /\ status \notin DOMAIN Overridden \cup {"print"} => agenda = <<>>
  /\ currentScope_ \in DOMAIN scopes_ /\ \A s \in DOMAIN scopes_ : scopes_[s].parent \in 0..s - 1
  /\ \A p \in DOMAIN bound : NodeAt(p)[1] = "Variable" /\ NodeAt(bound[p])[1] \in DeclClasses
  /\ \A name \in DOMAIN members_ : types_[name] = <<"record">>
  /\ depth \in 0..MaxDepth /\ (depth = 0 => target = Null)

Pops == {k \in DOMAIN agenda : agenda[k].op = "pop"}

\* LocalVarResolver leaves every scope it has entered, back to the one it came
\* from, and so a phase begins and ends in topScope_: the scopes still to be left
\* are the current one and those around it.
ScopesNest ==
  status # "stopped" =>
    /\ Pops = {} => currentScope_ = 1
    /\ \A k \in Pops :
         /\ (\A j \in Pops : k <= j) => agenda[k].outer = scopes_[currentScope_].parent
         /\ (\A j \in Pops : j <= k) => agenda[k].outer = 1
         /\ \A j \in Pops : k < j /\ (\A i \in Pops : ~(k < i /\ i < j)) => agenda[j].outer = scopes_[agenda[k].outer].parent

\* A name means the innermost declaration around it (Scope::FindDecl), a called
\* one the function, and a block's or a function's declarations are gone when the
\* resolver has left it.  All extents are parts of one path: the longest is innermost.
BindsInnermost ==
  \A p \in DOMAIN bound :
    LET meant == Meant(NodeAt(p)[2], p) IN
    \E d \in meant : d.path = bound[p] /\ \A c \in meant : Len(Extent(c)) <= Len(Extent(d))

\* The resolver refuses a program just when, in what it visits, a scope declares
\* a name twice or a name has no declaration; it binds all names there if not.
ResolveExact ==
  Answered("resolve") =>
    LET names == OfClass(Visited, "Variable") IN
    /\ (answers.resolve = "true") =
         /\ ~Twice(GlobalDecls \cup UNION {LocalDecls(b.path) : b \in Visited})
         /\ \A x \in names : Meant(x.node[2], x.path) # {}
    /\ answers.resolve = "true" => \A x \in names : x.path \in DOMAIN bound

\* What Sema comes to, and what it is to find there.
Checked == InLists({"constants", "variables", "records", "functions"})

WrongTarget(x) == x.node[1] \in AssignClasses /\ ~IsAssignable(x.node[Len(x.node) - 1])
WrongCall(x) == x.node[1] = "FuncCall" /\ x.node[2][1] # "Variable"

\* GetTypeNode() of the declaration a name is bound to.
TypeOfName(path) == IF path \in DOMAIN bound THEN TypeNodeOf(NodeAt(bound[path])) ELSE Null

WrongArray(x) ==
  /\ x.node[1] = "ArrayRef"
  /\ \/ x.node[2][1] # "Variable"
     \/ TypeOfName(Append(x.path, 1)) # Null /\ TypeOfName(Append(x.path, 1))[1] # "array"
Untyped(x) == x.node[1] = "ArrayRef" /\ x.node[2][1] = "Variable" /\ TypeOfName(Append(x.path, 1)) = Null

\* Sema answers true just when every target of an assignment is an lvalue, every
\* call names its function and every array is a variable declared as one.  It
\* ends at a null pointer only for a name that the resolver has not bound, or
\* has bound to something without a type.
SemaExact ==
  Answered("sema") =>
    LET wrong == \E x \in Checked : WrongTarget(x) \/ WrongCall(x) \/ WrongArray(x)
        untyped == \E x \in Checked : Untyped(x) IN
    \/ answers.sema = "true" /\ ~wrong /\ ~untyped
    \/ answers.sema = "assert" /\ wrong
    \/ answers.sema = "crash" /\ untyped

VoidType(type) == type = <<"void">> \/ (type[1] = "array" /\ type[2] = <<"void">>)

\* TypeChecker answers true just when no global variable, parameter or local is of
\* type void or an array of void, and no parameter is `...`.  This is what the code
\* does and not what it should: the parser makes of `(void)` a parameter of that type
\* (Act_seq_param_void), so every function without parameters is refused, and `...`
\* has no type to be asked for, although LangSpec.txt:76-78 has both of them.
CheckExact ==
  Answered("check") =>
    LET typed == {x \in InLists({"variables", "functions"}) : x.node[1] \in {"VariableDecl", "Param"}}
        bad == \E x \in typed : VoidType(TypeNodeOf(x.node))
        dots == \E x \in typed : TypeNodeOf(x.node) = Null IN
    \/ answers.check = "true" /\ ~bad /\ ~dots
    \/ answers.check = "assert" /\ bad
    \/ answers.check = "crash" /\ dots

\* The printer gets through a program just when there is no function in it, and
\* leaves alone what the parser has refused; the other phases do not.
PrintExact ==
  /\ Answered("print") => answers.print = IF OfClass(InLists(Lists), "Function") # {} THEN "crash" ELSE "true"
  /\ decls_ = NoDeclarations /\ status = "stopped" => \E phase \in DOMAIN answers : answers[phase] = "crash"
  /\ decls_ = NoDeclarations /\ "print" \in DOMAIN answers => answers.print = "false"

Classes == {name \in DOMAIN types_ : types_[name] = <<"record">>}

\* The last definition in the source of a class: the lists are reversed.
Definition(name) ==
  LET defs == {i \in DOMAIN decls_.records : decls_.records[i][2] = name} IN
  IF defs = {} THEN <<>>
  ELSE LET members == decls_.records[CHOOSE i \in defs : \A j \in defs : i <= j][3] IN
       [k \in DOMAIN members |-> members[k][3]]

\* Completing the classes gives every class the members of its definition, and goes
\* through a null pointer just when there is a function outside of classes or in the
\* definition of a class that it completes; those it passes over, because a later one
\* has completed the class or its name is an alias, may have functions.
CompleteExact ==
  Answered("complete") =>
    LET function == decls_.functions # <<>>
                      \/ \E i \in DOMAIN decls_.records :
                           decls_.records[i][4] # <<>> /\ decls_.records[i][2] \in Classes \ DOMAIN members_ IN
    IF answers.complete = "true"
    THEN ~function /\ \A name \in Classes : GetMembers(<<"record", name>>) = Definition(name)
    ELSE function

-----------------------------------------------------------------------------
(* What the search for recursive classes is for                             *)

Completed == Answered("complete") /\ answers.complete = "true"

Definitions == [name \in Classes |-> Definition(name)]

\* The types a type is made of when defs are the classes and types the table: of a
\* class all members, or only the first.
PartsOf(all, defs, types, type) ==
  CASE type[1] = "user" -> {types[type[2]][2]}
    [] type[1] = "array" -> {type[2]}
    [] type[1] = "record" /\ type[2] \in DOMAIN defs ->
         {defs[type[2]][k] : k \in {k \in DOMAIN defs[type[2]] : all \/ k = 1}}
    [] OTHER -> {}

PartsOfAny(all, defs, types, found) == UNION {PartsOf(all, defs, types, type) : type \in found}

\* Where one comes to in n steps inwards from any of some types.
Inwards(all, defs, types, from) ==
  LET steps[n \in 0..MaxDepth] == IF n = 0 THEN from ELSE PartsOfAny(all, defs, types, steps[n - 1])
  IN steps

RecordType(c) == <<"record", c>>

\* c is part of itself: of a member, of a member of that, and so on.
Recursive(c) ==
  \E n \in 0..MaxDepth :
    RecordType(c) \in Inwards(TRUE, Definitions, types_, PartsOf(TRUE, Definitions, types_, RecordType(c)))[n]

\* From the k-th member of c by first members.
Way(c, k) == Inwards(FALSE, Definitions, types_, {Definition(c)[k]})

\* It goes on for n steps without c.
Misses(c, way, n) == \A m \in 0..n - 1 : way[m] # {} /\ RecordType(c) \notin way[m]

Returns(c, k) == \E n \in 0..MaxDepth : Misses(c, Way(c, k), n) /\ Way(c, k)[n] = {RecordType(c)}
Leaves(c, k) == \E n \in 0..MaxDepth : Misses(c, Way(c, k), n) /\ Way(c, k)[n] = {}

\* It comes to a type again, or to more than there is room for.
Circles(c, k) ==
  LET way == Way(c, k) IN
  /\ Misses(c, way, MaxDepth) /\ way[MaxDepth] # {}
  /\ (\E m, n \in 0..MaxDepth : m < n /\ way[m] = way[n]) \/ Cardinality({way[n] : n \in 0..MaxDepth}) > MaxDepth

\* Once the classes are complete, the search reports only a class that is part of
\* itself, which it comes back to by way of first members; it runs out of stack only on
\* a way that goes in a circle beside the class; and it comes to the end of the table
\* only when all ways from all classes have an end.  Before they are complete it finds
\* nothing.
RecursionExact ==
  "recursion" \in DOMAIN answers =>
    LET c == origin[2] IN
    \/ /\ answers.recursion = "assert"
       /\ Completed /\ Recursive(c) /\ at \in DOMAIN Definition(c) /\ Returns(c, at)
    \/ /\ answers.recursion = "crash" /\ depth > 0
       /\ Completed /\ at \in DOMAIN Definition(c) /\ Circles(c, at)
    \/ /\ answers.recursion = "crash" /\ depth = 0
       /\ Completed => \A d \in Classes : \A k \in DOMAIN Definition(d) : Leaves(d, k)
=============================================================================
