------------------------------ MODULE MCPhases ------------------------------
(***************************************************************************)
(* Phases on the trees of small programs, and what is not so.              *)
(***************************************************************************)
EXTENDS Phases, FiniteSetsExt

Pools == INSTANCE Contexts

\* The last one is what a refused source may leave: names of types.
MCUnits == Pools!Contexts \cup {[decls |-> NoDeclarations, types |-> Pools!TypesOfRefused]}

RECURSIVE NodesOf(_), HeightOf(_)

NodesOf(n) == {n} \cup UNION {NodesOf(Children(n)[k]) : k \in DOMAIN Children(n)}
HeightOf(n) == Max({0} \cup {HeightOf(Children(n)[k]) + 1 : k \in DOMAIN Children(n)})

MCNodes == UNION {UNION {NodesOf(u.decls[list][k]) : k \in DOMAIN u.decls[list]} : u \in Pools!Contexts, list \in Lists}
MCHeight == [n \in MCNodes |-> HeightOf(n)]

\* "Link VariableNode with its declaration" (LocalVarResolver.h): every one.
LinksNames ==
  Answered("resolve") /\ answers.resolve = "true" =>
    \A x \in OfClass(InLists({"variables", "constants", "functions"}), "Variable") : x.path \in DOMAIN bound

\* Every phase that is called ends.
Terminates == status \in Phases ~> status \notin Phases
=============================================================================
