--------------------------- MODULE Phases_proofs ---------------------------
(***************************************************************************)
(* For every tree the parser may leave and in every order of the phases:   *)
(* LocalVarResolver leaves every scope it enters, a name is bound to the   *)
(* innermost declaration around it, and LocalVarResolver, Sema,            *)
(* TypeChecker, the printer and TypeResolver answer true just when they    *)
(* should, and the search for recursive classes ends where it should.      *)
(***************************************************************************)
EXTENDS Phases, Integers, WellFoundedInduction, FiniteSetTheorems, TLAPS

-----------------------------------------------------------------------------
(* Lists of unknown things                                                  *)

IsList(s) == Len(s) \in Nat /\ s \in Seq({s[k] : k \in 1..Len(s)})

\* A sequence over any set is a list.
LEMMA ListOfSeq == ASSUME NEW S, NEW s \in Seq(S) PROVE IsList(s)
<1>1. Len(s) \in Nat /\ DOMAIN s = 1..Len(s)
  OBVIOUS
<1> QED
  BY <1>1 DEF IsList

\* What a list is used for.
LEMMA ListProperties ==
  ASSUME NEW s, IsList(s)
  PROVE  Len(s) \in Nat /\ DOMAIN s = 1..Len(s) /\ (s # <<>> => Len(s) > 0)
<1> QED
  BY DEF IsList

\* A list and another behind it.
LEMMA ConcatList ==
  ASSUME NEW s, IsList(s), NEW t, IsList(t)
  PROVE  /\ IsList(s \o t) /\ Len(s \o t) = Len(s) + Len(t)
         /\ \A k \in 1..Len(s) : (s \o t)[k] = s[k]
         /\ \A k \in 1..Len(t) : (s \o t)[k + Len(s)] = t[k]
<1> DEFINE S == {s[k] : k \in 1..Len(s)}
           T == {t[k] : k \in 1..Len(t)}
<1>1. s \in Seq(S \cup T) /\ t \in Seq(S \cup T)
  <2>1. s \in Seq(S) /\ t \in Seq(T)
    BY DEF IsList
  <2> HIDE DEF S, T
  <2> QED
    BY <2>1
<1> HIDE DEF S, T
<1> DEFINE U == S \cup T
<1> HIDE DEF U
<1>2. s \in Seq(U) /\ t \in Seq(U)
  BY <1>1 DEF U
<1>3. s \o t \in Seq(U)
  BY <1>2
<1>4. /\ Len(s \o t) = Len(s) + Len(t)
      /\ \A k \in 1..Len(s) : (s \o t)[k] = s[k]
      /\ \A k \in 1..Len(t) : (s \o t)[k + Len(s)] = t[k]
  BY <1>2
<1> QED
  BY <1>3, <1>4, ListOfSeq

\* A list without its first item.
LEMMA TailList ==
  ASSUME NEW s, IsList(s), s # <<>>
  PROVE  /\ IsList(Tail(s)) /\ Len(Tail(s)) = Len(s) - 1
         /\ \A k \in 1..Len(s) - 1 : Tail(s)[k] = s[k + 1]
<1> DEFINE S == {s[k] : k \in 1..Len(s)}
<1>1. s \in Seq(S)
  BY DEF IsList
<1> HIDE DEF S
<1>2. Tail(s) \in Seq(S)
  BY <1>1
<1>3. Len(Tail(s)) = Len(s) - 1 /\ \A k \in 1..Len(s) - 1 : Tail(s)[k] = s[k + 1]
  BY <1>1
<1> QED
  BY <1>2, <1>3, ListOfSeq

\* A list and one item more.
LEMMA AppendList ==
  ASSUME NEW s, IsList(s), NEW e
  PROVE  /\ IsList(Append(s, e)) /\ Len(Append(s, e)) = Len(s) + 1
         /\ Append(s, e)[Len(s) + 1] = e
         /\ \A k \in 1..Len(s) : Append(s, e)[k] = s[k]
<1> DEFINE S == {s[k] : k \in 1..Len(s)}
<1>1. s \in Seq(S \cup {e})
  <2>1. s \in Seq(S)
    BY DEF IsList
  <2> HIDE DEF S
  <2> QED
    BY <2>1
<1> HIDE DEF S
<1> DEFINE U == S \cup {e}
<1> HIDE DEF U
<1>2. s \in Seq(U) /\ e \in U
  BY <1>1 DEF U
<1>3. Append(s, e) \in Seq(U)
  BY <1>2
<1>4. /\ Len(Append(s, e)) = Len(s) + 1 /\ Append(s, e)[Len(s) + 1] = e
      /\ \A k \in 1..Len(s) : Append(s, e)[k] = s[k]
  BY <1>2
<1> QED
  BY <1>3, <1>4, ListOfSeq

\* A function of the first n numbers is a list.
LEMMA MappedList ==
  ASSUME NEW n \in Nat, NEW s, DOMAIN s = 1..n, s = [k \in 1..n |-> s[k]]
  PROVE  IsList(s) /\ Len(s) = n
<1> DEFINE S == {s[k] : k \in 1..n}
<1>1. \A k \in 1..n : s[k] \in S
  OBVIOUS
<1> HIDE DEF S
<1>2. s \in Seq(S) /\ Len(s) = n
  BY <1>1
<1> QED
  BY <1>2, ListOfSeq

-----------------------------------------------------------------------------
(* Scopes to be left: P are their places on the agenda, o what they lead   *)
(* back to, c the current scope, up the scope around each.                 *)

Nested(P, o, c, up) ==
  /\ P = {} => c = 1
  /\ \A k \in P :
       /\ (\A j \in P : k <= j) => o[k] = up[c]
       /\ (\A j \in P : j <= k) => o[k] = 1
       /\ \A j \in P : k < j /\ (\A i \in P : ~(k < i /\ i < j)) => o[j] = up[o[k]]

\* Other things come and go in front of them.
Moves(P, o, c, up, d, Q, q, up2) ==
  /\ P \subseteq Int /\ Q \subseteq Int /\ d \in Int
  /\ \A k \in Int : k \in P <=> k + d \in Q
  /\ \A k \in P : q[k + d] = o[k]
  /\ up2[c] = up[c] /\ \A k \in P : up2[o[k]] = up[o[k]]

\* Nesting needs the order of the pops only: it survives a shift of the agenda by d.
LEMMA NestedMoves ==
  ASSUME NEW P, NEW o, NEW c, NEW up, Nested(P, o, c, up),
         NEW d, NEW Q, NEW q, NEW up2, Moves(P, o, c, up, d, Q, q, up2)
  PROVE  Nested(Q, q, c, up2)
<1> USE DEF Moves
<1>1. Q = {} => P = {}
  OBVIOUS
<1>2. ASSUME NEW k \in P
      PROVE  /\ (\A j \in Q : k + d <= j) => q[k + d] = up2[c]
             /\ (\A j \in Q : j <= k + d) => q[k + d] = 1
             /\ \A j \in P : k + d < j + d /\ (\A i \in Q : ~(k + d < i /\ i < j + d)) => q[j + d] = up2[q[k + d]]
  <2>1. \A j \in P : j + d \in Q /\ j \in Int
    OBVIOUS
  <2>2. (\A j \in Q : k + d <= j) => \A j \in P : k <= j
    BY <2>1
  <2>3. (\A j \in Q : j <= k + d) => \A j \in P : j <= k
    BY <2>1
  <2>4. \A j \in P : k + d < j + d /\ (\A i \in Q : ~(k + d < i /\ i < j + d))
                       => k < j /\ \A i \in P : ~(k < i /\ i < j)
    BY <2>1
  <2> QED
    BY <2>2, <2>3, <2>4 DEF Nested
<1>3. \A k \in Q : \E j \in P : k = j + d
  <2> TAKE k \in Q
  <2>1. k \in Int
    OBVIOUS
  <2>2. \A i \in Int : (i - d) + d = i /\ i - d \in Int
    OBVIOUS
  <2> QED
    BY <2>1, <2>2
<1> QED
  BY <1>1, <1>2, <1>3 DEF Nested

\* A scope is entered: what leads back is in front of all others.
Enters(P, o, c, up, l, Q, q, c2, up2) ==
  /\ P \subseteq Int /\ l \in Int /\ Q = {l} \cup P /\ \A k \in P : l < k
  /\ q[l] = c /\ \A k \in P : q[k] = o[k]
  /\ up2[c2] = c /\ up2[c] = up[c] /\ \A k \in P : up2[o[k]] = up[o[k]]

\* A new scope, to be left before all others, keeps the nesting.
LEMMA NestedEnters ==
  ASSUME NEW P, NEW o, NEW c, NEW up, Nested(P, o, c, up),
         NEW l, NEW Q, NEW q, NEW c2, NEW up2, Enters(P, o, c, up, l, Q, q, c2, up2)
  PROVE  Nested(Q, q, c2, up2)
<1> USE DEF Enters
<1>1. l \in Q /\ Q # {}
  OBVIOUS
<1>2. (\A j \in Q : j <= l) => q[l] = 1
  <2>1. (\A j \in Q : j <= l) => P = {}
    OBVIOUS
  <2> QED
    BY <2>1 DEF Nested
<1>3. ASSUME NEW j \in P, \A i \in Q : ~(l < i /\ i < j) PROVE q[j] = up2[q[l]]
  <2>1. \A i \in P : j <= i
    BY <1>3
  <2> QED
    BY <2>1 DEF Nested
<1>4. ASSUME NEW k \in P
      PROVE  /\ ~ \A j \in Q : k <= j
             /\ (\A j \in Q : j <= k) => q[k] = 1
             /\ \A j \in P : k < j /\ (\A i \in Q : ~(k < i /\ i < j)) => q[j] = up2[q[k]]
  BY DEF Nested
<1>5. \A k \in P : ~(k < l)
  <2>1. \A k \in P : k \in Int /\ l \in Int /\ l < k
    OBVIOUS
  <2> QED
    BY <2>1
<1>6. \A k \in Q : k = l \/ k \in P
  OBVIOUS
<1> QED
  BY <1>1, <1>2, <1>3, <1>4, <1>5, <1>6 DEF Nested

\* The first of them is left.
LEMMA NestedLeaves ==
  ASSUME NEW P, P \subseteq Int, NEW o, NEW c, NEW up, Nested(P, o, c, up),
         NEW l \in P, \A k \in P : l <= k, NEW Q, Q = P \ {l}
  PROVE  o[l] = up[c] /\ Nested(Q, o, o[l], up)
<1>1. o[l] = up[c]
  BY DEF Nested
<1>2. Q = {} => o[l] = 1
  <2>1. Q = {} => \A j \in P : j <= l
    OBVIOUS
  <2> QED
    BY <2>1 DEF Nested
<1>3. ASSUME NEW k \in Q
      PROVE  /\ (\A j \in Q : k <= j) => o[k] = up[o[l]]
             /\ (\A j \in Q : j <= k) => o[k] = 1
             /\ \A j \in Q : k < j /\ (\A i \in Q : ~(k < i /\ i < j)) => o[j] = up[o[k]]
  <2>1. k \in P /\ l < k
    OBVIOUS
  <2>2. (\A j \in Q : k <= j) => \A i \in P : ~(l < i /\ i < k)
    BY <2>1
  <2>3. (\A j \in Q : j <= k) => \A j \in P : j <= k
    BY <2>1
  <2>4. \A j \in Q : k < j /\ (\A i \in Q : ~(k < i /\ i < j)) => \A i \in P : ~(k < i /\ i < j)
    BY <2>1
  <2> QED
    BY <2>1, <2>2, <2>3, <2>4 DEF Nested
<1> QED
  BY <1>1, <1>2, <1>3 DEF Nested

-----------------------------------------------------------------------------
(* The invariant                                                            *)

\* What is put on the agenda, but for what leads back out of a scope.
Harmless(items) ==
  /\ IsList(items)
  /\ \A k \in 1..Len(items) :
       /\ items[k].op \in {"visit", "declare"}
       /\ items[k].op = "visit" => items[k].node \in Nodes

AgendaOK ==
  /\ IsList(agenda)
  /\ \A k \in 1..Len(agenda) :
       /\ agenda[k].op = "visit" => agenda[k].node \in Nodes
       /\ agenda[k].op = "pop" => agenda[k].outer \in 1..Len(scopes_)

ScopeTree ==
  /\ IsList(scopes_) /\ currentScope_ \in 1..Len(scopes_)
  /\ \A s \in 1..Len(scopes_) :
       /\ DOMAIN scopes_[s] = {"parent", "extent", "decls"}
       /\ scopes_[s].parent \in 0..s - 1 /\ (scopes_[s].parent = 0 => s = 1)

DeclsOK == decls_ # NoDeclarations => \A list \in Lists : decls_[list] \in Seq(Nodes)

\* Only a pass has anything on the agenda.
Busy == agenda # <<>> => status \in {"resolve", "sema", "check", "print"}

Outer == [k \in 1..Len(agenda) |-> agenda[k].outer]
Parent == [s \in 1..Len(scopes_) |-> scopes_[s].parent]
Nests == Nested(Pops, Outer, currentScope_, Parent)

IInv == AgendaOK /\ ScopeTree /\ DeclsOK /\ Busy /\ (status # "stopped" => Nests)

\* Where the agenda leaves a scope.
LEMMA PopsAre ==
  ASSUME IsList(agenda)
  PROVE  Pops \subseteq 1..Len(agenda) /\ \A k \in 1..Len(agenda) : k \in Pops <=> agenda[k].op = "pop"
BY ListProperties DEF Pops

\* What the invariant is for.
LEMMA Implied == IInv => ScopesNest
<1> SUFFICES ASSUME IInv, status # "stopped" PROVE ScopesNest
  BY DEF ScopesNest
<1>1. Pops \subseteq 1..Len(agenda)
  BY PopsAre DEF IInv, AgendaOK
<1>2. \A k \in Pops : Outer[k] = agenda[k].outer /\ agenda[k].outer \in 1..Len(scopes_)
  BY <1>1 DEF Outer, Pops, IInv, AgendaOK
<1>3. \A s \in 1..Len(scopes_) : Parent[s] = scopes_[s].parent
  BY DEF Parent
<1>4. currentScope_ \in 1..Len(scopes_)
  BY DEF IInv, ScopeTree
<1> QED
  BY <1>2, <1>3, <1>4 DEF IInv, Nests, Nested, ScopesNest

\* The empty list.
LEMMA EmptyList == ASSUME NEW s, s = <<>> PROVE IsList(s) /\ Len(s) = 0
<1>1. s \in Seq(Nodes) /\ Len(s) = 0
  OBVIOUS
<1> QED
  BY <1>1, ListOfSeq

\* With nothing left to do, no scope is left either.
LEMMA EmptyAgenda ==
  ASSUME agenda = <<>> PROVE IsList(agenda) /\ Len(agenda) = 0 /\ Pops = {}
<1>1. agenda \in Seq(Nodes) /\ Len(agenda) = 0 /\ DOMAIN agenda = {}
  OBVIOUS
<1> QED
  BY <1>1, ListOfSeq DEF Pops

\* Before the first phase the invariant holds.
LEMMA InitOK == Init => IInv
<1> SUFFICES ASSUME Init PROVE IInv
  OBVIOUS
<1> USE DEF Init, DriverInit, PassesInit
<1>1. agenda = <<>> /\ IsList(agenda) /\ Len(agenda) = 0 /\ Pops = {}
  BY EmptyAgenda
<1>2. /\ IsList(scopes_) /\ Len(scopes_) = 1 /\ currentScope_ = 1
      /\ scopes_[1] = [parent |-> 0, extent |-> <<>>, decls |-> <<>>]
  <2> DEFINE top == [parent |-> 0, extent |-> <<>>, decls |-> <<>>]
  <2>1. scopes_ = <<top>> /\ currentScope_ = 1
    BY DEF EmptyScope, NoScope
  <2> HIDE DEF top
  <2>2. <<top>> \in Seq({top}) /\ Len(<<top>>) = 1 /\ <<top>>[1] = top
    OBVIOUS
  <2>3. IsList(scopes_)
    BY <2>1, <2>2, ListOfSeq
  <2> QED
    BY <2>1, <2>2, <2>3 DEF top
<1>3. DeclsOK
  BY TreesAssumption DEF DeclsOK, Lists
<1>4. DOMAIN scopes_[1] = {"parent", "extent", "decls"} /\ scopes_[1].parent = 0
  BY <1>2
<1>5. AgendaOK /\ ScopeTree /\ Busy
  BY <1>1, <1>2, <1>4 DEF AgendaOK, ScopeTree, Busy
<1> QED
  BY <1>1, <1>2, <1>3, <1>5 DEF IInv, Nests, Nested

-----------------------------------------------------------------------------
(* The agenda after a step                                                  *)

\* Visits and declarations behind others.
LEMMA HarmlessConcat ==
  ASSUME NEW s, Harmless(s), NEW t, Harmless(t) PROVE Harmless(s \o t)
<1>1. /\ IsList(s \o t) /\ Len(s \o t) = Len(s) + Len(t)
      /\ \A k \in 1..Len(s) : (s \o t)[k] = s[k]
      /\ \A k \in 1..Len(t) : (s \o t)[k + Len(s)] = t[k]
  BY ConcatList DEF Harmless
<1>2. Len(s) \in Nat /\ Len(t) \in Nat
  BY DEF Harmless, IsList
<1>3. \A k \in 1..Len(s) + Len(t) : k \in 1..Len(s) \/ (k - Len(s) \in 1..Len(t) /\ k = (k - Len(s)) + Len(s))
  BY <1>2
<1> QED
  BY <1>1, <1>3 DEF Harmless

\* The agenda after one item has given way to others.
LEMMA ThenIs ==
  ASSUME IsList(agenda), agenda # <<>>, NEW items, IsList(items), Then(items)
  PROVE  /\ IsList(agenda') /\ Len(items) \in Nat /\ Len(agenda) \in Nat \ {0}
         /\ Len(agenda') = Len(items) + Len(agenda) - 1
         /\ \A k \in 1..Len(items) : agenda'[k] = items[k]
         /\ \A k \in 2..Len(agenda) : agenda'[k + (Len(items) - 1)] = agenda[k]
<1>1. /\ IsList(Tail(agenda)) /\ Len(Tail(agenda)) = Len(agenda) - 1
      /\ \A k \in 1..Len(agenda) - 1 : Tail(agenda)[k] = agenda[k + 1]
  BY TailList
<1>2. agenda' = items \o Tail(agenda)
  BY DEF Then
<1>3. Len(items) \in Nat /\ Len(agenda) \in Nat \ {0}
  BY ListProperties
<1>4. /\ IsList(agenda') /\ Len(agenda') = Len(items) + (Len(agenda) - 1)
      /\ \A k \in 1..Len(items) : agenda'[k] = items[k]
      /\ \A k \in 1..Len(agenda) - 1 : agenda'[k + Len(items)] = Tail(agenda)[k]
  BY <1>1, <1>2, ConcatList
<1>5. ASSUME NEW k \in 2..Len(agenda) PROVE agenda'[k + (Len(items) - 1)] = agenda[k]
  <2>1. k - 1 \in 1..Len(agenda) - 1 /\ (k - 1) + Len(items) = k + (Len(items) - 1) /\ (k - 1) + 1 = k
    BY <1>3
  <2> QED
    BY <1>1, <1>4, <2>1
<1> QED
  BY <1>3, <1>4, <1>5

\* The place of everything behind the first item.
LEMMA Places ==
  ASSUME NEW n \in Nat, NEW m \in Nat \ {0}, NEW k \in 1..n + m - 1
  PROVE  k \in 1..n \/ \E j \in 2..m : k = j + (n - 1)
<1>1. CASE k <= n
  BY <1>1
<1>2. CASE k > n
  <2>1. k - (n - 1) \in 2..m /\ k = (k - (n - 1)) + (n - 1)
    BY <1>2
  <2> QED
    BY <2>1
<1> QED
  BY <1>1, <1>2

\* What leads back out of a scope, after a step that puts items in the place of the first.
LEMMA PopsAfter ==
  ASSUME IsList(agenda), agenda # <<>>, NEW items, IsList(items), Then(items), NEW d, d = Len(items) - 1
  PROVE  /\ d \in Int /\ Pops \subseteq 1..Len(agenda) /\ Pops' \subseteq Int
         /\ \A k \in Int : k \in Pops' <=> (k \in 1..Len(items) /\ items[k].op = "pop") \/ (k - d \in Pops /\ k - d # 1)
         /\ \A k \in Pops : k # 1 => Outer'[k + d] = Outer[k]
<1> DEFINE n == Len(items)
           m == Len(agenda)
<1>1. /\ IsList(agenda') /\ n \in Nat /\ m \in Nat \ {0} /\ Len(agenda') = n + m - 1 /\ d = n - 1 /\ d \in Int
      /\ \A k \in 1..n : agenda'[k] = items[k]
      /\ \A k \in 2..m : agenda'[k + d] = agenda[k]
  BY ThenIs
<1>2. Pops \subseteq 1..m /\ \A k \in 1..m : k \in Pops <=> agenda[k].op = "pop"
  BY PopsAre
<1>3. Pops' \subseteq 1..n + m - 1 /\ \A k \in 1..n + m - 1 : k \in Pops' <=> agenda'[k].op = "pop"
  BY <1>1, ListProperties DEF Pops
<1>4. Outer = [k \in 1..m |-> agenda[k].outer] /\ Outer' = [k \in 1..n + m - 1 |-> agenda'[k].outer]
  BY <1>1 DEF Outer
<1> HIDE DEF n, m
<1>5. ASSUME NEW k \in 1..n PROVE k \in Pops' <=> items[k].op = "pop"
  <2>1. k \in 1..n + m - 1
    BY <1>1
  <2> QED
    BY <1>1, <1>3, <2>1
<1>6. ASSUME NEW k \in 2..m PROVE k + d \in Pops' <=> k \in Pops
  <2>1. k + d \in 1..n + m - 1 /\ k \in 1..m
    BY <1>1
  <2>2. agenda'[k + d] = agenda[k]
    BY <1>1
  <2>3. k + d \in Pops' <=> agenda'[k + d].op = "pop"
    BY <1>3, <2>1
  <2>4. k \in Pops <=> agenda[k].op = "pop"
    BY <1>2, <2>1
  <2> QED
    BY <2>2, <2>3, <2>4
<1>7. ASSUME NEW k \in Int
      PROVE  k \in Pops' <=> (k \in 1..n /\ items[k].op = "pop") \/ (k - d \in Pops /\ k - d # 1)
  <2>1. CASE k \in 1..n
    <3>1. k - d \in 1..m => k - d = 1
      BY <1>1, <2>1
    <3> QED
      BY <1>2, <1>5, <2>1, <3>1
  <2>2. CASE k - d \in 2..m
    <3>1. k \notin 1..n /\ (k - d) + d = k /\ k - d # 1
      BY <1>1, <2>2
    <3>2. (k - d) + d \in Pops' <=> k - d \in Pops
      BY <1>6, <2>2
    <3> QED
      BY <3>1, <3>2
  <2>3. CASE k \notin 1..n /\ k - d \notin 2..m
    <3>1. k \notin 1..n + m - 1
      BY <1>1, <2>3
    <3>2. k - d \in 1..m => k - d = 1
      BY <1>1, <2>3
    <3> QED
      BY <1>2, <1>3, <2>3, <3>1, <3>2
  <2> QED
    BY <2>1, <2>2, <2>3
<1>8. ASSUME NEW k \in Pops, k # 1 PROVE Outer'[k + d] = Outer[k]
  <2>1. k \in 1..m /\ k \in 2..m
    BY <1>1, <1>2, <1>8
  <2>2. k + d \in 1..n + m - 1 /\ agenda'[k + d] = agenda[k]
    BY <1>1, <2>1
  <2> QED
    BY <1>4, <2>1, <2>2
<1>9. Pops' \subseteq Int
  BY <1>1, <1>3
<1> QED
  BY <1>1, <1>2, <1>7, <1>8, <1>9 DEF n, m

\* Nothing that is put on the agenda is harmful.
LEMMA AgendaAfter ==
  ASSUME AgendaOK, agenda # <<>>, NEW items, IsList(items), Then(items), Len(scopes_) \in Nat,
         Len(scopes_') \in Nat, Len(scopes_) <= Len(scopes_'),
         \A k \in 1..Len(items) :
           /\ items[k].op = "visit" => items[k].node \in Nodes
           /\ items[k].op = "pop" => items[k].outer \in 1..Len(scopes_')
  PROVE  AgendaOK'
<1> DEFINE n == Len(items)
           m == Len(agenda)
<1>1. /\ IsList(agenda') /\ n \in Nat /\ m \in Nat \ {0} /\ Len(agenda') = n + m - 1
      /\ \A k \in 1..n : agenda'[k] = items[k]
      /\ \A k \in 2..m : agenda'[k + (n - 1)] = agenda[k]
  BY ThenIs DEF AgendaOK
<1> SUFFICES ASSUME NEW k \in 1..Len(agenda')
    PROVE  /\ agenda'[k].op = "visit" => agenda'[k].node \in Nodes
           /\ agenda'[k].op = "pop" => agenda'[k].outer \in 1..Len(scopes_')
  BY <1>1 DEF AgendaOK
<1>2. CASE k \in 1..n
  BY <1>1, <1>2
<1>3. ASSUME NEW j \in 2..m, k = j + (n - 1)
      PROVE  /\ agenda'[k].op = "visit" => agenda'[k].node \in Nodes
             /\ agenda'[k].op = "pop" => agenda'[k].outer \in 1..Len(scopes_')
  <2>1. agenda'[k] = agenda[j] /\ j \in 1..m
    BY <1>1, <1>3
  <2>2. /\ agenda[j].op = "visit" => agenda[j].node \in Nodes
        /\ agenda[j].op = "pop" => agenda[j].outer \in 1..Len(scopes_)
    BY <2>1 DEF AgendaOK
  <2> QED
    BY <2>1, <2>2
<1> QED
  BY <1>1, <1>2, <1>3, Places

\* The scopes are what they were, but for their declarations.
SameScopes ==
  /\ IsList(scopes_') /\ Len(scopes_') = Len(scopes_) /\ currentScope_' = currentScope_
  /\ \A s \in 1..Len(scopes_) : DOMAIN scopes_'[s] = {"parent", "extent", "decls"} /\ scopes_'[s].parent = scopes_[s].parent

\* Items that leave no scope may take the place of one that does not.
LEMMA ThenOK ==
  ASSUME IInv, agenda # <<>>, agenda[1].op # "pop", NEW items, Harmless(items), Then(items), Continue, SameScopes
  PROVE  IInv'
<1>1. IsList(agenda) /\ IsList(items) /\ Len(agenda) \in Nat \ {0} /\ Len(items) \in Nat /\ Len(scopes_) \in Nat
  BY ListProperties DEF IInv, AgendaOK, Harmless, ScopeTree
<1>2. AgendaOK'
  BY <1>1, AgendaAfter DEF IInv, Harmless, SameScopes
<1>3. ScopeTree' /\ DeclsOK' /\ Busy'
  BY DEF IInv, ScopeTree, SameScopes, DeclsOK, Continue, Busy
<1>4. ASSUME status # "stopped" PROVE Nests'
  <2> DEFINE d == Len(items) - 1
  <2>1. /\ d \in Int /\ Pops \subseteq 1..Len(agenda) /\ Pops' \subseteq Int
        /\ \A k \in Int : k \in Pops' <=> (k \in 1..Len(items) /\ items[k].op = "pop") \/ (k - d \in Pops /\ k - d # 1)
        /\ \A k \in Pops : k # 1 => Outer'[k + d] = Outer[k]
    BY <1>1, PopsAfter
  <2> HIDE DEF d
  <2>2. 1 \notin Pops /\ \A k \in Pops : k \in Int /\ k # 1 /\ Outer[k] \in 1..Len(scopes_)
    <3>1. \A k \in Pops : k \in 1..Len(agenda) /\ agenda[k].op = "pop"
      BY <2>1 DEF Pops
    <3> QED
      BY <3>1 DEF Outer, IInv, AgendaOK
  <2>3. \A k \in 1..Len(items) : items[k].op # "pop"
    BY DEF Harmless
  <2>4. \A k \in Int : k \in Pops <=> k + d \in Pops'
    <3> TAKE k \in Int
    <3>1. k + d \in Int /\ (k + d) - d = k
      BY <2>1
    <3> QED
      BY <2>1, <2>2, <2>3, <3>1
  <2>5. \A k \in Pops : Outer'[k + d] = Outer[k]
    BY <2>1, <2>2
  <2>6. currentScope_' = currentScope_ /\ Parent'[currentScope_] = Parent[currentScope_]
    BY DEF Parent, IInv, ScopeTree, SameScopes
  <2>7. \A k \in Pops : Parent'[Outer[k]] = Parent[Outer[k]]
    BY <2>2 DEF Parent, SameScopes
  <2>8. Nested(Pops, Outer, currentScope_, Parent) /\ Pops \subseteq Int
    BY <1>4, <2>2 DEF IInv, Nests
  <2>9. Moves(Pops, Outer, currentScope_, Parent, d, Pops', Outer', Parent')
    BY <2>1, <2>4, <2>5, <2>6, <2>7, <2>8 DEF Moves
  <2>10. Nested(Pops', Outer', currentScope_, Parent')
    BY <2>8, <2>9, NestedMoves
  <2> QED
    BY <2>6, <2>10 DEF Nests
<1> QED
  BY <1>2, <1>3, <1>4 DEF IInv, Continue

\* An item of its own, Pop(currentScope_), is put behind those of the body.
LEMMA PushOK ==
  ASSUME IInv, agenda # <<>>, agenda[1].op # "pop", NEW items, Harmless(items),
         Then(items \o <<Pop(currentScope_)>>), Continue, PushScope
  PROVE  IInv'
<1> DEFINE pop == Pop(currentScope_)
           all == items \o <<pop>>
           n == Len(items)
           N == Len(scopes_)
<1>1. IsList(agenda) /\ IsList(items) /\ n \in Nat /\ N \in Nat /\ IsList(scopes_) /\ currentScope_ \in 1..N
  BY ListProperties DEF IInv, AgendaOK, Harmless, ScopeTree
<1>2. pop.op = "pop" /\ pop.outer = currentScope_
  BY DEF Pop
<1>3. /\ IsList(all) /\ Len(all) = n + 1 /\ all[n + 1] = pop
      /\ \A k \in 1..n : all[k] = items[k]
  <2> HIDE DEF pop
  <2>1. <<pop>> \in Seq({pop}) /\ Len(<<pop>>) = 1 /\ <<pop>>[1] = pop
    OBVIOUS
  <2>2. IsList(<<pop>>)
    BY <2>1, ListOfSeq
  <2>3. /\ IsList(all) /\ Len(all) = n + Len(<<pop>>)
        /\ \A k \in 1..n : all[k] = items[k]
        /\ \A k \in 1..Len(<<pop>>) : all[k + n] = <<pop>>[k]
    BY <1>1, <2>2, ConcatList
  <2> QED
    BY <1>1, <2>1, <2>3
<1>4. Then(all)
  OBVIOUS
<1> HIDE DEF all, pop
<1>5. /\ IsList(scopes_') /\ Len(scopes_') = N + 1 /\ currentScope_' = N + 1
      /\ \A s \in 1..N : scopes_'[s] = scopes_[s]
      /\ DOMAIN scopes_'[N + 1] = {"parent", "extent", "decls"} /\ scopes_'[N + 1].parent = currentScope_
  <2> DEFINE new == EmptyScope(currentScope_, Top.path)
  <2>1. DOMAIN new = {"parent", "extent", "decls"} /\ new.parent = currentScope_
    BY DEF EmptyScope
  <2> HIDE DEF new
  <2>2. scopes_' = Append(scopes_, new) /\ currentScope_' = N + 1
    BY DEF PushScope, new
  <2> QED
    BY <1>1, <2>1, <2>2, AppendList
<1>6. \A k \in 1..n + 1 : k \in 1..n \/ k = n + 1
  BY <1>1
<1>7. \A k \in 1..Len(all) :
        /\ all[k].op = "visit" => all[k].node \in Nodes
        /\ all[k].op = "pop" <=> k = n + 1
        /\ all[k].op = "pop" => all[k].outer \in 1..Len(scopes_')
  <2> TAKE k \in 1..Len(all)
  <2>1. CASE k \in 1..n
    <3>1. all[k].op \in {"visit", "declare"} /\ (all[k].op = "visit" => all[k].node \in Nodes) /\ k # n + 1
      BY <1>1, <1>3, <2>1 DEF Harmless
    <3> QED
      BY <3>1
  <2>2. CASE k = n + 1
    BY <1>1, <1>2, <1>3, <1>5, <2>2
  <2> QED
    BY <1>3, <1>6, <2>1, <2>2
<1>8. AgendaOK'
  <2>1. N <= Len(scopes_') /\ Len(scopes_') \in Nat
    BY <1>1, <1>5
  <2> QED
    BY <1>1, <1>3, <1>4, <1>7, <2>1, AgendaAfter DEF IInv
<1>9. ScopeTree'
  <2> SUFFICES ASSUME NEW s \in 1..N + 1
      PROVE  /\ DOMAIN scopes_'[s] = {"parent", "extent", "decls"}
             /\ scopes_'[s].parent \in 0..s - 1 /\ (scopes_'[s].parent = 0 => s = 1)
    BY <1>1, <1>5 DEF ScopeTree
  <2>1. CASE s \in 1..N
    BY <1>5, <2>1 DEF IInv, ScopeTree
  <2>2. CASE s = N + 1
    BY <1>1, <1>5, <2>2
  <2> QED
    BY <1>1, <2>1, <2>2
<1>10. DeclsOK' /\ Busy'
  BY DEF IInv, DeclsOK, Continue, Busy
<1>11. ASSUME status # "stopped" PROVE Nests'
  <2> DEFINE P == {k + n : k \in Pops}
  <2>1. /\ n = Len(all) - 1 /\ Pops \subseteq 1..Len(agenda) /\ Pops' \subseteq Int
        /\ \A k \in Int : k \in Pops' <=> (k \in 1..Len(all) /\ all[k].op = "pop") \/ (k - n \in Pops /\ k - n # 1)
        /\ \A k \in Pops : k # 1 => Outer'[k + n] = Outer[k]
    <3>1. n = Len(all) - 1
      BY <1>1, <1>3
    <3> HIDE DEF n
    <3> QED
      BY <1>1, <1>3, <1>4, <3>1, PopsAfter
  <2>2. 1 \notin Pops /\ \A k \in Pops : k \in Int /\ k > 1 /\ Outer[k] \in 1..N
    <3>1. \A k \in Pops : k \in 1..Len(agenda) /\ agenda[k].op = "pop"
      BY <2>1 DEF Pops
    <3>2. \A k \in Pops : k \in Int /\ k # 1 /\ k >= 1
      BY <1>1, <3>1, ListProperties
    <3> QED
      BY <3>1, <3>2 DEF Outer, IInv, AgendaOK
  <2>3. /\ \A k \in Int : k \in Pops <=> k + n \in P
        /\ P \subseteq Int /\ \A k \in P : k - n \in Pops /\ (k - n) + n = k /\ n + 1 < k
    BY <1>1, <2>2
  <2>4. \A s \in 1..N : Parent'[s] = Parent[s]
    BY <1>1, <1>5 DEF Parent
  <2>5. Nested(Pops, Outer, currentScope_, Parent) /\ Pops \subseteq Int
    BY <1>11, <2>2 DEF IInv, Nests
  <2>6. Moves(Pops, Outer, currentScope_, Parent, n, P, Outer', Parent')
    BY <1>1, <2>1, <2>2, <2>3, <2>4, <2>5 DEF Moves
  <2>7. Nested(P, Outer', currentScope_, Parent')
    BY <2>5, <2>6, NestedMoves
  <2>8. Pops' = {n + 1} \cup P
    <3>1. \A k \in Int : (k \in 1..Len(all) /\ all[k].op = "pop") <=> k = n + 1
      BY <1>1, <1>3, <1>7
    <3>2. \A k \in Int : (k - n \in Pops /\ k - n # 1) <=> k \in P
      <4> TAKE k \in Int
      <4>1. k - n \in Int /\ (k - n) + n = k
        BY <1>1
      <4> QED
        BY <2>2, <2>3, <4>1
    <3>3. n + 1 \in Int /\ P \subseteq Int /\ Pops' \subseteq Int
      BY <1>1, <2>1, <2>3
    <3>4. \A k \in Int : k \in Pops' <=> k = n + 1 \/ k \in P
      BY <2>1, <3>1, <3>2
    <3> HIDE DEF P, n
    <3> QED
      BY <3>3, <3>4
  <2>9. Outer'[n + 1] = currentScope_
    <3>1. agenda'[n + 1] = pop /\ n + 1 \in 1..Len(agenda')
      BY <1>1, <1>3, <1>4, ThenIs
    <3> QED
      BY <1>2, <3>1 DEF Outer
  <2>10. Parent'[N + 1] = currentScope_
    BY <1>1, <1>5 DEF Parent
  <2> HIDE DEF P
  <2>11. Enters(P, Outer', currentScope_, Parent', n + 1, Pops', Outer', N + 1, Parent')
    BY <1>1, <2>3, <2>8, <2>9, <2>10 DEF Enters
  <2>12. Nested(Pops', Outer', N + 1, Parent')
    BY <2>7, <2>11, NestedEnters
  <2> QED
    BY <1>5, <2>12 DEF Nests
<1> QED
  BY <1>8, <1>9, <1>10, <1>11 DEF IInv, Continue

\* No items leave no scope.
LEMMA EmptyHarmless == Harmless(<<>>)
<1> DEFINE empty == <<>>
<1>1. IsList(empty) /\ Len(empty) = 0
  BY EmptyList
<1> HIDE DEF empty
<1>2. Harmless(empty)
  <2>1. \A k \in 1..Len(empty) : FALSE
    BY <1>1
  <2> QED
    BY <1>1, <2>1 DEF Harmless
<1> QED
  BY <1>2 DEF empty

\* What leads back is the first item: the scope around the current one is gone back to.
LEMMA LeaveOK == ASSUME IInv, LeaveScope PROVE IInv'
<1> DEFINE none == <<>>
<1>1. agenda # <<>> /\ agenda[1].op = "pop" /\ Then(none) /\ Continue /\ scopes_' = scopes_ /\ currentScope_' = PopScope
  BY DEF LeaveScope, Now, Top
<1>2. IsList(none) /\ Len(none) = 0
  BY EmptyHarmless, EmptyList DEF Harmless
<1> HIDE DEF none
<1>3. IsList(agenda) /\ Len(agenda) \in Nat \ {0} /\ Len(scopes_) \in Nat /\ currentScope_ \in 1..Len(scopes_)
  BY <1>1, ListProperties DEF IInv, AgendaOK, ScopeTree
<1>4. AgendaOK'
  <2>1. Len(scopes_') \in Nat /\ Len(scopes_) <= Len(scopes_')
    BY <1>1, <1>3
  <2> QED
    BY <1>1, <1>2, <1>3, <2>1, AgendaAfter DEF IInv
<1>5. DeclsOK' /\ Busy'
  BY <1>1 DEF IInv, DeclsOK, Continue, Busy
<1>6. currentScope_' \in 1..Len(scopes_)
  BY <1>1, <1>3 DEF PopScope, NoScope, IInv, ScopeTree
<1>7. ScopeTree'
  BY <1>1, <1>6 DEF IInv, ScopeTree
<1>8. ASSUME status # "stopped" PROVE Nests'
  <2> DEFINE P == Pops \ {1}
             d == -1
  <2>1. /\ d = Len(none) - 1 /\ d \in Int /\ Pops \subseteq 1..Len(agenda) /\ Pops' \subseteq Int
        /\ \A k \in Int : k \in Pops' <=> (k \in 1..Len(none) /\ none[k].op = "pop") \/ (k - d \in Pops /\ k - d # 1)
        /\ \A k \in Pops : k # 1 => Outer'[k + d] = Outer[k]
    <3>1. d = Len(none) - 1
      BY <1>2
    <3> HIDE DEF d
    <3> QED
      BY <1>1, <1>2, <1>3, <3>1, PopsAfter
  <2>2. 1 \in Pops /\ \A k \in Pops : k \in Int /\ 1 <= k /\ Outer[k] \in 1..Len(scopes_)
    <3>1. \A k \in 1..Len(agenda) : k \in Pops <=> agenda[k].op = "pop"
      BY <1>3, PopsAre
    <3>2. 1 \in 1..Len(agenda)
      BY <1>3
    <3> QED
      BY <1>1, <1>3, <2>1, <3>1, <3>2 DEF Outer, IInv, AgendaOK
  <2>3. Nested(Pops, Outer, currentScope_, Parent) /\ Pops \subseteq Int
    BY <1>8, <2>2 DEF IInv, Nests
  <2>4. Outer[1] = Parent[currentScope_] /\ Nested(P, Outer, Outer[1], Parent)
    BY <2>2, <2>3, NestedLeaves
  <2>5. currentScope_' = Outer[1]
    BY <1>1, <1>3, <2>2, <2>4 DEF PopScope, NoScope, Parent
  <2>6. Parent' = Parent
    BY <1>1 DEF Parent
  <2>7. \A k \in Int : k \in P <=> k + d \in Pops'
    <3> TAKE k \in Int
    <3>1. k + d \in Int /\ (k + d) - d = k
      BY <2>1
    <3>2. ~(k + d \in 1..Len(none))
      BY <1>2, <2>1
    <3> HIDE DEF d
    <3> QED
      BY <2>1, <3>1, <3>2
  <2>8. Moves(P, Outer, Outer[1], Parent, d, Pops', Outer', Parent')
    BY <2>1, <2>3, <2>6, <2>7 DEF Moves
  <2> HIDE DEF P, d
  <2>9. Nested(Pops', Outer', Outer[1], Parent')
    BY <2>4, <2>8, NestedMoves
  <2> QED
    BY <2>5, <2>9 DEF Nests
<1> QED
  BY <1>1, <1>4, <1>5, <1>7, <1>8 DEF IInv, Continue

\* A phase that is stopped has nothing left to do.
LEMMA StopOK ==
  ASSUME IInv, agenda' = <<>>, status' = "stopped", UNCHANGED <<decls_, scopes_, currentScope_>> PROVE IInv'
<1>1. IsList(agenda') /\ Len(agenda') = 0
  BY EmptyList
<1>2. AgendaOK'
  <2>1. \A k \in 1..Len(agenda') : FALSE
    BY <1>1
  <2> QED
    BY <1>1, <2>1 DEF AgendaOK
<1>3. ScopeTree' /\ DeclsOK' /\ Busy'
  BY DEF IInv, ScopeTree, DeclsOK, Busy
<1>4. status' = "stopped"
  OBVIOUS
<1> QED
  BY <1>2, <1>3, <1>4 DEF IInv

\* A phase may begin with any visits and declarations.
LEMMA BeginOK ==
  ASSUME IInv, NEW phase \in {"resolve", "sema", "check", "print"}, Begin(phase),
         Harmless(agenda'), UNCHANGED <<scopes_, currentScope_>>
  PROVE  IInv'
<1>1. status = "idle" /\ status' = phase /\ decls_' = decls_
  BY DEF Begin
<1>2. agenda = <<>>
  BY <1>1 DEF IInv, Busy
<1>3. Pops = {} /\ Len(scopes_) \in Nat
  BY <1>2, EmptyAgenda, ListProperties DEF IInv, ScopeTree
<1>4. currentScope_ = 1
  BY <1>1, <1>3 DEF IInv, Nests, Nested
<1>5. /\ IsList(agenda')
      /\ \A k \in 1..Len(agenda') :
           agenda'[k].op # "pop" /\ (agenda'[k].op = "visit" => agenda'[k].node \in Nodes)
  BY DEF Harmless
<1>6. Pops' = {}
  BY <1>5, ListProperties DEF Pops
<1>7. AgendaOK' /\ ScopeTree' /\ DeclsOK' /\ Busy'
  BY <1>1, <1>5 DEF IInv, AgendaOK, ScopeTree, DeclsOK, Busy
<1> QED
  BY <1>4, <1>6, <1>7 DEF IInv, Nests, Nested

\* The state of the passes is not looked at, or only as a phase begins or ends between two passes.
LEMMA ElsewhereOK ==
  ASSUME IInv, UNCHANGED <<agenda, scopes_, currentScope_, decls_>>,
         agenda # <<>> => status' = status, status = "stopped" => status' = "stopped"
  PROVE  IInv'
<1>1. Pops' = Pops /\ Outer' = Outer /\ Parent' = Parent
  BY DEF Pops, Outer, Parent
<1> QED
  BY <1>1 DEF IInv, AgendaOK, ScopeTree, DeclsOK, Busy, Nests

-----------------------------------------------------------------------------
(* What the phases put on the agenda                                        *)

\* Visits of the nodes of a list.
LEMMA MapHarmless ==
  ASSUME NEW S, NEW list \in Seq(S), NEW items, DOMAIN items = DOMAIN list, items = [k \in DOMAIN list |-> items[k]],
         \A k \in DOMAIN list : items[k].op \in {"visit", "declare"} /\ (items[k].op = "visit" => items[k].node \in Nodes)
  PROVE  Harmless(items)
<1>1. DOMAIN list = 1..Len(list) /\ Len(list) \in Nat
  OBVIOUS
<1>2. IsList(items) /\ Len(items) = Len(list)
  BY <1>1, MappedList
<1> QED
  BY <1>1, <1>2 DEF Harmless

\* The children of a node are visited.
LEMMA VisitAllHarmless == ASSUME NEW item, item.node \in Nodes PROVE Harmless(VisitAll(item))
<1> DEFINE ns == Children(item.node)
           items == VisitAll(item)
<1>1. ns \in Seq(Nodes)
  BY TreesAssumption
<1>2. DOMAIN items = DOMAIN ns /\ items = [k \in DOMAIN ns |-> items[k]]
  BY DEF VisitAll
<1>3. \A k \in DOMAIN ns : items[k].op = "visit" /\ items[k].node = ns[k]
  BY DEF VisitAll, Visit
<1> HIDE DEF ns, items
<1>4. \A k \in DOMAIN ns : ns[k] \in Nodes
  BY <1>1
<1>5. Harmless(items)
  BY <1>1, <1>2, <1>3, <1>4, MapHarmless
<1> QED
  BY <1>5 DEF items

\* The nodes of a list are declared.
LEMMA DeclareAllHarmless == ASSUME NEW nodes \in Seq(Nodes), NEW path PROVE Harmless(DeclareAll(nodes, path))
<1> DEFINE items == DeclareAll(nodes, path)
<1>1. DOMAIN items = DOMAIN nodes /\ items = [k \in DOMAIN nodes |-> items[k]]
  BY DEF DeclareAll
<1>2. \A k \in DOMAIN nodes : items[k].op = "declare"
  BY DEF DeclareAll, Declare
<1> HIDE DEF items
<1>3. Harmless(items)
  BY <1>1, <1>2, MapHarmless
<1> QED
  BY <1>3 DEF items

\* A list of the Declarations is visited.
LEMMA VisitListHarmless ==
  ASSUME NEW list, decls_[list] \in Seq(Nodes)
  PROVE  /\ Harmless(VisitList(list))
         /\ \A k \in 1..Len(VisitList(list)) : VisitList(list)[k].op = "visit"
<1> DEFINE nodes == decls_[list]
           items == VisitList(list)
<1>1. DOMAIN items = DOMAIN nodes /\ items = [k \in DOMAIN nodes |-> items[k]]
  BY DEF VisitList
<1>2. \A k \in DOMAIN nodes : items[k].op = "visit" /\ items[k].node = nodes[k]
  BY DEF VisitList, Visit
<1>3. nodes \in Seq(Nodes)
  OBVIOUS
<1> HIDE DEF items, nodes
<1>4. \A k \in DOMAIN nodes : nodes[k] \in Nodes
  BY <1>3
<1>5. Harmless(items)
  BY <1>1, <1>2, <1>3, <1>4, MapHarmless
<1>6. DOMAIN items = 1..Len(items)
  BY <1>5, ListProperties DEF Harmless
<1> QED
  BY <1>1, <1>2, <1>5, <1>6 DEF items

\* A single visit or declaration.
LEMMA OneHarmless ==
  ASSUME NEW e, e.op \in {"visit", "declare"}, e.op = "visit" => e.node \in Nodes PROVE Harmless(<<e>>)
<1>1. <<e>> \in Seq({e}) /\ Len(<<e>>) = 1 /\ <<e>>[1] = e
  OBVIOUS
<1>2. IsList(<<e>>)
  BY <1>1, ListOfSeq
<1>3. \A k \in 1..Len(<<e>>) : k = 1
  BY <1>1
<1> QED
  BY <1>1, <1>2, <1>3 DEF Harmless

\* The first node of a list of the Declarations is visited, if there is one.
LEMMA FirstHarmless == ASSUME NEW list, decls_[list] \in Seq(Nodes) PROVE Harmless(First(list))
<1> DEFINE items == VisitList(list)
<1>1. Harmless(items) /\ First(list) = IF items = <<>> THEN <<>> ELSE <<items[1]>>
  BY VisitListHarmless DEF First
<1> HIDE DEF items
<1>2. CASE items = <<>>
  BY <1>1, <1>2, EmptyHarmless
<1>3. CASE items # <<>>
  <2>1. 1 \in 1..Len(items)
    BY <1>1, <1>3, ListProperties DEF Harmless
  <2>2. items[1].op \in {"visit", "declare"} /\ (items[1].op = "visit" => items[1].node \in Nodes)
    BY <1>1, <2>1 DEF Harmless
  <2>3. Harmless(<<items[1]>>)
    BY <2>2, OneHarmless
  <2> QED
    BY <1>1, <1>3, <2>3
<1> QED
  BY <1>2, <1>3

-----------------------------------------------------------------------------
(* The steps                                                                *)

\* What every step of a pass but the last has in common.
LEMMA FirstItem ==
  ASSUME IInv, NEW op, Now(op)
  PROVE  /\ agenda # <<>> /\ agenda[1].op = op /\ Top = agenda[1]
         /\ op = "visit" => Top.node \in Nodes
<1>1. agenda # <<>> /\ agenda[1].op = op /\ Top = agenda[1]
  BY DEF Now, Top
<1>2. 1 \in 1..Len(agenda)
  BY <1>1, ListProperties DEF IInv, AgendaOK
<1> QED
  BY <1>1, <1>2 DEF IInv, AgendaOK

\* An item other than a pop may give way to visits and declarations.
LEMMA VisitOK ==
  ASSUME IInv, NEW op, Now(op), op # "pop", NEW items, Harmless(items), Then(items), Continue,
         UNCHANGED <<scopes_, currentScope_>>
  PROVE  IInv'
<1>1. SameScopes
  BY DEF SameScopes, IInv, ScopeTree
<1>2. agenda # <<>> /\ agenda[1].op # "pop"
  BY FirstItem
<1> QED
  BY <1>1, <1>2, ThenOK

\* A phase may be refused or crash anywhere.
LEMMA EndOK ==
  ASSUME IInv, Refuse \/ Crash, Stop, UNCHANGED <<scopes_, currentScope_>> PROVE IInv'
BY StopOK DEF Refuse, Crash, Answer, Stop

\* A node that is examined and then visited, or refused.
LEMMA ExamineOK ==
  ASSUME IInv, Now("visit"), NEW ok, Examine(ok), UNCHANGED <<scopes_, currentScope_>> PROVE IInv'
<1>1. CASE Then(VisitAll(Top)) /\ Continue
  BY <1>1, FirstItem, VisitAllHarmless, VisitOK
<1>2. CASE Refuse /\ Stop
  BY <1>2, EndOK
<1> QED
  BY <1>1, <1>2 DEF Examine

\* A declaration joins the current scope, which stays where it is in the tree.
LEMMA AddNamedDeclOK == ASSUME IInv, AddNamedDecl PROVE IInv'
<1>1. Now("declare") /\ currentScope_' = currentScope_
  BY DEF AddNamedDecl
<1>2. CASE Refuse /\ Stop /\ UNCHANGED scopes_
  BY <1>1, <1>2, EndOK
<1>3. CASE /\ scopes_' = [scopes_ EXCEPT ![currentScope_].decls = Append(@, [node |-> Top.node, path |-> Top.path])]
           /\ Then(<<>>) /\ Continue
  <2> DEFINE N == Len(scopes_)
             e == [node |-> Top.node, path |-> Top.path]
  <2>1. /\ DOMAIN scopes_ = 1..N /\ N \in Nat /\ currentScope_ \in 1..N
        /\ \A s \in 1..N : DOMAIN scopes_[s] = {"parent", "extent", "decls"}
    BY ListProperties DEF IInv, ScopeTree
  <2> HIDE DEF N, e
  <2>2. DOMAIN scopes_' = 1..N /\ scopes_' = [s \in 1..N |-> scopes_'[s]]
    BY <1>3, <2>1
  <2>3. IsList(scopes_') /\ Len(scopes_') = N
    BY <2>1, <2>2, MappedList
  <2>4. \A s \in 1..N : s # currentScope_ => scopes_'[s] = scopes_[s]
    BY <1>3, <2>1
  <2>5. scopes_'[currentScope_] = [scopes_[currentScope_] EXCEPT !.decls = Append(scopes_[currentScope_].decls, e)]
    BY <1>3, <2>1 DEF e
  <2>6. DOMAIN scopes_'[currentScope_] = {"parent", "extent", "decls"} /\ scopes_'[currentScope_].parent = scopes_[currentScope_].parent
    BY <2>1, <2>5
  <2>7. SameScopes
    BY <1>1, <2>1, <2>3, <2>4, <2>6 DEF SameScopes, N
  <2>8. agenda # <<>> /\ agenda[1].op # "pop"
    BY <1>1, FirstItem
  <2> QED
    BY <1>3, <2>7, <2>8, EmptyHarmless, ThenOK
<1> QED
  BY <1>2, <1>3 DEF AddNamedDecl

\* The resolver enters scopes only together with the pop that leaves them.
LEMMA ResolveOK ==
  ASSUME IInv, ResolveLocalVariable \/ ResolveBlock \/ ResolveFunctionDecl \/ ResolveVariable PROVE IInv'
<1>1. CASE ResolveLocalVariable
  <2>1. Begin("resolve") /\ UNCHANGED <<scopes_, currentScope_>>
    BY <1>1 DEF ResolveLocalVariable
  <2>2. \A list \in Lists : decls_[list] \in Seq(Nodes)
    BY <2>1 DEF Begin, IInv, DeclsOK
  <2>3. \A list \in {"functions", "constants", "variables"} :
          Harmless(First(list)) /\ Harmless(DeclareAll(decls_[list], <<list>>))
    BY <2>2, FirstHarmless, DeclareAllHarmless DEF Lists
  <2> DEFINE f == DeclareAll(decls_.functions, <<"functions">>)
             c == DeclareAll(decls_.constants, <<"constants">>)
             v == DeclareAll(decls_.variables, <<"variables">>)
  <2>4. Harmless(f) /\ Harmless(c) /\ Harmless(v)
    BY <2>3
  <2>5. agenda' = f \o c \o v \o First("variables") \o First("constants") \o First("functions")
    BY <1>1 DEF ResolveLocalVariable
  <2> HIDE DEF f, c, v
  <2>6. Harmless(f \o c \o v)
    BY <2>4, HarmlessConcat
  <2>7. Harmless(f \o c \o v \o First("variables") \o First("constants") \o First("functions"))
    BY <2>3, <2>6, HarmlessConcat
  <2> QED
    BY <2>1, <2>5, <2>7, BeginOK
<1>2. CASE ResolveBlock
  <2>1. Now("visit") /\ Top.node[1] = "Block" /\ PushScope /\ Continue
    BY <1>2 DEF ResolveBlock, Visiting
  <2>2. agenda # <<>> /\ agenda[1].op # "pop" /\ Top.node \in Nodes
    BY <2>1, FirstItem
  <2> DEFINE items == DeclareAll(Top.node[2], Top.path) \o VisitAll(Top)
  <2>3. Harmless(items)
    <3>1. Top.node[2] \in Seq(Nodes)
      BY <2>1, <2>2, TreesAssumption
    <3> QED
      BY <2>2, <3>1, DeclareAllHarmless, VisitAllHarmless, HarmlessConcat
  <2>4. Then(items \o <<Pop(currentScope_)>>)
    BY <1>2 DEF ResolveBlock
  <2> HIDE DEF items
  <2> QED
    BY <2>1, <2>2, <2>3, <2>4, PushOK
<1>3. CASE ResolveFunctionDecl
  <2>1. Now("visit") /\ Top.node[1] = "Function" /\ PushScope /\ Continue
    BY <1>3 DEF ResolveFunctionDecl, Visiting
  <2>2. agenda # <<>> /\ agenda[1].op # "pop" /\ Top.node \in Nodes
    BY <2>1, FirstItem
  <2> DEFINE body == Visit(Top.node[6], Append(Top.path, Len(Top.node[5]) + 1), FALSE)
             items == DeclareAll(Top.node[5], Top.path) \o <<body>>
  <2>3. Harmless(items)
    <3>1. Top.node[5] \in Seq(Nodes) /\ Top.node[6] \in Nodes
      <4>1. Top.node[5] \in Seq(Nodes) /\ <<Top.node[6]>> \in Seq(Nodes)
        BY <2>1, <2>2, TreesAssumption
      <4>2. <<Top.node[6]>>[1] \in Nodes
        BY <4>1
      <4> QED
        BY <4>1, <4>2
    <3>2. body.op = "visit" /\ body.node \in Nodes
      BY <3>1 DEF Visit
    <3> HIDE DEF body
    <3>3. Harmless(<<body>>)
      BY <3>2, OneHarmless
    <3> QED
      BY <3>1, <3>3, DeclareAllHarmless, HarmlessConcat
  <2>4. Then(items \o <<Pop(currentScope_)>>)
    BY <1>3 DEF ResolveFunctionDecl
  <2> HIDE DEF items
  <2> QED
    BY <2>1, <2>2, <2>3, <2>4, PushOK
<1>4. CASE ResolveVariable
  <2>1. Now("visit") /\ UNCHANGED <<scopes_, currentScope_>>
    BY <1>4 DEF ResolveVariable, Visiting
  <2>2. (Refuse /\ Stop) \/ (Then(<<>>) /\ Continue)
    BY <1>4 DEF ResolveVariable
  <2> QED
    BY <2>1, <2>2, EndOK, VisitOK, EmptyHarmless
<1> QED
  BY <1>1, <1>2, <1>3, <1>4

\* Sema does not touch the scopes.
LEMMA SemaOK ==
  ASSUME IInv, SemaCheck \/ CheckAssignment \/ CheckInvalidFunCall \/ CheckInvalidArrRef PROVE IInv'
<1>1. CASE SemaCheck
  <2>1. Begin("sema") /\ UNCHANGED <<scopes_, currentScope_>>
    BY <1>1 DEF SemaCheck
  <2>2. \A list \in Lists : decls_[list] \in Seq(Nodes)
    BY <2>1 DEF Begin, IInv, DeclsOK
  <2>3. Harmless(VisitList("constants") \o VisitList("variables") \o VisitList("records") \o VisitList("functions"))
    BY <2>2, VisitListHarmless, HarmlessConcat DEF Lists
  <2> QED
    BY <1>1, <2>1, <2>3, BeginOK DEF SemaCheck
<1>2. CASE CheckAssignment
  <2>1. /\ Now("visit") /\ UNCHANGED <<scopes_, currentScope_>>
        /\ Examine(IsAssignable(IF Top.node[1] = "Assign" THEN Top.node[2] ELSE Top.node[3]))
    BY <1>2 DEF CheckAssignment, Visiting
  <2> QED
    BY <2>1, ExamineOK
<1>3. CASE CheckInvalidFunCall
  <2>1. Now("visit") /\ UNCHANGED <<scopes_, currentScope_>> /\ Examine(Top.node[2][1] = "Variable")
    BY <1>3 DEF CheckInvalidFunCall, Visiting
  <2> QED
    BY <2>1, ExamineOK
<1>4. CASE CheckInvalidArrRef
  <2>1. /\ Now("visit") /\ UNCHANGED <<scopes_, currentScope_>>
        /\ (Crash /\ Stop) \/ \E ok : Examine(ok)
    BY <1>4 DEF CheckInvalidArrRef, Visiting
  <2> QED
    BY <2>1, EndOK, ExamineOK
<1> QED
  BY <1>1, <1>2, <1>3, <1>4

\* TypeChecker does not touch the scopes.
LEMMA CheckOK == ASSUME IInv, TypeCheck \/ CheckInvalidVariable PROVE IInv'
<1>1. CASE TypeCheck
  <2>1. Begin("check") /\ UNCHANGED <<scopes_, currentScope_>>
    BY <1>1 DEF TypeCheck
  <2>2. \A list \in Lists : decls_[list] \in Seq(Nodes)
    BY <2>1 DEF Begin, IInv, DeclsOK
  <2>3. Harmless(VisitList("variables") \o VisitList("functions"))
    BY <2>2, VisitListHarmless, HarmlessConcat DEF Lists
  <2> QED
    BY <1>1, <2>1, <2>3, BeginOK DEF TypeCheck
<1>2. CASE CheckInvalidVariable
  <2>1. /\ Now("visit") /\ UNCHANGED <<scopes_, currentScope_>>
        /\ (Crash /\ Stop) \/ Examine(CheckInvalidVariableType(TypeNodeOf(Top.node)))
    BY <1>2 DEF CheckInvalidVariable, Visiting
  <2> QED
    BY <2>1, EndOK, ExamineOK
<1> QED
  BY <1>1, <1>2

\* The printer does not touch the scopes.
LEMMA PrintOK == ASSUME IInv, PrintAST \/ PrintNode \/ PrintFunctionDecl PROVE IInv'
<1>1. CASE PrintAST
  <2>1. Begin("print") /\ UNCHANGED <<scopes_, currentScope_>>
    BY <1>1 DEF PrintAST
  <2>2. \A list \in Lists : decls_[list] \in Seq(Nodes)
    BY <2>1 DEF Begin, IInv, DeclsOK
  <2>3. Harmless(VisitList("functions") \o VisitList("constants") \o VisitList("variables"))
    BY <2>2, VisitListHarmless, HarmlessConcat DEF Lists
  <2>4. Harmless(VisitList("records")) /\ Harmless(VisitList("typedefs")) /\ Harmless(VisitList("imports"))
    BY <2>2, VisitListHarmless DEF Lists
  <2>5. Harmless(agenda')
    BY <1>1, <2>3, <2>4, HarmlessConcat DEF PrintAST
  <2> QED
    BY <2>1, <2>5, BeginOK
<1>2. CASE PrintNode
  <2>1. Now("visit") /\ UNCHANGED <<scopes_, currentScope_>> /\ Then(VisitAll(Top)) /\ Continue
    BY <1>2 DEF PrintNode
  <2> QED
    BY <2>1, FirstItem, VisitAllHarmless, VisitOK
<1>3. CASE PrintFunctionDecl
  BY <1>3, EndOK DEF PrintFunctionDecl
<1> QED
  BY <1>1, <1>2, <1>3

\* A node that a visitor does not treat itself.
LEMMA VisitChildrenOK == ASSUME IInv, VisitChildren PROVE IInv'
<1>1. Now("visit") /\ UNCHANGED <<scopes_, currentScope_>> /\ Then(VisitAll(Top)) /\ Continue
  BY DEF VisitChildren
<1> QED
  BY <1>1, FirstItem, VisitAllHarmless, VisitOK

\* A phase that has nothing left to do ends in the scope it began in.
LEMMA EndOfPassOK == ASSUME IInv, EndOfPass PROVE IInv'
<1>1. UNCHANGED <<agenda, scopes_, currentScope_, decls_>> /\ agenda = <<>>
  BY DEF EndOfPass, Return, Answer, passVars
<1>2. status # "stopped"
  BY DEF EndOfPass, Overridden
<1> QED
  BY <1>1, <1>2, ElsewhereOK

\* The steps of TypeResolver and of the search for recursive classes.
LEMMA TypesOK == ASSUME IInv, TypesNext, UNCHANGED passVars PROVE IInv'
<1>1. UNCHANGED <<agenda, scopes_, currentScope_, decls_>>
  BY DEF TypesNext, passVars, CompleteFunctionType, FunctionWithoutClass, SkipRecordType, CompleteRecordType,
     EndOfRecords, CheckSemanticError, NextType, NextBehindLast, CheckMember, RecursionFound,
     CheckRecursiveTypeDef, StackOverflow, NotFound, Begin, Return, Refuse, Crash, Answer, Continue
<1>2. status \in {"idle", "complete", "recursion"}
  BY DEF TypesNext, CompleteFunctionType, FunctionWithoutClass, SkipRecordType, CompleteRecordType,
     EndOfRecords, CheckSemanticError, NextType, NextBehindLast, CheckMember, RecursionFound,
     CheckRecursiveTypeDef, StackOverflow, NotFound, Begin, Completing, Searching, Checking
<1>3. agenda = <<>>
  BY <1>2 DEF IInv, Busy
<1> QED
  BY <1>1, <1>2, <1>3, ElsewhereOK

\* Phases of a refused program do not come to the scopes.
LEMMA NoDeclsOK == ASSUME IInv, NoDecls, UNCHANGED passVars PROVE IInv'
<1>1. UNCHANGED <<agenda, scopes_, currentScope_, decls_>> /\ status = "idle"
  BY DEF NoDecls, Answer, passVars
<1>2. agenda = <<>>
  BY <1>1 DEF IInv, Busy
<1> QED
  BY <1>1, <1>2, ElsewhereOK

\* Every step of every phase preserves the invariant.
LEMMA StepOK == ASSUME IInv, [Next]_vars PROVE IInv'
<1>1. CASE PassesNext
  BY <1>1, ResolveOK, AddNamedDeclOK, LeaveOK, SemaOK, CheckOK, PrintOK, VisitChildrenOK, EndOfPassOK DEF PassesNext
<1>2. CASE TypesNext /\ UNCHANGED passVars
  BY <1>2, TypesOK
<1>3. CASE NoDecls /\ UNCHANGED <<passVars, typeVars>>
  BY <1>3, NoDeclsOK
<1>4. CASE UNCHANGED vars
  BY <1>4, ElsewhereOK DEF vars, passVars
<1> QED
  BY <1>1, <1>2, <1>3, <1>4 DEF Next, Terminated

-----------------------------------------------------------------------------
(* Least numbers                                                            *)

\* A set of numbers has a least one.
LEMMA Least ==
  ASSUME NEW S \in SUBSET Nat, S # {}
  PROVE  \E x \in S : \A y \in S : x <= y
<1> DEFINE R == OpToRel(<, Nat)
<1>1. \A x, y \in Nat : y < x => <<y, x>> \in R
  BY DEF OpToRel
<1> HIDE DEF R
<1>2. IsWellFoundedOn(R, Nat)
  BY NatLessThanWellFounded DEF R
<1>3. PICK x \in S : \A y \in S : ~(<<y, x>> \in R)
  BY <1>2, WFMin
<1>4. ASSUME NEW y \in S PROVE x <= y
  <2>1. x \in Nat /\ y \in Nat /\ ~(y < x)
    BY <1>1, <1>3
  <2> QED BY <2>1
<1> QED BY <1>4

-----------------------------------------------------------------------------
(* Trees                                                                    *)

Levels(n, a) == CHOOSE f : f = [h \in 0..n |-> IF h = 0 THEN a ELSE Kids(f[h - 1])]

\* A tree has its levels.
LEMMA TreeIs ==
  ASSUME NEW node, NEW path
  PROVE  Tree(node, path) =
           UNION {Levels(Height[node], {[node |-> node, path |-> path]})[h] : h \in 0..Height[node]}
BY DEF Tree, Levels

\* There are levels, as many as one wants.
LEMMA LevelsAre ==
  ASSUME NEW n \in Nat, NEW a
  PROVE  Levels(n, a) = [h \in 0..n |-> IF h = 0 THEN a ELSE Kids(Levels(n, a)[h - 1])]
<1> DEFINE Is(m, f) == f = [h \in 0..m |-> IF h = 0 THEN a ELSE Kids(f[h - 1])]
           S == {m \in Nat : ~ \E f : Is(m, f)}
<1>1. S = {}
  <2> SUFFICES ASSUME S # {} PROVE FALSE
    OBVIOUS
  <2>1. S \in SUBSET Nat
    OBVIOUS
  <2>2. PICK m \in S : \A y \in S : m <= y
    <3> HIDE DEF S
    <3> QED BY <2>1, Least
  <2>3. m \in Nat /\ (~ \E f : Is(m, f)) /\ \A y \in Nat : y < m => \E f : Is(y, f)
    <3>1. m \in Nat /\ ~ \E f : Is(m, f)
      BY <2>2
    <3>2. \A y \in Nat : y < m => y \notin S
      <4>1. \A y \in S : m <= y /\ y \in Nat
        BY <2>2
      <4> HIDE DEF S
      <4> QED BY <3>1, <4>1
    <3> QED BY <3>1, <3>2
  <2>4. CASE m = 0
    <3>1. Is(0, [h \in 0..0 |-> a])
      OBVIOUS
    <3> QED BY <2>3, <2>4, <3>1
  <2>5. CASE m # 0
    <3>1. m - 1 \in Nat /\ m - 1 < m
      BY <2>3, <2>5
    <3>2. PICK f : Is(m - 1, f)
      BY <2>3, <3>1
    <3> DEFINE g == [h \in 0..m |-> IF h = m THEN Kids(f[m - 1]) ELSE f[h]]
    <3>3. \A h \in 0..m : h = m \/ h \in 0..m - 1
      BY <3>1
    <3>4. \A h \in 0..m - 1 : h \in 0..m /\ h # m
      BY <3>1
    <3>5. \A h \in 0..m - 1 : f[h] = IF h = 0 THEN a ELSE Kids(f[h - 1])
      BY <3>2, Zenon
    <3>6. ASSUME NEW h \in 0..m PROVE g[h] = IF h = 0 THEN a ELSE Kids(g[h - 1])
      <4>1. CASE h = m
        <5>1. m - 1 \in 0..m /\ m - 1 # m
          BY <3>1
        <5>2. g[m - 1] = f[m - 1] /\ g[h] = Kids(f[m - 1])
          BY <4>1, <5>1
        <5> QED BY <2>5, <4>1, <5>2
      <4>2. CASE h \in 0..m - 1 /\ h # 0
        <5>1. h - 1 \in 0..m - 1
          BY <3>1, <4>2
        <5>2. g[h] = f[h] /\ g[h - 1] = f[h - 1]
          BY <3>4, <4>2, <5>1
        <5> QED BY <3>5, <4>2, <5>2
      <4>3. CASE h \in 0..m - 1 /\ h = 0
        <5>1. g[h] = f[h]
          BY <3>4, <4>3
        <5> QED BY <3>5, <4>3, <5>1
      <4> QED BY <3>3, <4>1, <4>2, <4>3
    <3>7. g = [h \in 0..m |-> g[h]]
      OBVIOUS
    <3> HIDE DEF g
    <3>8. Is(m, g)
      BY <3>6, <3>7
    <3> QED BY <2>3, <3>8
  <2> QED BY <2>4, <2>5
<1>2. \E f : Is(n, f)
  <2>1. n \notin S
    BY <1>1, Zenon
  <2> QED BY <2>1
<1>3. Levels(n, a) = CHOOSE f : Is(n, f)
  BY Zenon DEF Levels
<1> HIDE DEF Is
<1>4. Is(n, Levels(n, a))
  BY <1>2, <1>3, Zenon
<1> QED BY <1>4, Zenon DEF Is

\* What is below some places.
LEMMA KidsAre ==
  ASSUME NEW found
  PROVE  /\ \A x \in found : \A k \in DOMAIN Children(x.node) : Kid(x, k) \in Kids(found)
         /\ \A y \in Kids(found) : \E x \in found : \E k \in DOMAIN Children(x.node) : y = Kid(x, k)
BY DEF Kids

\* A tree has its root, and with a node its children.
LEMMA TreeClosed ==
  ASSUME NEW node \in Nodes, NEW path
  PROVE  /\ [node |-> node, path |-> path] \in Tree(node, path)
         /\ \A x \in Tree(node, path) :
              /\ x.node \in Nodes
              /\ \A k \in DOMAIN Children(x.node) : Kid(x, k) \in Tree(node, path)
<1> DEFINE H == Height[node]
           root == [node |-> node, path |-> path]
           L == Levels(H, {root})
<1>1. H \in Nat
  BY HeightAssumption
<1>2. Tree(node, path) = UNION {L[h] : h \in 0..H}
  BY TreeIs
<1>3. L = [h \in 0..H |-> IF h = 0 THEN {root} ELSE Kids(L[h - 1])]
  <2> HIDE DEF H, root
  <2> QED BY <1>1, LevelsAre
<1>4. root.node = node
  OBVIOUS
<1> HIDE DEF L, root
<1>5. L[0] = {root} /\ \A h \in 0..H : h # 0 => L[h] = Kids(L[h - 1])
  <2>1. 0 \in 0..H
    BY <1>1
  <2> QED BY <1>3, <2>1
<1> DEFINE Low(h) == \A x \in L[h] : x.node \in Nodes /\ Height[x.node] <= H - h
           S == {h \in 0..H : ~Low(h)}
<1>6. S = {}
  <2> SUFFICES ASSUME S # {} PROVE FALSE
    OBVIOUS
  <2>1. S \in SUBSET Nat
    OBVIOUS
  <2>2. PICK m \in S : \A y \in S : m <= y
    <3> HIDE DEF S
    <3> QED BY <2>1, Least
  <2>3. m \in 0..H /\ ~Low(m)
    OBVIOUS
  <2>4. CASE m = 0
    <3>1. Low(0)
      BY <1>1, <1>4, <1>5
    <3> QED BY <2>3, <2>4, <3>1
  <2>5. CASE m # 0
    <3>1. m - 1 \in 0..H /\ ~(m <= m - 1)
      BY <1>1, <2>3, <2>5
    <3>2. Low(m - 1)
      <4>1. m - 1 \notin S
        BY <2>2, <3>1
      <4> QED BY <3>1, <4>1
    <3>3. ASSUME NEW y \in L[m] PROVE y.node \in Nodes /\ Height[y.node] <= H - m
      <4>1. y \in Kids(L[m - 1])
        BY <1>5, <2>3, <2>5
      <4>2. PICK x \in L[m - 1] : \E k \in DOMAIN Children(x.node) : y = Kid(x, k)
        BY <4>1, KidsAre, Zenon
      <4>3. PICK k \in DOMAIN Children(x.node) : y = Kid(x, k)
        BY <4>2
      <4>4. x.node \in Nodes /\ Height[x.node] <= H - (m - 1)
        BY <3>2
      <4>5. y.node = Children(x.node)[k] /\ y.node \in Nodes
        <5>1. y.node = Children(x.node)[k]
          BY <4>3 DEF Kid
        <5>2. Children(x.node) \in Seq(Nodes)
          BY <4>4, TreesAssumption
        <5> QED BY <5>1, <5>2
      <4>6. Height[y.node] < Height[x.node] /\ Height[y.node] \in Nat /\ Height[x.node] \in Nat
        BY <4>4, <4>5, HeightAssumption
      <4> QED BY <1>1, <2>3, <4>4, <4>5, <4>6
    <3>4. Low(m)
      BY <3>3
    <3> QED BY <2>3, <3>4
  <2> QED BY <2>4, <2>5
<1>7. \A h \in 0..H : Low(h)
  BY <1>6
<1> HIDE DEF S
<1>8. root \in Tree(node, path)
  BY <1>1, <1>2, <1>5
<1>9. ASSUME NEW x \in Tree(node, path)
      PROVE  x.node \in Nodes /\ \A k \in DOMAIN Children(x.node) : Kid(x, k) \in Tree(node, path)
  <2>1. PICK h \in 0..H : x \in L[h]
    BY <1>2
  <2>2. x.node \in Nodes /\ Height[x.node] <= H - h
    BY <1>7, <2>1
  <2>3. ASSUME NEW k \in DOMAIN Children(x.node) PROVE Kid(x, k) \in Tree(node, path)
    <3>1. Children(x.node)[k] \in Nodes
      <4>1. Children(x.node) \in Seq(Nodes)
        BY <2>2, TreesAssumption
      <4> QED BY <4>1
    <3>2. Height[Children(x.node)[k]] < Height[x.node] /\ Height[Children(x.node)[k]] \in Nat /\ Height[x.node] \in Nat
      BY <2>2, <3>1, HeightAssumption
    <3>3. h + 1 \in 0..H /\ h + 1 # 0 /\ (h + 1) - 1 = h
      BY <1>1, <2>2, <3>2
    <3>4. Kid(x, k) \in Kids(L[h])
      BY <2>1, KidsAre, Zenon
    <3>5. Kid(x, k) \in L[h + 1]
      BY <1>5, <3>3, <3>4
    <3> QED BY <1>2, <3>3, <3>5
  <2> QED BY <2>2, <2>3
<1> QED BY <1>8, <1>9 DEF root

\* A tree is in every set that has its root, and with a place those below.
LEMMA TreeLeast ==
  ASSUME NEW node \in Nodes, NEW path, NEW S, [node |-> node, path |-> path] \in S,
         \A x \in S : x \in Tree(node, path) => \A k \in DOMAIN Children(x.node) : Kid(x, k) \in S
  PROVE  Tree(node, path) \subseteq S
<1> DEFINE H == Height[node]
           root == [node |-> node, path |-> path]
           L == Levels(H, {root})
<1>1. H \in Nat
  BY HeightAssumption
<1>2. Tree(node, path) = UNION {L[h] : h \in 0..H}
  BY TreeIs
<1>3. L = [h \in 0..H |-> IF h = 0 THEN {root} ELSE Kids(L[h - 1])]
  <2> HIDE DEF H, root
  <2> QED BY <1>1, LevelsAre
<1>4. root \in S
  OBVIOUS
<1> HIDE DEF L, root
<1>5. L[0] = {root} /\ \A h \in 0..H : h # 0 => L[h] = Kids(L[h - 1])
  <2>1. 0 \in 0..H
    BY <1>1
  <2> QED BY <1>3, <2>1
<1> DEFINE Wrong == {h \in 0..H : ~(L[h] \subseteq S)}
<1>6. Wrong = {}
  <2> SUFFICES ASSUME Wrong # {} PROVE FALSE
    OBVIOUS
  <2>1. Wrong \in SUBSET Nat
    OBVIOUS
  <2>2. PICK m \in Wrong : \A y \in Wrong : m <= y
    <3> HIDE DEF Wrong
    <3> QED BY <2>1, Least
  <2>3. m \in 0..H /\ ~(L[m] \subseteq S)
    OBVIOUS
  <2>4. CASE m = 0
    BY <1>4, <1>5, <2>3, <2>4
  <2>5. CASE m # 0
    <3>1. m - 1 \in 0..H /\ ~(m <= m - 1)
      BY <1>1, <2>3, <2>5
    <3>2. L[m - 1] \subseteq S
      <4>1. m - 1 \notin Wrong
        BY <2>2, <3>1
      <4> QED BY <3>1, <4>1
    <3>3. ASSUME NEW y \in L[m] PROVE y \in S
      <4>1. y \in Kids(L[m - 1])
        BY <1>5, <2>3, <2>5
      <4>2. PICK x \in L[m - 1] : \E k \in DOMAIN Children(x.node) : y = Kid(x, k)
        BY <4>1, KidsAre, Zenon
      <4>3. x \in S /\ x \in Tree(node, path)
        BY <1>2, <3>1, <3>2
      <4> QED BY <4>2, <4>3
    <3> QED BY <2>3, <3>3
  <2> QED BY <2>4, <2>5
<1>7. \A h \in 0..H : L[h] \subseteq S
  BY <1>6
<1> QED BY <1>2, <1>7

\* A tree is its root and the trees of its children.
LEMMA TreeUnfolds ==
  ASSUME NEW node \in Nodes, NEW path
  PROVE  Tree(node, path) =
           {[node |-> node, path |-> path]}
             \cup UNION {Tree(Children(node)[k], Append(path, k)) : k \in DOMAIN Children(node)}
<1> DEFINE root == [node |-> node, path |-> path]
           Sub(k) == Tree(Children(node)[k], Append(path, k))
           All == {root} \cup UNION {Sub(k) : k \in DOMAIN Children(node)}
<1>1. root.node = node /\ \A k \in DOMAIN Children(node) : Kid(root, k) = [node |-> Children(node)[k], path |-> Append(path, k)]
  BY DEF Kid
<1>2. \A k \in DOMAIN Children(node) : Children(node)[k] \in Nodes
  <2>1. Children(node) \in Seq(Nodes)
    BY TreesAssumption
  <2> QED BY <2>1
<1>3. root \in Tree(node, path) /\ \A x \in Tree(node, path) : \A k \in DOMAIN Children(x.node) : Kid(x, k) \in Tree(node, path)
  BY TreeClosed
<1>4. \A k \in DOMAIN Children(node) : Kid(root, k) \in Sub(k) /\ \A x \in Sub(k) : \A j \in DOMAIN Children(x.node) : Kid(x, j) \in Sub(k)
  BY <1>1, <1>2, TreeClosed
<1>5. ASSUME NEW k \in DOMAIN Children(node) PROVE Sub(k) \subseteq Tree(node, path)
  <2>1. Kid(root, k) \in Tree(node, path)
    BY <1>1, <1>3
  <2>2. [node |-> Children(node)[k], path |-> Append(path, k)] \in Tree(node, path)
    BY <1>1, <2>1
  <2> QED BY <1>2, <1>3, <2>2, TreeLeast
<1>6. ASSUME NEW x \in All, NEW j \in DOMAIN Children(x.node) PROVE Kid(x, j) \in All
  <2>1. CASE x = root
    BY <1>1, <1>4, <1>6, <2>1
  <2>2. ASSUME NEW k \in DOMAIN Children(node), x \in Sub(k) PROVE Kid(x, j) \in All
    <3>1. Kid(x, j) \in Sub(k)
      BY <1>4, <1>6, <2>2
    <3> QED BY <3>1
  <2> QED BY <2>1, <2>2
<1>7. root \in All
  OBVIOUS
<1>8. Tree(node, path) \subseteq All
  <2> HIDE DEF All
  <2> QED BY <1>6, <1>7, TreeLeast
<1> HIDE DEF Sub
<1>9. All \subseteq Tree(node, path)
  BY <1>3, <1>5
<1>10. Tree(node, path) = All
  BY <1>8, <1>9, Zenon
<1> QED BY <1>10 DEF Sub

-----------------------------------------------------------------------------
(* Which phase runs, and what has been answered                             *)

PassPhases == {"resolve", "sema", "check", "print"}
TypePhases == {"complete", "recursion"}

Working(phases) == status \in phases /\ (Continue \/ Return \/ Refuse \/ Crash)

\* A step of a pass begins it, goes on with it or ends it.
LEMMA PassKinds ==
  ASSUME IInv, PassesNext PROVE (\E phase \in PassPhases : Begin(phase)) \/ Working(PassPhases)
<1>1. ASSUME NEW op, Now(op) PROVE status \in PassPhases
  BY <1>1 DEF Now, IInv, Busy, PassPhases
<1>2. CASE ResolveLocalVariable \/ SemaCheck \/ TypeCheck \/ PrintAST
  BY <1>2 DEF ResolveLocalVariable, SemaCheck, TypeCheck, PrintAST, PassPhases
<1>3. CASE AddNamedDecl
  BY <1>1, <1>3 DEF AddNamedDecl, Working
<1>4. CASE ResolveBlock \/ ResolveFunctionDecl \/ LeaveScope
  BY <1>1, <1>4 DEF ResolveBlock, ResolveFunctionDecl, LeaveScope, Visiting, Working
<1>5. CASE ResolveVariable
  BY <1>1, <1>5 DEF ResolveVariable, Visiting, Working
<1>6. CASE CheckAssignment \/ CheckInvalidFunCall
  BY <1>1, <1>6 DEF CheckAssignment, CheckInvalidFunCall, Visiting, Working, Examine
<1>7. CASE CheckInvalidArrRef
  BY <1>1, <1>7 DEF CheckInvalidArrRef, Visiting, Working, Examine
<1>8. CASE CheckInvalidVariable
  BY <1>1, <1>8 DEF CheckInvalidVariable, Visiting, Working, Examine
<1>9. CASE PrintNode \/ PrintFunctionDecl \/ VisitChildren
  BY <1>1, <1>9 DEF PrintNode, PrintFunctionDecl, VisitChildren, Visiting, Working
<1>10. CASE EndOfPass
  BY <1>10 DEF EndOfPass, Overridden, Working, PassPhases
<1> QED BY <1>2, <1>3, <1>4, <1>5, <1>6, <1>7, <1>8, <1>9, <1>10 DEF PassesNext

\* So does one of TypeResolver or of the search for recursive classes.
LEMMA TypeKinds == ASSUME TypesNext PROVE (\E phase \in TypePhases : Begin(phase)) \/ Working(TypePhases)
<1>1. CASE CompleteFunctionType \/ CheckSemanticError
  BY <1>1 DEF CompleteFunctionType, CheckSemanticError, TypePhases
<1>2. CASE FunctionWithoutClass \/ SkipRecordType \/ EndOfRecords
  BY <1>2 DEF FunctionWithoutClass, SkipRecordType, EndOfRecords, Completing, Working, TypePhases
<1>3. CASE CompleteRecordType
  BY <1>3 DEF CompleteRecordType, Completing, Working, TypePhases
<1>4. CASE NextType \/ NextBehindLast \/ CheckMember
  BY <1>4 DEF NextType, NextBehindLast, CheckMember, Searching, Working, TypePhases
<1>5. CASE RecursionFound \/ CheckRecursiveTypeDef \/ StackOverflow \/ NotFound
  BY <1>5 DEF RecursionFound, CheckRecursiveTypeDef, StackOverflow, NotFound, Checking, Working, TypePhases
<1> QED BY <1>1, <1>2, <1>3, <1>4, <1>5 DEF TypesNext

\* What any step does to the phases.
LEMMA Kinds ==
  ASSUME IInv, [Next]_vars
  PROVE  (\E phase \in Phases : Begin(phase)) \/ Working(Phases) \/ NoDecls \/ Continue
<1>1. CASE PassesNext
  BY <1>1, PassKinds DEF Working, PassPhases, Phases
<1>2. CASE TypesNext
  BY <1>2, TypeKinds DEF Working, TypePhases, Phases
<1>3. CASE NoDecls
  BY <1>3
<1>4. CASE UNCHANGED vars
  BY <1>4 DEF vars, Continue
<1> QED BY <1>1, <1>2, <1>3, <1>4 DEF Next, Terminated

UnitOK == \E u \in Units : decls_ = u.decls /\ types_ = u.types

AnswersOK ==
  /\ status \in Phases \cup {"idle", "stopped"} /\ DOMAIN answers \subseteq Phases
  /\ status \notin DOMAIN answers
  /\ decls_ = NoDeclarations =>
       /\ status \in {"idle", "stopped", "recursion"}
       /\ status # "stopped" => DOMAIN answers \subseteq {"recursion", "print"}

\* An answer joins the others.
LEMMA AnswerIs ==
  ASSUME NEW phase, NEW next, NEW how, Answer(phase, next, how), phase \notin DOMAIN answers
  PROVE  /\ DOMAIN answers' = DOMAIN answers \cup {phase} /\ answers'[phase] = how
         /\ \A p \in DOMAIN answers : answers'[p] = answers[p]
         /\ status' = next /\ UNCHANGED <<decls_, types_>>
BY DEF Answer, Put

\* The phases of a refused program, and the ends of those that run.
LEMMA EndsAre ==
  ASSUME AnswersOK, Working(Phases) \/ NoDecls, ~Continue
  PROVE  \E phase \in Phases : \E next \in {"idle", "stopped"} : \E how \in {"true", "false", "assert", "crash"} :
           /\ phase \notin DOMAIN answers /\ Answer(phase, next, how)
           /\ status = phase \/ (status = "idle" /\ decls_ = NoDeclarations)
<1>1. CASE Working(Phases)
  <2>1. status \in Phases /\ status \notin DOMAIN answers
    BY <1>1 DEF Working, AnswersOK
  <2>2. Return \/ Refuse \/ Crash
    BY <1>1 DEF Working
  <2>3. \/ Answer(status, "idle", "true") \/ Answer(status, "stopped", "assert") \/ Answer(status, "stopped", "crash")
    BY <2>2 DEF Return, Refuse, Crash
  <2> QED BY <2>1, <2>3
<1>2. CASE NoDecls
  <2>1. status = "idle" /\ decls_ = NoDeclarations
    BY <1>2 DEF NoDecls
  <2>2. CASE "print" \notin DOMAIN answers /\ Answer("print", "idle", "false")
    <3>1. "print" \in Phases
      BY DEF Phases
    <3> QED BY <2>1, <2>2, <3>1
  <2>3. ASSUME NEW phase \in Phases \ {"recursion", "print"}, Answer(phase, "stopped", "crash")
        PROVE  phase \notin DOMAIN answers
    BY <2>1, <2>3 DEF AnswersOK
  <2> QED BY <1>2, <2>1, <2>2, <2>3 DEF NoDecls
<1> QED BY <1>1, <1>2

\* One phase at a time, and each once.
LEMMA ControlOK ==
  ASSUME IInv, UnitOK, AnswersOK, [Next]_vars
  PROVE  UnitOK' /\ AnswersOK' /\ UNCHANGED <<decls_, types_>>
<1> USE DEF Phases
<1>1. CASE \E phase \in Phases : Begin(phase)
  BY <1>1 DEF Begin, AnswersOK, UnitOK
<1>2. CASE Continue
  BY <1>2 DEF Continue, AnswersOK, UnitOK
<1>3. CASE (Working(Phases) \/ NoDecls) /\ ~Continue
  <2>1. PICK phase \in Phases, next \in {"idle", "stopped"}, how \in {"true", "false", "assert", "crash"} :
          /\ phase \notin DOMAIN answers /\ Answer(phase, next, how)
          /\ status = phase \/ (status = "idle" /\ decls_ = NoDeclarations)
    BY <1>3, EndsAre
  <2>2. DOMAIN answers' = DOMAIN answers \cup {phase} /\ status' = next /\ UNCHANGED <<decls_, types_>>
    BY <2>1, AnswerIs
  <2>3. UnitOK'
    BY <2>2 DEF UnitOK
  <2>4. decls_ = NoDeclarations /\ next = "idle" => phase \in {"recursion", "print"}
    <3>1. CASE status = phase
      BY <3>1 DEF AnswersOK
    <3>2. CASE status = "idle" /\ decls_ = NoDeclarations
      <4>1. NoDecls
        BY <1>3, <3>2 DEF Working
      <4>2. Answer("print", "idle", "false") \/ status' = "stopped"
        BY <4>1 DEF NoDecls, Answer
      <4>3. CASE Answer("print", "idle", "false")
        <5>1. answers' = Put(answers, "print", "false") /\ DOMAIN answers' = DOMAIN answers \cup {"print"}
          BY <4>3 DEF Answer, Put
        <5> QED BY <2>1, <2>2, <5>1
      <4>4. CASE status' = "stopped"
        BY <2>2, <4>4
      <4> QED BY <4>2, <4>3, <4>4
    <3> QED BY <2>1, <3>1, <3>2
  <2>5. decls_ = NoDeclarations /\ status # "stopped" => DOMAIN answers \subseteq {"recursion", "print"}
    BY DEF AnswersOK
  <2>6. status # "stopped"
    BY <2>1
  <2> QED BY <2>1, <2>2, <2>3, <2>4, <2>5, <2>6 DEF AnswersOK
<1> QED BY <1>1, <1>2, <1>3, Kinds

\* A phase answers once, and only when it runs, or for want of Declarations.
LEMMA AnswerKept ==
  ASSUME IInv, AnswersOK, [Next]_vars, NEW phase \in Phases
  PROVE  /\ phase \in DOMAIN answers => phase \in DOMAIN answers' /\ answers'[phase] = answers[phase]
         /\ phase \in DOMAIN answers' /\ phase \notin DOMAIN answers => status = phase \/ decls_ = NoDeclarations
         /\ status' = phase => status = phase \/ Begin(phase)
<1>1. CASE \E p \in Phases : Begin(p)
  BY <1>1 DEF Begin
<1>2. CASE Continue
  BY <1>2 DEF Continue
<1>3. CASE (Working(Phases) \/ NoDecls) /\ ~Continue
  <2>1. PICK p \in Phases, next \in {"idle", "stopped"}, how \in {"true", "false", "assert", "crash"} :
          /\ p \notin DOMAIN answers /\ Answer(p, next, how)
          /\ status = p \/ (status = "idle" /\ decls_ = NoDeclarations)
    BY <1>3, EndsAre
  <2>2. /\ DOMAIN answers' = DOMAIN answers \cup {p} /\ status' = next
        /\ \A q \in DOMAIN answers : answers'[q] = answers[q]
    BY <2>1, AnswerIs
  <2>3. status' # phase
    BY <2>2 DEF Phases
  <2> QED BY <2>1, <2>2, <2>3
<1> QED BY <1>1, <1>2, <1>3, Kinds

\* Nothing but a step of TypeResolver or of the search looks at the types.
LEMMA TypesElsewhere == ASSUME [Next]_vars, ~TypesNext PROVE UNCHANGED typeVars
BY DEF Next, Terminated, vars

-----------------------------------------------------------------------------
(* The search for recursive classes                                         *)

SearchOK ==
  /\ depth \in 0..MaxDepth /\ (depth = 0 => target = Null)
  /\ at \in Nat \ {0}

\* The search is as deep as it has activations.
LEMMA SearchKept == ASSUME SearchOK, [Next]_vars PROVE SearchOK'
<1> USE DEF SearchOK
<1>1. MaxDepth \in Nat \ {0}
  BY MaxDepthAssumption
<1>2. CASE UNCHANGED <<at, target, depth>>
  BY <1>2
<1>3. CASE NextType
  BY <1>3 DEF NextType
<1>4. CASE CheckMember
  BY <1>1, <1>4 DEF CheckMember
<1>5. CASE CheckRecursiveTypeDef
  BY <1>1, <1>5 DEF CheckRecursiveTypeDef
<1>6. CASE NotFound
  BY <1>1, <1>6 DEF NotFound
<1>7. CASE TypesNext /\ ~NextType /\ ~CheckMember /\ ~CheckRecursiveTypeDef /\ ~NotFound
  BY <1>2, <1>7 DEF TypesNext, CompleteFunctionType, FunctionWithoutClass, SkipRecordType, CompleteRecordType,
     EndOfRecords, CheckSemanticError, NextBehindLast, RecursionFound, StackOverflow, typeVars
<1>8. CASE ~TypesNext
  BY <1>2, <1>8, TypesElsewhere DEF typeVars
<1> QED BY <1>3, <1>4, <1>5, <1>6, <1>7, <1>8

-----------------------------------------------------------------------------
(* A program that the parser has refused                                    *)

RefusedOK ==
  decls_ = NoDeclarations =>
    /\ DOMAIN members_ = {} /\ depth = 0
    /\ status = "stopped" => \E phase \in DOMAIN answers : answers[phase] = "crash"
    /\ "print" \in DOMAIN answers => answers["print"] = "false"

\* There are no classes to be searched, so the search ends at the null pointer.
LEMMA RefusedKept ==
  ASSUME IInv, UnitOK, AnswersOK, SearchOK, RefusedOK, [Next]_vars PROVE RefusedOK'
<1>1. decls_' = decls_
  BY ControlOK
<1> SUFFICES ASSUME decls_ = NoDeclarations
             PROVE  /\ DOMAIN members_' = {} /\ depth' = 0
                    /\ status' = "stopped" => \E phase \in DOMAIN answers' : answers'[phase] = "crash"
                    /\ "print" \in DOMAIN answers' => answers'["print"] = "false"
  BY <1>1 DEF RefusedOK
<1>2. status \in {"idle", "stopped", "recursion"}
  BY DEF AnswersOK
<1>3. DOMAIN members_ = {} /\ depth = 0 /\ at \in Nat \ {0}
  BY DEF RefusedOK, SearchOK
<1>4. GetMemberNum = 0
  <2>1. CASE origin = Null
    BY <2>1 DEF GetMemberNum
  <2>2. CASE origin # Null
    <3>1. GetMembers(origin) = <<>>
      BY <1>3 DEF GetMembers
    <3> QED BY <2>2, <3>1 DEF GetMemberNum
  <2> QED BY <2>1, <2>2
<1>5. ~CheckMember /\ ~RecursionFound /\ ~CheckRecursiveTypeDef /\ ~StackOverflow /\ ~NotFound
  BY <1>3, <1>4 DEF CheckMember, RecursionFound, CheckRecursiveTypeDef, StackOverflow, NotFound, Checking
<1>6. ~(CompleteFunctionType \/ FunctionWithoutClass \/ SkipRecordType \/ CompleteRecordType \/ EndOfRecords)
  BY <1>2 DEF CompleteFunctionType, FunctionWithoutClass, SkipRecordType, CompleteRecordType, EndOfRecords, Completing, Begin
<1>7. DOMAIN members_' = {} /\ depth' = 0
  <2>1. CASE CheckSemanticError \/ NextType \/ NextBehindLast
    BY <1>3, <2>1 DEF CheckSemanticError, NextType, NextBehindLast, typeVars
  <2>2. CASE ~TypesNext
    BY <1>3, <2>2, TypesElsewhere DEF typeVars
  <2> QED BY <1>5, <1>6, <2>1, <2>2 DEF TypesNext
<1>8. ~PassesNext
  <2>1. PassesNext => (\E phase \in PassPhases : Begin(phase)) \/ status \in PassPhases
    BY PassKinds DEF Working
  <2> QED BY <1>2, <2>1 DEF Begin, PassPhases
<1>9. CASE NoDecls
  <2>1. Working(Phases) \/ NoDecls
    BY <1>9
  <2>2. ~Continue
    BY <1>9 DEF NoDecls, Continue, Answer, Put, AnswersOK
  <2>3. CASE Answer("print", "idle", "false") /\ "print" \notin DOMAIN answers
    BY <1>7, <2>3, AnswerIs
  <2>4. ASSUME NEW phase \in Phases \ {"recursion", "print"}, Answer(phase, "stopped", "crash")
        PROVE  /\ status' = "stopped" => \E p \in DOMAIN answers' : answers'[p] = "crash"
               /\ "print" \in DOMAIN answers' => answers'["print"] = "false"
    <3>1. phase \notin DOMAIN answers
      BY <1>9, <2>4 DEF NoDecls, AnswersOK
    <3>2. DOMAIN answers' = DOMAIN answers \cup {phase} /\ answers'[phase] = "crash" /\ \A p \in DOMAIN answers : answers'[p] = answers[p]
      BY <2>4, <3>1, AnswerIs
    <3> QED BY <2>4, <3>2 DEF RefusedOK
  <2> QED BY <1>7, <1>9, <2>3, <2>4 DEF NoDecls
<1>10. CASE TypesNext
  <2>1. CASE CheckSemanticError \/ NextType
    <3>1. answers' = answers /\ status' # "stopped"
      BY <2>1 DEF CheckSemanticError, NextType, Begin, Continue, Searching
    <3> QED BY <1>7, <3>1 DEF RefusedOK
  <2>2. CASE NextBehindLast
    <3>1. status = "recursion" /\ Answer(status, "stopped", "crash")
      BY <2>2 DEF NextBehindLast, Crash, Searching
    <3>2. "recursion" \notin DOMAIN answers
      BY <3>1 DEF AnswersOK
    <3>3. DOMAIN answers' = DOMAIN answers \cup {"recursion"} /\ answers'["recursion"] = "crash" /\ \A p \in DOMAIN answers : answers'[p] = answers[p]
      BY <3>1, <3>2, AnswerIs
    <3> QED BY <1>7, <3>3 DEF RefusedOK
  <2> QED BY <1>5, <1>6, <1>10, <2>1, <2>2 DEF TypesNext
<1>11. CASE UNCHANGED vars
  BY <1>7, <1>11 DEF vars, RefusedOK
<1> QED BY <1>8, <1>9, <1>10, <1>11 DEF Next, Terminated

-----------------------------------------------------------------------------
(* The classes of a program                                                 *)

ClassName(i) == decls_.records[i][2]

\* The first of its name in the list.
IsFirst(i) == \A k \in DOMAIN decls_.records : k < i => ClassName(k) # ClassName(i)

\* The first j records have been looked at.
Treated(j) ==
  /\ \A i \in 1..j : types_[ClassName(i)][1] # "user" => ClassName(i) \in DOMAIN members_
  /\ \A name \in DOMAIN members_ :
       \E i \in 1..j : ClassName(i) = name /\ IsFirst(i) /\ members_[name] = MemberTypes(decls_.records[i])

Remain(j) ==
  /\ j \in 0..Len(decls_.records) /\ IsList(records_) /\ Len(records_) = Len(decls_.records) - j
  /\ \A k \in 1..Len(records_) : records_[k] = decls_.records[k + j]

FunctionSomewhere ==
  \/ decls_.functions # <<>>
  \/ \E i \in DOMAIN decls_.records : decls_.records[i][4] # <<>> /\ ClassName(i) \in Classes \ DOMAIN members_

CompleteOK ==
  /\ \A name \in DOMAIN members_ : name \in Classes
  /\ status # "complete" /\ "complete" \notin DOMAIN answers => DOMAIN members_ = {}
  /\ status = "complete" => \E j \in 0..Len(decls_.records) : Remain(j) /\ Treated(j)
  /\ Answered("complete") =>
       \/ answers["complete"] = "true" /\ decls_.functions = <<>> /\ Treated(Len(decls_.records))
       \/ answers["complete"] # "true" /\ FunctionSomewhere

\* What is known of a program's lists.
LEMMA RecordsAre ==
  ASSUME UnitOK, decls_ # NoDeclarations
  PROVE  /\ IsList(decls_.records) /\ DOMAIN decls_.records = 1..Len(decls_.records) /\ Len(decls_.records) \in Nat
         /\ \A i \in DOMAIN decls_.records :
              /\ ClassName(i) \in DOMAIN types_
              /\ types_[ClassName(i)][1] # "user" <=> ClassName(i) \in Classes
<1>1. PICK u \in Units : decls_ = u.decls /\ types_ = u.types
  BY DEF UnitOK
<1>2. decls_.records \in Seq(Nodes)
  BY <1>1, TreesAssumption DEF Lists
<1>3. ASSUME NEW i \in DOMAIN decls_.records
      PROVE  ClassName(i) \in DOMAIN types_ /\ (types_[ClassName(i)][1] # "user" <=> ClassName(i) \in Classes)
  <2>1. ClassName(i) \in DOMAIN types_ /\ (types_[ClassName(i)][1] # "user" => types_[ClassName(i)] = <<"record">>)
    BY <1>1, <1>3, DeclsAssumption DEF ClassName
  <2>2. types_[ClassName(i)] = <<"record">> => types_[ClassName(i)][1] = "record"
    OBVIOUS
  <2> QED BY <2>1, <2>2 DEF Classes
<1> QED BY <1>2, <1>3, ListOfSeq, ListProperties

\* What has been completed when the classes do not change.
LEMMA TreatedKept ==
  ASSUME UNCHANGED <<decls_, types_, members_>>, NEW j
  PROVE  (Treated(j) <=> Treated(j)') /\ (FunctionSomewhere <=> FunctionSomewhere')
BY DEF Treated, FunctionSomewhere, ClassName, IsFirst, Classes, MemberTypes

\* A class that needs nothing is passed over, or the members of the next one are set.
LEMMA TreatedOn ==
  ASSUME UnitOK, decls_ # NoDeclarations, NEW j \in 0..Len(decls_.records), Remain(j), Treated(j),
         records_ # <<>>, records_' = Tail(records_), UNCHANGED <<decls_, types_>>,
         \A name \in DOMAIN members_ : name \in Classes,
         LET name == records_[1][2] IN
         \/ IsComplete(name) /\ members_' = members_
         \/ ~IsComplete(name) /\ members_' = Put(members_, name, MemberTypes(records_[1]))
  PROVE  /\ j + 1 \in 0..Len(decls_.records) /\ Remain(j + 1)' /\ Treated(j + 1)'
         /\ \A name \in DOMAIN members_' : name \in Classes'
<1> DEFINE N == Len(decls_.records)
           name == records_[1][2]
<1>1. /\ N \in Nat /\ DOMAIN decls_.records = 1..N
      /\ \A i \in 1..N : ClassName(i) \in DOMAIN types_ /\ (types_[ClassName(i)][1] # "user" <=> ClassName(i) \in Classes)
  BY RecordsAre
<1>2. Len(records_) > 0 /\ Len(records_) = N - j /\ IsList(records_) /\ \A k \in 1..Len(records_) : records_[k] = decls_.records[k + j]
  BY ListProperties DEF Remain
<1>3. j \in 0..N /\ j + 1 \in 0..N /\ j + 1 \in 1..N /\ 1 \in 1..Len(records_)
  BY <1>1, <1>2
<1>4. records_[1] = decls_.records[j + 1] /\ name = ClassName(j + 1)
  <2>1. records_[1] = decls_.records[1 + j] /\ 1 + j = j + 1
    BY <1>2, <1>3
  <2> QED BY <2>1 DEF ClassName
<1>5. Remain(j + 1)'
  <2>1. /\ IsList(Tail(records_)) /\ Len(Tail(records_)) = Len(records_) - 1
        /\ \A k \in 1..Len(records_) - 1 : Tail(records_)[k] = records_[k + 1]
    BY <1>2, TailList
  <2>2. ASSUME NEW k \in 1..Len(records_) - 1 PROVE Tail(records_)[k] = decls_.records[k + (j + 1)]
    <3>1. k + 1 \in 1..Len(records_) /\ (k + 1) + j = k + (j + 1)
      BY <1>2, <1>3
    <3> QED BY <1>2, <2>1, <3>1
  <2> HIDE DEF N
  <2>3. Len(Tail(records_)) = N - (j + 1)
    BY <1>2, <1>3, <1>1, <2>1
  <2> QED BY <1>3, <2>1, <2>2, <2>3 DEF Remain, N
<1> HIDE DEF N
<1>6. \A i \in 1..j + 1 : i \in 1..j \/ i = j + 1
  BY <1>3
<1>7. \A i \in 1..j : i \in 1..j + 1
  BY <1>3
<1>8. j + 1 \in 1..j + 1
  BY <1>3
<1>9. CASE IsComplete(name) /\ members_' = members_
  <2>1. types_[ClassName(j + 1)][1] # "user" => ClassName(j + 1) \in DOMAIN members_
    BY <1>4, <1>9 DEF IsComplete
  <2>2. Treated(j + 1)
    BY <1>6, <1>7, <2>1 DEF Treated
  <2>3. Treated(j + 1)'
    BY <1>9, <2>2, TreatedKept
  <2>4. Classes' = Classes
    BY DEF Classes
  <2> QED BY <1>3, <1>5, <1>9, <2>3, <2>4 DEF N
<1>10. CASE ~IsComplete(name) /\ members_' = Put(members_, name, MemberTypes(records_[1]))
  <2>1. name \in Classes /\ name \notin DOMAIN members_
    BY <1>1, <1>3, <1>4, <1>10 DEF IsComplete
  <2>2. /\ DOMAIN members_' = DOMAIN members_ \cup {name}
        /\ members_'[name] = MemberTypes(decls_.records[j + 1])
        /\ \A n \in DOMAIN members_ : members_'[n] = members_[n]
    BY <1>4, <1>10, <2>1 DEF Put
  <2>3. IsFirst(j + 1)
    <3>1. ASSUME NEW k \in 1..N, k < j + 1, ClassName(k) = ClassName(j + 1) PROVE FALSE
      <4>1. k \in 1..j
        BY <1>3, <3>1
      <4>2. types_[ClassName(k)][1] # "user"
        BY <1>1, <1>4, <2>1, <3>1
      <4>3. ClassName(k) \in DOMAIN members_
        BY <4>1, <4>2 DEF Treated
      <4> QED BY <1>4, <2>1, <3>1, <4>3
    <3> QED BY <1>1, <3>1 DEF IsFirst
  <2>4. \A i \in 1..j + 1 : types_[ClassName(i)][1] # "user" => ClassName(i) \in DOMAIN members_'
    BY <1>4, <1>6, <2>2 DEF Treated
  <2>5. ASSUME NEW n \in DOMAIN members_'
        PROVE  \E i \in 1..j + 1 : ClassName(i) = n /\ IsFirst(i) /\ members_'[n] = MemberTypes(decls_.records[i])
    <3>1. CASE n = name
      BY <1>4, <1>8, <2>2, <2>3, <3>1
    <3>2. CASE n \in DOMAIN members_
      BY <1>7, <2>2, <3>2 DEF Treated
    <3> QED BY <2>2, <3>1, <3>2
  <2>6. Treated(j + 1)'
    <3>1. \A i : /\ ClassName(i)' = ClassName(i) /\ IsFirst(i)' = IsFirst(i)
                  /\ MemberTypes(decls_'.records[i]) = MemberTypes(decls_.records[i])
      BY DEF ClassName, IsFirst
    <3>2. \A i \in 1..j + 1 : types_'[ClassName(i)'][1] # "user" => ClassName(i)' \in DOMAIN members_'
      BY <2>4, <3>1
    <3>3. \A n \in DOMAIN members_' : \E i \in 1..j + 1 :
            ClassName(i)' = n /\ IsFirst(i)' /\ members_'[n] = MemberTypes(decls_'.records[i])
      BY <2>5, <3>1
    <3> QED BY <3>2, <3>3 DEF Treated
  <2>7. \A n \in DOMAIN members_' : n \in Classes'
    BY <2>1, <2>2 DEF Classes
  <2> QED BY <1>3, <1>5, <2>6, <2>7 DEF N
<1> QED BY <1>9, <1>10

\* The classes are completed one after the other, each by its first definition in the list.
LEMMA CompleteKept ==
  ASSUME IInv, UnitOK, AnswersOK, CompleteOK, [Next]_vars PROVE CompleteOK'
<1>1. UNCHANGED <<decls_, types_>> /\ Classes' = Classes
  BY ControlOK DEF Classes
<1>2. \A name \in DOMAIN members_ : name \in Classes
  BY DEF CompleteOK
<1>3. "complete" \in Phases
  BY DEF Phases
<1>4. CASE status = "complete"
  <2>1. PICK j \in 0..Len(decls_.records) : Remain(j) /\ Treated(j)
    BY <1>4 DEF CompleteOK
  <2>2. "complete" \notin DOMAIN answers /\ decls_ # NoDeclarations
    BY <1>4 DEF AnswersOK
  <2>3. CASE SkipRecordType
    <3>1. Continue /\ records_ # <<>> /\ records_' = Tail(records_) /\ IsComplete(records_[1][2]) /\ members_' = members_
      BY <2>3 DEF SkipRecordType
    <3>2. /\ j + 1 \in 0..Len(decls_.records) /\ Remain(j + 1)' /\ Treated(j + 1)'
          /\ \A name \in DOMAIN members_' : name \in Classes'
      BY <1>1, <1>2, <2>1, <2>2, <3>1, TreatedOn
    <3>3. status' = status /\ answers' = answers
      BY <3>1 DEF Continue
    <3> QED BY <1>1, <1>4, <2>2, <3>2, <3>3 DEF CompleteOK, Answered
  <2>4. CASE CompleteRecordType /\ records_[1][4] = <<>>
    <3>1. /\ Continue /\ records_ # <<>> /\ records_' = Tail(records_) /\ ~IsComplete(records_[1][2])
          /\ members_' = Put(members_, records_[1][2], MemberTypes(records_[1]))
      BY <2>4 DEF CompleteRecordType
    <3>2. /\ j + 1 \in 0..Len(decls_.records) /\ Remain(j + 1)' /\ Treated(j + 1)'
          /\ \A name \in DOMAIN members_' : name \in Classes'
      BY <1>1, <1>2, <2>1, <2>2, <3>1, TreatedOn
    <3>3. status' = status /\ answers' = answers
      BY <3>1 DEF Continue
    <3> QED BY <1>1, <1>4, <2>2, <3>2, <3>3 DEF CompleteOK, Answered
  <2>5. ASSUME NEW next, next # "complete", NEW how, Answer(status, next, how), members_' = members_,
               \/ how = "true" /\ decls_.functions = <<>> /\ Treated(Len(decls_.records))
               \/ how # "true" /\ FunctionSomewhere
        PROVE  CompleteOK'
    <3>1. DOMAIN answers' = DOMAIN answers \cup {"complete"} /\ answers'["complete"] = how /\ status' = next
      BY <1>4, <2>2, <2>5, AnswerIs
    <3>2. /\ Treated(Len(decls_.records)) => Treated(Len(decls_.records))'
          /\ FunctionSomewhere => FunctionSomewhere'
      BY <1>1, <2>5, TreatedKept
    <3>3. \/ answers'["complete"] = "true" /\ decls_'.functions = <<>> /\ Treated(Len(decls_.records))'
          \/ answers'["complete"] # "true" /\ FunctionSomewhere'
      BY <1>1, <2>5, <3>1, <3>2
    <3> QED BY <1>1, <1>2, <2>5, <3>1, <3>3 DEF CompleteOK
  <2>6. CASE FunctionWithoutClass
    <3>1. Answer(status, "stopped", "crash") /\ members_' = members_ /\ FunctionSomewhere
      BY <2>6 DEF FunctionWithoutClass, Crash, typeVars, FunctionSomewhere
    <3> QED BY <2>5, <3>1
  <2>7. CASE CompleteRecordType /\ records_[1][4] # <<>>
    <3>1. Answer(status, "stopped", "crash") /\ members_' = members_ /\ records_ # <<>> /\ ~IsComplete(records_[1][2])
      BY <2>7 DEF CompleteRecordType, Crash
    <3>2. Len(records_) > 0 /\ Len(records_) \in Nat /\ Len(records_) = Len(decls_.records) - j /\ Len(decls_.records) \in Nat
      BY <2>1, <2>2, <3>1, ListProperties, RecordsAre DEF Remain
    <3>3. 1 \in 1..Len(records_) /\ 1 + j \in 1..Len(decls_.records)
      BY <3>2
    <3>4. records_[1] = decls_.records[1 + j] /\ 1 + j \in DOMAIN decls_.records
      BY <2>1, <2>2, <3>3, RecordsAre DEF Remain
    <3>5. ClassName(1 + j) \in Classes \ DOMAIN members_
      BY <2>2, <3>1, <3>4, RecordsAre DEF IsComplete, ClassName
    <3>6. FunctionSomewhere
      BY <2>7, <3>4, <3>5 DEF FunctionSomewhere
    <3> QED BY <2>5, <3>1, <3>6
  <2>8. CASE EndOfRecords
    <3>1. Answer(status, "idle", "true") /\ members_' = members_ /\ records_ = <<>> /\ decls_.functions = <<>>
      BY <2>8 DEF EndOfRecords, Return, Completing, typeVars
    <3>2. Len(records_) = 0 /\ Len(decls_.records) \in Nat
      BY <2>2, <3>1, EmptyList, RecordsAre
    <3>3. j = Len(decls_.records)
      BY <2>1, <3>2 DEF Remain
    <3> QED BY <2>1, <2>5, <3>1, <3>3
  <2>9. CASE UNCHANGED vars
    <3>1. UNCHANGED <<decls_, types_, status, answers, records_, members_>>
      BY <2>9 DEF vars, typeVars
    <3>2. Remain(j)' /\ Treated(j)'
      BY <2>1, <3>1, TreatedKept DEF Remain
    <3> QED BY <1>1, <1>2, <1>4, <2>2, <3>1, <3>2 DEF CompleteOK, Answered
  <2>10. ~NoDecls /\ ~PassesNext
    <3>1. PassesNext => (\E phase \in PassPhases : Begin(phase)) \/ status \in PassPhases
      BY PassKinds DEF Working
    <3> QED BY <1>4, <3>1 DEF NoDecls, Begin, PassPhases
  <2>11. ~(CompleteFunctionType \/ CheckSemanticError \/ NextType \/ NextBehindLast \/ CheckMember \/ RecursionFound
             \/ CheckRecursiveTypeDef \/ StackOverflow \/ NotFound)
    BY <1>4 DEF CompleteFunctionType, CheckSemanticError, NextType, NextBehindLast, CheckMember, RecursionFound,
       CheckRecursiveTypeDef, StackOverflow, NotFound, Begin, Searching, Checking
  <2> QED
    BY <2>3, <2>4, <2>6, <2>7, <2>8, <2>9, <2>10, <2>11 DEF Next, Terminated, TypesNext
<1>5. CASE CompleteFunctionType
  <2>1. /\ Begin("complete") /\ records_' = decls_.records /\ members_' = members_
        /\ status' = "complete" /\ answers' = answers /\ status = "idle" /\ "complete" \notin DOMAIN answers
        /\ decls_ # NoDeclarations
    BY <1>5 DEF CompleteFunctionType, Begin
  <2>2. DOMAIN members_ = {}
    BY <2>1 DEF CompleteOK
  <2>3. /\ IsList(decls_.records) /\ Len(decls_.records) \in Nat
    BY <2>1, RecordsAre
  <2>4. 0 \in 0..Len(decls_.records) /\ \A k \in 1..Len(decls_.records) : k + 0 = k
    BY <2>3
  <2>5. Remain(0)'
    BY <1>1, <2>1, <2>3, <2>4 DEF Remain
  <2>6. Treated(0)'
    BY <1>1, <2>1, <2>2 DEF Treated
  <2> QED BY <1>1, <1>2, <2>1, <2>2, <2>4, <2>5, <2>6 DEF CompleteOK, Answered
<1>6. CASE status # "complete" /\ ~CompleteFunctionType
  <2>1. members_' = members_
    <3>1. CASE TypesNext
      BY <1>6, <3>1 DEF TypesNext, FunctionWithoutClass, SkipRecordType, CompleteRecordType, EndOfRecords, Completing,
         CheckSemanticError, NextType, NextBehindLast, CheckMember, RecursionFound, CheckRecursiveTypeDef, StackOverflow,
         NotFound, typeVars
    <3> QED BY <3>1, TypesElsewhere DEF typeVars
  <2>2. status' # "complete"
    <3>1. ~Begin("complete")
      <4>1. CASE PassesNext
        <5>1. (\E phase \in PassPhases : Begin(phase)) \/ status \in PassPhases
          BY <4>1, PassKinds DEF Working
        <5> QED BY <5>1 DEF Begin, PassPhases
      <4>2. CASE TypesNext
        BY <1>6, <4>2 DEF TypesNext, FunctionWithoutClass, SkipRecordType, CompleteRecordType, EndOfRecords, Completing,
           CheckSemanticError, NextType, NextBehindLast, CheckMember, RecursionFound, CheckRecursiveTypeDef, StackOverflow,
           NotFound, Searching, Checking, Begin
      <4>3. CASE NoDecls
        BY <4>3 DEF NoDecls, Begin
      <4>4. CASE UNCHANGED vars
        BY <4>4 DEF vars, Begin
      <4> QED BY <4>1, <4>2, <4>3, <4>4 DEF Next, Terminated
    <3> QED BY <1>3, <1>6, <3>1, AnswerKept
  <2>3. decls_ # NoDeclarations /\ "complete" \in DOMAIN answers' =>
          "complete" \in DOMAIN answers /\ answers'["complete"] = answers["complete"]
    BY <1>3, <1>6, AnswerKept
  <2>4. "complete" \notin DOMAIN answers' => "complete" \notin DOMAIN answers
    BY <1>3, AnswerKept
  <2>5. /\ Treated(Len(decls_.records)) => Treated(Len(decls_.records))'
        /\ FunctionSomewhere => FunctionSomewhere'
    BY <1>1, <2>1, TreatedKept
  <2>6. Answered("complete")' =>
       \/ answers'["complete"] = "true" /\ decls_'.functions = <<>> /\ Treated(Len(decls_.records))'
       \/ answers'["complete"] # "true" /\ FunctionSomewhere'
    <3>1. Answered("complete")' => Answered("complete") /\ answers'["complete"] = answers["complete"]
      BY <1>1, <2>3 DEF Answered
    <3> QED BY <1>1, <2>5, <3>1 DEF CompleteOK
  <2> QED BY <1>1, <1>2, <1>6, <2>1, <2>2, <2>4, <2>6 DEF CompleteOK
<1> QED BY <1>4, <1>5, <1>6

\* What the invariant is for: the definition that counts is the first in the list.
LEMMA CompleteImplied == ASSUME UnitOK, CompleteOK PROVE CompleteExact
<1> SUFFICES ASSUME Answered("complete")
             PROVE  IF answers.complete = "true"
                    THEN ~FunctionSomewhere /\ \A name \in Classes : GetMembers(<<"record", name>>) = Definition(name)
                    ELSE FunctionSomewhere
  BY DEF CompleteExact, FunctionSomewhere, ClassName
<1>1. decls_ # NoDeclarations
  BY DEF Answered
<1>2. \/ answers.complete = "true" /\ decls_.functions = <<>> /\ Treated(Len(decls_.records))
      \/ answers.complete # "true" /\ FunctionSomewhere
  BY DEF CompleteOK
<1>3. ASSUME answers.complete = "true"
      PROVE  ~FunctionSomewhere /\ \A name \in Classes : GetMembers(<<"record", name>>) = Definition(name)
  <2> DEFINE N == Len(decls_.records)
  <2>1. decls_.functions = <<>> /\ Treated(N) /\ N \in Nat /\ DOMAIN decls_.records = 1..N
    BY <1>1, <1>2, <1>3, RecordsAre
  <2> HIDE DEF N
  <2>2. ~FunctionSomewhere
    <3>1. \A i \in 1..N : ClassName(i) \in Classes => ClassName(i) \in DOMAIN members_
      BY <1>1, <2>1, RecordsAre DEF Treated
    <3> QED BY <2>1, <3>1 DEF FunctionSomewhere
  <2>3. ASSUME NEW name \in Classes PROVE GetMembers(<<"record", name>>) = Definition(name)
    <3> DEFINE defs == {i \in DOMAIN decls_.records : decls_.records[i][2] = name}
    <3>1. defs = {i \in 1..N : ClassName(i) = name}
      BY <2>1 DEF ClassName
    <3>2. GetMembers(<<"record", name>>) = IF name \in DOMAIN members_ THEN members_[name] ELSE <<>>
      BY DEF GetMembers
    <3>3. CASE name \in DOMAIN members_
      <4>1. PICK i \in 1..N : ClassName(i) = name /\ IsFirst(i) /\ members_[name] = MemberTypes(decls_.records[i])
        BY <2>1, <3>3 DEF Treated
      <4>2. i \in defs /\ \A j \in defs : i <= j
        <5>1. \A j \in 1..N : ClassName(j) = name => ~(j < i)
          BY <2>1, <4>1 DEF IsFirst
        <5> QED BY <2>1, <3>1, <4>1, <5>1
      <4>3. \A k \in defs : (\A j \in defs : k <= j) => k = i
        BY <2>1, <3>1, <4>2
      <4> DEFINE least == CHOOSE k \in defs : \A j \in defs : k <= j
      <4> HIDE DEF defs
      <4>4. least = i
        BY <4>2, <4>3
      <4>5. Definition(name) = LET members == decls_.records[least][3] IN [k \in DOMAIN members |-> members[k][3]]
        BY <4>2, Zenon DEF Definition, defs
      <4> HIDE DEF least
      <4>6. Definition(name) = MemberTypes(decls_.records[i])
        BY <4>4, <4>5 DEF MemberTypes
      <4> QED BY <3>2, <3>3, <4>1, <4>6
    <3>4. CASE name \notin DOMAIN members_
      <4>1. defs = {}
        <5>1. \A i \in 1..N : ClassName(i) \in Classes => ClassName(i) \in DOMAIN members_
          BY <1>1, <2>1, RecordsAre DEF Treated
        <5> QED BY <3>1, <3>4, <5>1
      <4> QED BY <3>2, <3>4, <4>1, Zenon DEF Definition
    <3> QED BY <3>3, <3>4
  <2> QED BY <2>2, <2>3
<1> QED BY <1>2, <1>3

-----------------------------------------------------------------------------
(* The trees on the agenda                                                  *)

Under(item) == IF item.op = "visit" THEN Tree(item.node, item.path) ELSE {}

TreesOf(items) == UNION {Under(items[k]) : k \in 1..Len(items)}

AllVisits(items) == IsList(items) /\ \A k \in 1..Len(items) : items[k].op = "visit" /\ items[k].node \in Nodes

\* Of two lists, one behind the other.
LEMMA TreesConcat ==
  ASSUME NEW s, NEW t, IsList(s), IsList(t)
  PROVE  TreesOf(s \o t) = TreesOf(s) \cup TreesOf(t)
<1> DEFINE n == Len(s)
           m == Len(t)
           st == s \o t
<1>1. /\ IsList(st) /\ Len(st) = n + m /\ n \in Nat /\ m \in Nat
      /\ \A k \in 1..n : st[k] = s[k]
      /\ \A k \in 1..m : st[k + n] = t[k]
  <2>1. Len(s) \in Nat /\ Len(t) \in Nat
    BY DEF IsList
  <2> QED BY <2>1, ConcatList
<1>2. /\ TreesOf(s) = UNION {Under(s[k]) : k \in 1..n}
      /\ TreesOf(t) = UNION {Under(t[k]) : k \in 1..m}
      /\ TreesOf(st) = UNION {Under(st[k]) : k \in 1..n + m}
  BY <1>1 DEF TreesOf
<1> HIDE DEF n, m, st
<1>3. \A k \in 1..n + m : k \in 1..n \/ \E j \in 1..m : k = j + n
  <2> SUFFICES ASSUME NEW k \in 1..n + m, k \notin 1..n PROVE \E j \in 1..m : k = j + n
    OBVIOUS
  <2>1. k - n \in 1..m /\ k = (k - n) + n
    BY <1>1
  <2> QED BY <2>1
<1>4. TreesOf(st) \subseteq TreesOf(s) \cup TreesOf(t)
  <2> SUFFICES ASSUME NEW k \in 1..n + m PROVE Under(st[k]) \subseteq TreesOf(s) \cup TreesOf(t)
    BY <1>2
  <2>1. CASE k \in 1..n
    <3>1. st[k] = s[k]
      BY <1>1, <2>1
    <3> QED BY <1>2, <2>1, <3>1
  <2>2. ASSUME NEW j \in 1..m, k = j + n PROVE Under(st[k]) \subseteq TreesOf(s) \cup TreesOf(t)
    <3>1. st[k] = t[j]
      BY <1>1, <2>2
    <3> QED BY <1>2, <3>1
  <2> QED BY <1>3, <2>1, <2>2
<1>5. TreesOf(s) \subseteq TreesOf(st)
  <2> SUFFICES ASSUME NEW k \in 1..n PROVE Under(s[k]) \subseteq TreesOf(st)
    BY <1>2
  <2>1. st[k] = s[k] /\ k \in 1..n + m
    BY <1>1
  <2> QED BY <1>2, <2>1
<1>6. TreesOf(t) \subseteq TreesOf(st)
  <2> SUFFICES ASSUME NEW j \in 1..m PROVE Under(t[j]) \subseteq TreesOf(st)
    BY <1>2
  <2>1. st[j + n] = t[j] /\ j + n \in 1..n + m
    BY <1>1
  <2> QED BY <1>2, <2>1
<1> QED BY <1>4, <1>5, <1>6 DEF st

\* Visits, and more visits behind them.
LEMMA AllVisitsConcat == ASSUME NEW s, NEW t, AllVisits(s), AllVisits(t) PROVE AllVisits(s \o t)
<1> DEFINE n == Len(s)
           m == Len(t)
           st == s \o t
<1>1. /\ IsList(st) /\ Len(st) = n + m /\ n \in Nat /\ m \in Nat
      /\ \A k \in 1..n : st[k] = s[k]
      /\ \A k \in 1..m : st[k + n] = t[k]
  <2>1. IsList(s) /\ IsList(t)
    BY DEF AllVisits
  <2>2. Len(s) \in Nat /\ Len(t) \in Nat
    BY <2>1 DEF IsList
  <2> QED BY <2>1, <2>2, ConcatList
<1>2. /\ \A k \in 1..n : s[k].op = "visit" /\ s[k].node \in Nodes
      /\ \A k \in 1..m : t[k].op = "visit" /\ t[k].node \in Nodes
  BY DEF AllVisits
<1> HIDE DEF n, m, st
<1>3. \A k \in 1..n + m : k \in 1..n \/ \E j \in 1..m : k = j + n
  <2> SUFFICES ASSUME NEW k \in 1..n + m, k \notin 1..n PROVE \E j \in 1..m : k = j + n
    OBVIOUS
  <2>1. k - n \in 1..m /\ k = (k - n) + n
    BY <1>1
  <2> QED BY <2>1
<1>4. \A k \in 1..n + m : st[k].op = "visit" /\ st[k].node \in Nodes
  <2> TAKE k \in 1..n + m
  <2>1. CASE k \in 1..n
    BY <1>1, <1>2, <2>1
  <2>2. ASSUME NEW j \in 1..m, k = j + n PROVE st[k].op = "visit" /\ st[k].node \in Nodes
    <3>1. st[k] = t[j]
      BY <1>1, <2>2
    <3> QED BY <1>2, <3>1
  <2> QED BY <1>3, <2>1, <2>2
<1>5. AllVisits(st)
  BY <1>1, <1>4 DEF AllVisits
<1> QED BY <1>5 DEF st

\* Of the first item, and of those behind it.
LEMMA TreesHead ==
  ASSUME NEW s, IsList(s), s # <<>>
  PROVE  TreesOf(s) = Under(s[1]) \cup TreesOf(Tail(s))
<1> DEFINE n == Len(s)
           t == Tail(s)
<1>1. /\ IsList(t) /\ Len(t) = n - 1 /\ n \in Nat /\ n > 0
      /\ \A k \in 1..n - 1 : t[k] = s[k + 1]
  BY TailList, ListProperties
<1>2. /\ TreesOf(s) = UNION {Under(s[k]) : k \in 1..n}
      /\ TreesOf(t) = UNION {Under(t[k]) : k \in 1..n - 1}
  BY <1>1 DEF TreesOf
<1> HIDE DEF n, t
<1>3. \A k \in 1..n : k = 1 \/ \E j \in 1..n - 1 : k = j + 1
  <2> SUFFICES ASSUME NEW k \in 1..n, k # 1 PROVE \E j \in 1..n - 1 : k = j + 1
    OBVIOUS
  <2>1. k - 1 \in 1..n - 1 /\ k = (k - 1) + 1
    BY <1>1
  <2> QED BY <2>1
<1>4. 1 \in 1..n /\ \A j \in 1..n - 1 : j + 1 \in 1..n
  BY <1>1
<1>5. TreesOf(s) \subseteq Under(s[1]) \cup TreesOf(t)
  <2> SUFFICES ASSUME NEW k \in 1..n PROVE Under(s[k]) \subseteq Under(s[1]) \cup TreesOf(t)
    BY <1>2
  <2>1. ASSUME NEW j \in 1..n - 1, k = j + 1 PROVE Under(s[k]) \subseteq TreesOf(t)
    <3>1. s[k] = t[j]
      BY <1>1, <2>1
    <3> QED BY <1>2, <2>1, <3>1
  <2> QED BY <1>3, <2>1
<1>6. Under(s[1]) \subseteq TreesOf(s)
  BY <1>2, <1>4
<1>7. TreesOf(t) \subseteq TreesOf(s)
  <2> SUFFICES ASSUME NEW j \in 1..n - 1 PROVE Under(t[j]) \subseteq TreesOf(s)
    BY <1>2
  <2>1. t[j] = s[j + 1] /\ j + 1 \in 1..n
    BY <1>1, <1>4
  <2> QED BY <1>2, <2>1
<1> QED BY <1>5, <1>6, <1>7 DEF t

\* Visits, without the first.
LEMMA AllVisitsTail == ASSUME NEW s, AllVisits(s), s # <<>> PROVE AllVisits(Tail(s))
<1> DEFINE n == Len(s)
           t == Tail(s)
<1>1. /\ IsList(t) /\ Len(t) = n - 1 /\ n \in Nat
      /\ \A k \in 1..n - 1 : t[k] = s[k + 1]
  BY TailList, ListProperties DEF AllVisits
<1>2. \A k \in 1..n : s[k].op = "visit" /\ s[k].node \in Nodes
  BY DEF AllVisits
<1> HIDE DEF n, t
<1>3. \A j \in 1..n - 1 : j + 1 \in 1..n
  BY <1>1
<1>4. \A j \in 1..n - 1 : t[j].op = "visit" /\ t[j].node \in Nodes
  BY <1>1, <1>2, <1>3
<1>5. AllVisits(t)
  BY <1>1, <1>4 DEF AllVisits
<1> QED BY <1>5 DEF t

\* Of the visits of a node's children.
LEMMA TreesOfAll ==
  ASSUME NEW item, item.node \in Nodes
  PROVE  /\ AllVisits(VisitAll(item))
         /\ Tree(item.node, item.path) = {[node |-> item.node, path |-> item.path]} \cup TreesOf(VisitAll(item))
<1> DEFINE ns == Children(item.node)
           items == VisitAll(item)
<1>1. ns \in Seq(Nodes) /\ DOMAIN ns = 1..Len(ns) /\ Len(ns) \in Nat
  <2>1. ns \in Seq(Nodes)
    BY TreesAssumption
  <2> QED BY <2>1
<1>2. DOMAIN items = DOMAIN ns /\ items = [k \in DOMAIN ns |-> items[k]]
  BY DEF VisitAll
<1>3. \A k \in DOMAIN ns : items[k].op = "visit" /\ items[k].node = ns[k] /\ items[k].path = Append(item.path, k)
  BY DEF VisitAll, Visit
<1>4. Tree(item.node, item.path) = {[node |-> item.node, path |-> item.path]} \cup UNION {Tree(ns[k], Append(item.path, k)) : k \in DOMAIN ns}
  BY TreeUnfolds
<1> HIDE DEF ns, items
<1>5. IsList(items) /\ Len(items) = Len(ns)
  BY <1>1, <1>2, MappedList
<1>6. \A k \in DOMAIN ns : ns[k] \in Nodes
  BY <1>1
<1>7. AllVisits(items)
  BY <1>1, <1>3, <1>5, <1>6 DEF AllVisits
<1>8. TreesOf(items) = UNION {Under(items[k]) : k \in DOMAIN ns}
  BY <1>1, <1>5 DEF TreesOf
<1>9. TreesOf(items) = UNION {Tree(ns[k], Append(item.path, k)) : k \in DOMAIN ns}
  <2>1. \A k \in DOMAIN ns : Under(items[k]) = Tree(ns[k], Append(item.path, k))
    BY <1>3 DEF Under
  <2> QED BY <1>8, <2>1
<1> QED BY <1>4, <1>7, <1>9 DEF items

\* Of the visits of a list of the Declarations.
LEMMA TreesOfList ==
  ASSUME NEW list, decls_[list] \in Seq(Nodes)
  PROVE  AllVisits(VisitList(list)) /\ TreesOf(VisitList(list)) = InLists({list})
<1> DEFINE ns == decls_[list]
           items == VisitList(list)
<1>1. ns \in Seq(Nodes) /\ DOMAIN ns = 1..Len(ns) /\ Len(ns) \in Nat
  OBVIOUS
<1>2. DOMAIN items = DOMAIN ns /\ items = [k \in DOMAIN ns |-> items[k]]
  BY DEF VisitList
<1>3. \A k \in DOMAIN ns : items[k].op = "visit" /\ items[k].node = ns[k] /\ items[k].path = <<list, k>>
  BY DEF VisitList, Visit
<1>4. InLists({list}) = UNION {Tree(ns[k], <<list, k>>) : k \in DOMAIN ns}
  BY DEF InLists
<1> HIDE DEF ns, items
<1>5. IsList(items) /\ Len(items) = Len(ns)
  BY <1>1, <1>2, MappedList
<1>6. \A k \in DOMAIN ns : ns[k] \in Nodes
  BY <1>1
<1>7. AllVisits(items)
  BY <1>1, <1>3, <1>5, <1>6 DEF AllVisits
<1>8. TreesOf(items) = UNION {Under(items[k]) : k \in DOMAIN ns}
  BY <1>1, <1>5 DEF TreesOf
<1>9. TreesOf(items) = UNION {Tree(ns[k], <<list, k>>) : k \in DOMAIN ns}
  <2>1. \A k \in DOMAIN ns : Under(items[k]) = Tree(ns[k], <<list, k>>)
    BY <1>3 DEF Under
  <2> QED BY <1>8, <2>1
<1> QED BY <1>4, <1>7, <1>9 DEF items

\* Nothing to visit.
LEMMA TreesOfNone == ASSUME NEW s, s = <<>> PROVE TreesOf(s) = {}
<1>1. Len(s) = 0
  BY EmptyList
<1> QED BY <1>1 DEF TreesOf

-----------------------------------------------------------------------------
(* A pass over all, that looks for what is in Wrong                         *)

\* What is still to be visited is of All, and has all of it that is wrong.
Covered(Wrong, All, items) == AllVisits(items) /\ TreesOf(items) \subseteq All /\ \A x \in All : x \in Wrong => x \in TreesOf(items)

\* A node that is not wrong gives way to its children.
LEMMA CoveredOn ==
  ASSUME NEW Wrong, NEW All, Covered(Wrong, All, agenda), Now("visit")
  PROVE  /\ Top.node \in Nodes /\ [node |-> Top.node, path |-> Top.path] \in All
         /\ Then(VisitAll(Top)) /\ [node |-> Top.node, path |-> Top.path] \notin Wrong => Covered(Wrong, All, agenda')
<1> DEFINE x == [node |-> Top.node, path |-> Top.path]
<1>1. agenda # <<>> /\ AllVisits(agenda) /\ Top = agenda[1]
  BY DEF Covered, Now, Top
<1>2. 1 \in 1..Len(agenda)
  BY <1>1, ListProperties DEF AllVisits
<1>3. Top.node \in Nodes
  BY <1>1, <1>2 DEF AllVisits
<1>4. AllVisits(Tail(agenda)) /\ TreesOf(agenda) = Tree(Top.node, Top.path) \cup TreesOf(Tail(agenda))
  <2>1. IsList(agenda) /\ agenda[1].op = "visit"
    BY <1>1, <1>2 DEF AllVisits
  <2>2. Under(agenda[1]) = Tree(Top.node, Top.path)
    BY <1>1, <2>1 DEF Under
  <2> QED BY <1>1, <2>1, <2>2, TreesHead, AllVisitsTail
<1>5. AllVisits(VisitAll(Top)) /\ Tree(Top.node, Top.path) = {x} \cup TreesOf(VisitAll(Top))
  BY <1>3, TreesOfAll
<1>6. x \in All
  BY <1>4, <1>5 DEF Covered
<1>7. ASSUME Then(VisitAll(Top)), x \notin Wrong PROVE Covered(Wrong, All, agenda')
  <2>1. agenda' = VisitAll(Top) \o Tail(agenda)
    BY <1>7 DEF Then
  <2>2. AllVisits(agenda') /\ TreesOf(agenda') = TreesOf(VisitAll(Top)) \cup TreesOf(Tail(agenda))
    <3>1. IsList(VisitAll(Top)) /\ IsList(Tail(agenda))
      BY <1>4, <1>5 DEF AllVisits
    <3>2. /\ AllVisits(VisitAll(Top) \o Tail(agenda))
          /\ TreesOf(VisitAll(Top) \o Tail(agenda)) = TreesOf(VisitAll(Top)) \cup TreesOf(Tail(agenda))
      BY <1>4, <1>5, <3>1, TreesConcat, AllVisitsConcat, Zenon
    <3> QED BY <2>1, <3>2
  <2>3. TreesOf(agenda) = {x} \cup TreesOf(agenda')
    BY <1>4, <1>5, <2>2
  <2> HIDE DEF x
  <2> QED BY <1>7, <2>2, <2>3 DEF Covered
<1> QED BY <1>3, <1>6, <1>7

\* A pass ends when nothing wrong is left.
LEMMA CoveredNone ==
  ASSUME NEW Wrong, NEW All, Covered(Wrong, All, agenda), agenda = <<>> PROVE \A x \in All : x \notin Wrong
BY TreesOfNone DEF Covered

\* Two lists of the Declarations are visited one after the other.
LEMMA InListsUnion == ASSUME NEW A, NEW B PROVE InLists(A \cup B) = InLists(A) \cup InLists(B)
<1> DEFINE f(list) == UNION {Tree(decls_[list][i], <<list, i>>) : i \in DOMAIN decls_[list]}
<1>1. \A C : InLists(C) = UNION {f(list) : list \in C}
  BY DEF InLists
<1> HIDE DEF f
<1> QED BY <1>1

\* The phases begin with these actions.
LEMMA BeginsAre ==
  ASSUME IInv, [Next]_vars
  PROVE  /\ Begin("resolve") => ResolveLocalVariable
         /\ Begin("sema") => SemaCheck
         /\ Begin("check") => TypeCheck
         /\ Begin("print") => PrintAST
<1> SUFFICES ASSUME status = "idle", status' \in PassPhases
             PROVE  \/ (ResolveLocalVariable /\ status' = "resolve") \/ (SemaCheck /\ status' = "sema")
                    \/ (TypeCheck /\ status' = "check") \/ (PrintAST /\ status' = "print")
  BY DEF Begin, PassPhases
<1>1. agenda = <<>>
  BY DEF IInv, Busy
<1>2. CASE PassesNext
  <2>1. \A op : ~Now(op)
    BY <1>1 DEF Now
  <2>2. ~(AddNamedDecl \/ ResolveBlock \/ ResolveFunctionDecl \/ ResolveVariable \/ LeaveScope)
    BY <2>1 DEF AddNamedDecl, ResolveBlock, ResolveFunctionDecl, ResolveVariable, LeaveScope, Visiting
  <2>3. ~(CheckAssignment \/ CheckInvalidFunCall \/ CheckInvalidArrRef \/ CheckInvalidVariable)
    BY <2>1 DEF CheckAssignment, CheckInvalidFunCall, CheckInvalidArrRef, CheckInvalidVariable, Visiting
  <2>4. ~(PrintNode \/ PrintFunctionDecl \/ VisitChildren)
    BY <2>1 DEF PrintNode, PrintFunctionDecl, VisitChildren, Visiting
  <2>5. ~EndOfPass
    BY DEF EndOfPass, Overridden
  <2> QED BY <1>2, <2>2, <2>3, <2>4, <2>5 DEF PassesNext, ResolveLocalVariable, SemaCheck, TypeCheck, PrintAST, Begin
<1>3. CASE TypesNext
  <2>1. (\E phase \in TypePhases : Begin(phase)) \/ status \in TypePhases
    BY <1>3, TypeKinds DEF Working
  <2> QED BY <2>1 DEF Begin, TypePhases, PassPhases
<1>4. CASE NoDecls
  BY <1>4 DEF NoDecls, Answer, PassPhases
<1>5. CASE UNCHANGED vars
  BY <1>5 DEF vars, PassPhases
<1> QED BY <1>2, <1>3, <1>4, <1>5 DEF Next, Terminated

\* What may happen in a pass that only visits.
LEMMA VisitingSteps ==
  ASSUME IInv, [Next]_vars, status \in {"sema", "check", "print"}, AllVisits(agenda)
  PROVE  \/ status = "sema" /\ (CheckAssignment \/ CheckInvalidFunCall \/ CheckInvalidArrRef \/ VisitChildren)
         \/ status = "check" /\ (CheckInvalidVariable \/ VisitChildren)
         \/ status = "print" /\ (PrintNode \/ PrintFunctionDecl)
         \/ EndOfPass \/ UNCHANGED vars
<1>1. ~Now("declare") /\ ~Now("pop")
  <2>1. agenda # <<>> => 1 \in 1..Len(agenda)
    BY ListProperties DEF AllVisits
  <2>2. agenda # <<>> => agenda[1].op = "visit"
    BY <2>1 DEF AllVisits
  <2> QED BY <2>2 DEF Now, Top
<1>2. CASE PassesNext
  <2>1. ~(ResolveLocalVariable \/ ResolveBlock \/ ResolveFunctionDecl \/ ResolveVariable \/ SemaCheck \/ TypeCheck \/ PrintAST)
    BY DEF ResolveLocalVariable, ResolveBlock, ResolveFunctionDecl, ResolveVariable, SemaCheck, TypeCheck, PrintAST, Visiting, Begin
  <2>2. ~(AddNamedDecl \/ LeaveScope)
    BY <1>1 DEF AddNamedDecl, LeaveScope
  <2>3. CASE status = "sema"
    <3>1. ~(CheckInvalidVariable \/ PrintNode \/ PrintFunctionDecl)
      BY <2>3 DEF CheckInvalidVariable, PrintNode, PrintFunctionDecl, Visiting
    <3> QED BY <1>2, <2>1, <2>2, <2>3, <3>1 DEF PassesNext
  <2>4. CASE status = "check"
    <3>1. ~(CheckAssignment \/ CheckInvalidFunCall \/ CheckInvalidArrRef \/ PrintNode \/ PrintFunctionDecl)
      BY <2>4 DEF CheckAssignment, CheckInvalidFunCall, CheckInvalidArrRef, PrintNode, PrintFunctionDecl, Visiting
    <3> QED BY <1>2, <2>1, <2>2, <2>4, <3>1 DEF PassesNext
  <2>5. CASE status = "print"
    <3>1. ~(CheckAssignment \/ CheckInvalidFunCall \/ CheckInvalidArrRef \/ CheckInvalidVariable \/ VisitChildren)
      BY <2>5 DEF CheckAssignment, CheckInvalidFunCall, CheckInvalidArrRef, CheckInvalidVariable, VisitChildren, Visiting
    <3> QED BY <1>2, <2>1, <2>2, <2>5, <3>1 DEF PassesNext
  <2> QED BY <2>3, <2>4, <2>5
<1>3. ~TypesNext
  <2>1. TypesNext => (\E phase \in TypePhases : Begin(phase)) \/ status \in TypePhases
    BY TypeKinds DEF Working
  <2> QED BY <2>1 DEF Begin, TypePhases
<1>4. ~NoDecls
  BY DEF NoDecls
<1> QED BY <1>2, <1>3, <1>4 DEF Next, Terminated

-----------------------------------------------------------------------------
(* A pass that refuses what is in A and ends at a null pointer in C         *)

Here == [node |-> Top.node, path |-> Top.path]

Treats(A, C) ==
  \/ Now("visit") /\ Then(VisitAll(Top)) /\ Continue /\ Here \notin A \cup C
  \/ Now("visit") /\ Refuse /\ Here \in A
  \/ Now("visit") /\ Crash /\ Here \in C
  \/ EndOfPass \/ UNCHANGED vars

\* What is answered goes by what there is.
Rightly(how, A, C) ==
  \/ how = "true" /\ A = {} /\ C = {}
  \/ how = "assert" /\ A # {}
  \/ how = "crash" /\ C # {}

\* A pass that visits all and treats each node rightly answers rightly.
LEMMA PassKept ==
  ASSUME IInv, UnitOK, AnswersOK, [Next]_vars, decls_ # NoDeclarations,
         NEW phase \in {"sema", "check", "print"}, NEW All, NEW A \in SUBSET All, NEW C \in SUBSET All,
         status = phase => Covered(A \cup C, All, agenda),
         phase \in DOMAIN answers => Rightly(answers[phase], A, C),
         Begin(phase) => Covered(A \cup C, All, agenda'),
         status = phase /\ AllVisits(agenda) /\ (Now("visit") => Here \in All) => Treats(A, C)
  PROVE  /\ status' = phase => Covered(A \cup C, All, agenda')
         /\ phase \in DOMAIN answers' => Rightly(answers'[phase], A, C)
<1>1. phase \in Phases /\ phase # "idle" /\ phase # "stopped"
  BY DEF Phases
<1>2. status = phase => /\ AllVisits(agenda) /\ (Now("visit") => Here \in All)
                        /\ Now("visit") /\ Then(VisitAll(Top)) /\ Here \notin A \cup C => Covered(A \cup C, All, agenda')
  <2> SUFFICES ASSUME status = phase
               PROVE  /\ AllVisits(agenda)
                      /\ Now("visit") => /\ Here \in All
                                         /\ Then(VisitAll(Top)) /\ Here \notin A \cup C => Covered(A \cup C, All, agenda')
    OBVIOUS
  <2>1. Covered(A \cup C, All, agenda)
    OBVIOUS
  <2>2. AllVisits(agenda)
    BY <2>1 DEF Covered
  <2>3. ASSUME Now("visit")
        PROVE  /\ Here \in All
               /\ Then(VisitAll(Top)) /\ Here \notin A \cup C => Covered(A \cup C, All, agenda')
    <3> DEFINE W == A \cup C
    <3>1. Covered(W, All, agenda)
      BY <2>1
    <3> HIDE DEF W
    <3>2. Here \in All /\ (Then(VisitAll(Top)) /\ Here \notin W => Covered(W, All, agenda'))
      BY <2>3, <3>1, CoveredOn DEF Here
    <3> QED BY <3>2 DEF W
  <2> QED BY <2>2, <2>3
<1>3. status = phase => Treats(A, C)
  BY <1>2
<1>4. status' = phase => Covered(A \cup C, All, agenda')
  <2> SUFFICES ASSUME status' = phase PROVE Covered(A \cup C, All, agenda')
    OBVIOUS
  <2>1. CASE Begin(phase)
    BY <2>1
  <2>2. CASE status = phase
    <3>1. ~Refuse /\ ~Crash /\ ~EndOfPass
      BY <1>1 DEF Refuse, Crash, EndOfPass, Return, Answer
    <3>2. CASE UNCHANGED vars
      <4>1. agenda' = agenda
        BY <3>2 DEF vars, passVars
      <4> QED BY <2>2, <4>1
    <3> QED BY <1>2, <1>3, <2>2, <3>1, <3>2 DEF Treats
  <2> QED BY <1>1, <2>1, <2>2, AnswerKept
<1>5. phase \in DOMAIN answers' => Rightly(answers'[phase], A, C)
  <2> SUFFICES ASSUME phase \in DOMAIN answers' PROVE Rightly(answers'[phase], A, C)
    OBVIOUS
  <2>1. CASE phase \in DOMAIN answers
    <3>1. answers'[phase] = answers[phase]
      BY <1>1, <2>1, AnswerKept
    <3> QED BY <2>1, <3>1
  <2>2. CASE phase \notin DOMAIN answers
    <3>1. status = phase
      BY <1>1, <2>2, AnswerKept
    <3>2. ~Continue /\ ~UNCHANGED vars
      BY <2>2 DEF Continue, vars
    <3>3. CASE Refuse /\ Here \in A
      <4>1. answers'[phase] = "assert"
        BY <2>2, <3>1, <3>3, AnswerIs DEF Refuse
      <4> QED BY <3>3, <4>1 DEF Rightly
    <3>4. CASE Crash /\ Here \in C
      <4>1. answers'[phase] = "crash"
        BY <2>2, <3>1, <3>4, AnswerIs DEF Crash
      <4> QED BY <3>4, <4>1 DEF Rightly
    <3>5. CASE EndOfPass
      <4>1. answers'[phase] = "true"
        BY <2>2, <3>1, <3>5, AnswerIs DEF EndOfPass, Return
      <4>2. agenda = <<>>
        BY <3>5 DEF EndOfPass
      <4>3. \A x \in All : x \notin A \cup C
        <5> DEFINE W == A \cup C
        <5>1. Covered(W, All, agenda)
          BY <3>1
        <5> HIDE DEF W
        <5>2. \A x \in All : x \notin W
          BY <4>2, <5>1, CoveredNone
        <5> QED BY <5>2 DEF W
      <4>4. A = {} /\ C = {}
        BY <4>3
      <4> QED BY <4>1, <4>4 DEF Rightly
    <3> QED BY <1>3, <3>1, <3>2, <3>3, <3>4, <3>5 DEF Treats
  <2> QED BY <2>1, <2>2
<1> QED BY <1>4, <1>5

\* What is visited are the trees in some lists.
Lays(items, lists) == AllVisits(items) /\ TreesOf(items) = InLists(lists)

\* Visits of some lists, and of more behind them.
LEMMA ListsOf == ASSUME NEW S, NEW s, NEW T, NEW t, Lays(s, S), Lays(t, T) PROVE Lays(s \o t, S \cup T)
<1>1. AllVisits(s) /\ TreesOf(s) = InLists(S) /\ AllVisits(t) /\ TreesOf(t) = InLists(T)
  BY DEF Lays
<1>2. AllVisits(s \o t) /\ TreesOf(s \o t) = TreesOf(s) \cup TreesOf(t)
  <2>1. IsList(s) /\ IsList(t)
    BY <1>1 DEF AllVisits
  <2> QED BY <1>1, <2>1, TreesConcat, AllVisitsConcat, Zenon
<1>3. InLists(S \cup T) = InLists(S) \cup InLists(T)
  BY InListsUnion, Zenon
<1> QED BY <1>1, <1>2, <1>3, Zenon DEF Lays

\* Visits of one of the lists.
LEMMA OneList == ASSUME NEW list, decls_[list] \in Seq(Nodes) PROVE Lays(VisitList(list), {list})
BY TreesOfList DEF Lays

\* A pass begins with all there is.
LEMMA CoveredAll ==
  ASSUME NEW W, NEW All, NEW items, AllVisits(items), TreesOf(items) = All PROVE Covered(W, All, items)
BY DEF Covered

\* The lists of Declarations do not change.
LEMMA InListsKept == ASSUME decls_' = decls_, NEW lists PROVE InLists(lists)' = InLists(lists)
BY DEF InLists

-----------------------------------------------------------------------------
(* TypeChecker                                                              *)

TypedAll == InLists({"variables", "functions"})
Typed == {x \in TypedAll : x.node[1] \in {"VariableDecl", "Param"}}
Void == {x \in Typed : VoidType(TypeNodeOf(x.node))}
Dots == {x \in Typed : TypeNodeOf(x.node) = Null}

CheckGoes ==
  /\ status = "check" => Covered(Void \cup Dots, TypedAll, agenda)
  /\ Answered("check") => Rightly(answers["check"], Void, Dots)

\* A type is accepted just when it is not void, nor an array of void.
LEMMA VoidIs == ASSUME NEW type PROVE CheckInvalidVariableType(type) <=> ~VoidType(type)
BY DEF CheckInvalidVariableType, VoidType

\* TypeChecker treats a node by its type.
LEMMA CheckTreats ==
  ASSUME IInv, [Next]_vars, status = "check", AllVisits(agenda), Now("visit") => Here \in TypedAll
  PROVE  Treats(Void, Dots)
<1>1. CASE CheckInvalidVariable
  <2> DEFINE type == TypeNodeOf(Top.node)
  <2>1. /\ Now("visit") /\ Top.node[1] \in {"VariableDecl", "Param"}
        /\ IF type = Null THEN Crash /\ Stop ELSE Examine(CheckInvalidVariableType(type))
    BY <1>1 DEF CheckInvalidVariable, Visiting
  <2>2. Here \in Typed
    BY <2>1 DEF Typed, Here
  <2>3. (Here \in Void <=> VoidType(type)) /\ (Here \in Dots <=> type = Null)
    BY <2>2 DEF Void, Dots, Here
  <2>4. CheckInvalidVariableType(type) <=> ~VoidType(type)
    BY VoidIs
  <2> HIDE DEF type
  <2> QED BY <2>1, <2>3, <2>4 DEF Treats, Examine
<1>2. CASE VisitChildren
  <2>1. Now("visit") /\ Then(VisitAll(Top)) /\ Continue /\ Top.node[1] \notin {"VariableDecl", "Param"}
    BY <1>2 DEF VisitChildren, Overridden
  <2>2. Here \notin Void \cup Dots
    BY <2>1 DEF Void, Dots, Typed, Here
  <2> QED BY <2>1, <2>2 DEF Treats
<1>3. CASE EndOfPass \/ UNCHANGED vars
  BY <1>3 DEF Treats
<1> QED BY <1>1, <1>2, <1>3, VisitingSteps

\* TypeChecker begins with the variables and functions.
LEMMA CheckBegins ==
  ASSUME IInv, [Next]_vars, Begin("check") PROVE Covered(Void \cup Dots, TypedAll, agenda')
<1>1. TypeCheck
  BY BeginsAre
<1>2. agenda' = VisitList("variables") \o VisitList("functions")
  BY <1>1 DEF TypeCheck
<1>3. decls_["variables"] \in Seq(Nodes) /\ decls_["functions"] \in Seq(Nodes)
  BY DEF Begin, IInv, DeclsOK, Lists
<1>4. Lays(VisitList("variables"), {"variables"}) /\ Lays(VisitList("functions"), {"functions"})
  BY <1>3, OneList
<1>5. Lays(VisitList("variables") \o VisitList("functions"), {"variables"} \cup {"functions"})
  BY <1>4, ListsOf, Zenon
<1>6. {"variables"} \cup {"functions"} = {"variables", "functions"}
  OBVIOUS
<1>7. Lays(agenda', {"variables", "functions"})
  BY <1>2, <1>5, <1>6, Zenon
<1> QED BY <1>7, CoveredAll DEF Lays, TypedAll

\* Every step keeps that.
LEMMA CheckKept == ASSUME IInv, UnitOK, AnswersOK, CheckGoes, [Next]_vars PROVE CheckGoes'
<1>1. decls_' = decls_
  BY ControlOK
<1>2. TypedAll' = TypedAll
  BY <1>1, InListsKept DEF TypedAll
<1>3. Typed' = Typed
  BY <1>2 DEF Typed
<1>4. Void' = Void /\ Dots' = Dots
  BY <1>3 DEF Void, Dots
<1>5. CASE decls_ = NoDeclarations
  <2>1. AnswersOK'
    BY ControlOK
  <2>2. status' # "check"
    BY <1>1, <1>5, <2>1 DEF AnswersOK
  <2> QED BY <1>1, <1>5, <2>2 DEF CheckGoes, Answered
<1>6. CASE decls_ # NoDeclarations
  <2>1. Void \in SUBSET TypedAll /\ Dots \in SUBSET TypedAll
    BY DEF Void, Dots, Typed
  <2>2. /\ status = "check" => Covered(Void \cup Dots, TypedAll, agenda)
        /\ "check" \in DOMAIN answers => Rightly(answers["check"], Void, Dots)
    BY <1>6 DEF CheckGoes, Answered
  <2>3. Begin("check") => Covered(Void \cup Dots, TypedAll, agenda')
    BY CheckBegins
  <2>4. status = "check" /\ AllVisits(agenda) /\ (Now("visit") => Here \in TypedAll) => Treats(Void, Dots)
    BY CheckTreats
  <2>5. /\ status' = "check" => Covered(Void \cup Dots, TypedAll, agenda')
        /\ "check" \in DOMAIN answers' => Rightly(answers'["check"], Void, Dots)
    BY <1>6, <2>1, <2>2, <2>3, <2>4, PassKept
  <2>6. /\ status' = "check" => Covered(Void' \cup Dots', TypedAll', agenda')
        /\ Answered("check")' => Rightly(answers'["check"], Void', Dots')
    BY <1>2, <1>4, <2>5 DEF Answered
  <2> QED BY <2>6 DEF CheckGoes, Covered, Rightly
<1> QED BY <1>5, <1>6

\* That is CheckExact.
LEMMA CheckImplied == CheckGoes => CheckExact
<1> SUFFICES ASSUME Answered("check"), Rightly(answers["check"], Void, Dots)
             PROVE  \/ answers.check = "true" /\ ~(\E x \in Typed : VoidType(TypeNodeOf(x.node)))
                       /\ ~(\E x \in Typed : TypeNodeOf(x.node) = Null)
                    \/ answers.check = "assert" /\ \E x \in Typed : VoidType(TypeNodeOf(x.node))
                    \/ answers.check = "crash" /\ \E x \in Typed : TypeNodeOf(x.node) = Null
  BY DEF CheckGoes, CheckExact, Typed, TypedAll
<1>1. (Void # {} <=> \E x \in Typed : VoidType(TypeNodeOf(x.node))) /\ (Dots # {} <=> \E x \in Typed : TypeNodeOf(x.node) = Null)
  BY DEF Void, Dots
<1> QED BY <1>1 DEF Rightly

-----------------------------------------------------------------------------
(* ASTPrinter                                                               *)

Printed == InLists(Lists)
FunctionsIn == OfClass(Printed, "Function")

PrintGoes ==
  /\ status = "print" => Covered({} \cup FunctionsIn, Printed, agenda)
  /\ Answered("print") => Rightly(answers["print"], {}, FunctionsIn)

\* The printer gets over what is no function.
LEMMA PrintTreats ==
  ASSUME IInv, [Next]_vars, status = "print", AllVisits(agenda), Now("visit") => Here \in Printed
  PROVE  Treats({}, FunctionsIn)
<1>1. CASE PrintNode
  <2>1. Now("visit") /\ Then(VisitAll(Top)) /\ Continue /\ Top.node[1] # "Function"
    BY <1>1 DEF PrintNode
  <2>2. Here \notin FunctionsIn
    BY <2>1 DEF FunctionsIn, OfClass, Here
  <2> QED BY <2>1, <2>2 DEF Treats
<1>2. CASE PrintFunctionDecl
  <2>1. Now("visit") /\ Crash /\ Top.node[1] = "Function"
    BY <1>2 DEF PrintFunctionDecl, Visiting
  <2>2. Here \in FunctionsIn
    BY <2>1 DEF FunctionsIn, OfClass, Here
  <2> QED BY <2>1, <2>2 DEF Treats
<1>3. CASE EndOfPass \/ UNCHANGED vars
  BY <1>3 DEF Treats
<1> QED BY <1>1, <1>2, <1>3, VisitingSteps

\* The printer begins with all the lists.
LEMMA PrintBegins ==
  ASSUME IInv, [Next]_vars, Begin("print") PROVE Covered({} \cup FunctionsIn, Printed, agenda')
<1>1. PrintAST
  BY BeginsAre
<1>2. agenda' = VisitList("functions") \o VisitList("constants") \o VisitList("variables")
                  \o VisitList("records") \o VisitList("typedefs") \o VisitList("imports")
  BY <1>1 DEF PrintAST
<1>3. \A list \in Lists : decls_[list] \in Seq(Nodes)
  BY DEF Begin, IInv, DeclsOK
<1>4. \A list \in Lists : Lays(VisitList(list), {list})
  BY <1>3, OneList
<1>5. /\ Lays(VisitList("functions"), {"functions"}) /\ Lays(VisitList("constants"), {"constants"})
      /\ Lays(VisitList("variables"), {"variables"}) /\ Lays(VisitList("records"), {"records"})
      /\ Lays(VisitList("typedefs"), {"typedefs"}) /\ Lays(VisitList("imports"), {"imports"})
  BY <1>4 DEF Lists
<1>6. Lays(VisitList("functions") \o VisitList("constants"), {"functions"} \cup {"constants"})
  BY <1>5, ListsOf, Zenon
<1>7. Lays(VisitList("functions") \o VisitList("constants") \o VisitList("variables"),
           {"functions"} \cup {"constants"} \cup {"variables"})
  BY <1>5, <1>6, ListsOf, Zenon
<1>8. Lays(VisitList("functions") \o VisitList("constants") \o VisitList("variables") \o VisitList("records"),
           {"functions"} \cup {"constants"} \cup {"variables"} \cup {"records"})
  BY <1>5, <1>7, ListsOf, Zenon
<1>9. Lays(VisitList("functions") \o VisitList("constants") \o VisitList("variables") \o VisitList("records")
             \o VisitList("typedefs"),
           {"functions"} \cup {"constants"} \cup {"variables"} \cup {"records"} \cup {"typedefs"})
  BY <1>5, <1>8, ListsOf, Zenon
<1>10. Lays(VisitList("functions") \o VisitList("constants") \o VisitList("variables") \o VisitList("records")
              \o VisitList("typedefs") \o VisitList("imports"),
            {"functions"} \cup {"constants"} \cup {"variables"} \cup {"records"} \cup {"typedefs"} \cup {"imports"})
  BY <1>5, <1>9, ListsOf, Zenon
<1>11. {"functions"} \cup {"constants"} \cup {"variables"} \cup {"records"} \cup {"typedefs"} \cup {"imports"} = Lists
  BY DEF Lists
<1>12. Lays(agenda', Lists)
  BY <1>2, <1>10, <1>11, Zenon
<1> QED BY <1>12, CoveredAll DEF Lays, Printed

\* Every step keeps that.
LEMMA PrintKept == ASSUME IInv, UnitOK, AnswersOK, PrintGoes, [Next]_vars PROVE PrintGoes'
<1>1. decls_' = decls_
  BY ControlOK
<1>2. Printed' = Printed
  BY <1>1, InListsKept DEF Printed, Lists
<1>3. FunctionsIn' = FunctionsIn
  BY <1>2 DEF FunctionsIn, OfClass
<1>4. CASE decls_ = NoDeclarations
  <2>1. AnswersOK'
    BY ControlOK
  <2>2. status' # "print"
    BY <1>1, <1>4, <2>1 DEF AnswersOK
  <2> QED BY <1>1, <1>4, <2>2 DEF PrintGoes, Answered
<1>5. CASE decls_ # NoDeclarations
  <2>1. {} \in SUBSET Printed /\ FunctionsIn \in SUBSET Printed
    BY DEF FunctionsIn, OfClass
  <2>2. /\ status = "print" => Covered({} \cup FunctionsIn, Printed, agenda)
        /\ "print" \in DOMAIN answers => Rightly(answers["print"], {}, FunctionsIn)
    BY <1>5 DEF PrintGoes, Answered
  <2>3. Begin("print") => Covered({} \cup FunctionsIn, Printed, agenda')
    BY PrintBegins
  <2>4. status = "print" /\ AllVisits(agenda) /\ (Now("visit") => Here \in Printed) => Treats({}, FunctionsIn)
    BY PrintTreats
  <2>5. /\ status' = "print" => Covered({} \cup FunctionsIn, Printed, agenda')
        /\ "print" \in DOMAIN answers' => Rightly(answers'["print"], {}, FunctionsIn)
    BY <1>5, <2>1, <2>2, <2>3, <2>4, PassKept
  <2>6. /\ status' = "print" => Covered({} \cup FunctionsIn', Printed', agenda')
        /\ Answered("print")' => Rightly(answers'["print"], {}, FunctionsIn')
    BY <1>2, <1>3, <2>5 DEF Answered
  <2> QED BY <2>6 DEF PrintGoes, Covered, Rightly
<1> QED BY <1>4, <1>5

\* That, and what is known of a refused program, is PrintExact.
LEMMA PrintImplied == PrintGoes /\ RefusedOK => PrintExact
BY DEF PrintGoes, RefusedOK, PrintExact, FunctionsIn, Printed, Rightly, Answered

-----------------------------------------------------------------------------
(* Sema                                                                     *)

Wrong == {x \in Checked : WrongTarget(x) \/ WrongCall(x) \/ WrongArray(x)}
NoType == {x \in Checked : Untyped(x)}
NoArrays == \A x \in Checked : x.node[1] # "ArrayRef"

\* If Sema comes before the resolver, there must not be an array.
SemaGoes ==
  /\ status = "sema" => Covered(Wrong \cup NoType, Checked, agenda)
  /\ Answered("sema") => Rightly(answers["sema"], Wrong, NoType)
  /\ Answered("sema") /\ status = "resolve" => NoArrays
  /\ status # "resolve" /\ "resolve" \notin DOMAIN answers => DOMAIN bound = {}
  /\ decls_ # NoDeclarations /\ status # "stopped" => \A phase \in DOMAIN answers : answers[phase] = "true"

\* What an assignment is made to.
LEMMA TargetIs ==
  ASSUME NEW x, x.node \in Nodes, x.node[1] \in AssignClasses
  PROVE  WrongTarget(x) <=> ~IsAssignable(IF x.node[1] = "Assign" THEN x.node[2] ELSE x.node[3])
<1>1. (x.node[1] = "Assign" => Len(x.node) = 3) /\ (x.node[1] = "OpAssign" => Len(x.node) = 4)
  BY TreesAssumption, Zenon
<1>2. CASE x.node[1] = "Assign"
  <2>1. Len(x.node) - 1 = 2
    BY <1>1, <1>2
  <2>2. x.node[Len(x.node) - 1] = x.node[2]
    BY <2>1, Zenon
  <2> QED BY <1>2, <2>2 DEF WrongTarget
<1>3. CASE x.node[1] # "Assign"
  <2>1. x.node[1] = "OpAssign"
    BY <1>3 DEF AssignClasses
  <2>2. Len(x.node) - 1 = 3
    BY <1>1, <2>1
  <2>3. x.node[Len(x.node) - 1] = x.node[3]
    BY <2>2, Zenon
  <2> QED BY <1>3, <2>3 DEF WrongTarget
<1> QED BY <1>2, <1>3

\* Sema treats a node by what it is and by what it is made of.
LEMMA SemaTreats ==
  ASSUME IInv, [Next]_vars, status = "sema", AllVisits(agenda), Now("visit") => Here \in Checked /\ Top.node \in Nodes
  PROVE  Treats(Wrong, NoType)
<1>1. Here.node = Top.node /\ Here.path = Top.path
  BY DEF Here
<1>2. Now("visit") => /\ Here \in Wrong <=> WrongTarget(Here) \/ WrongCall(Here) \/ WrongArray(Here)
                      /\ Here \in NoType <=> Untyped(Here)
  BY DEF Wrong, NoType
<1>3. Top.node[1] \in AssignClasses => ~WrongCall(Here) /\ ~WrongArray(Here) /\ ~Untyped(Here)
  BY <1>1 DEF AssignClasses, WrongCall, WrongArray, Untyped
<1>4. Top.node[1] = "FuncCall" => ~WrongTarget(Here) /\ ~WrongArray(Here) /\ ~Untyped(Here)
  BY <1>1 DEF AssignClasses, WrongTarget, WrongArray, Untyped
<1>5. Top.node[1] = "ArrayRef" => ~WrongTarget(Here) /\ ~WrongCall(Here)
  BY <1>1 DEF AssignClasses, WrongTarget, WrongCall
<1>6. Top.node[1] \notin AssignClasses \cup {"FuncCall", "ArrayRef"} => ~WrongTarget(Here) /\ ~WrongCall(Here) /\ ~WrongArray(Here) /\ ~Untyped(Here)
  BY <1>1 DEF WrongTarget, WrongCall, WrongArray, Untyped
<1>7. CASE CheckAssignment
  <2> DEFINE ok == IsAssignable(IF Top.node[1] = "Assign" THEN Top.node[2] ELSE Top.node[3])
  <2>1. Now("visit") /\ Top.node[1] \in AssignClasses /\ Examine(ok)
    BY <1>7 DEF CheckAssignment, Visiting
  <2>2. WrongTarget(Here) <=> ~ok
    BY <1>1, <2>1, TargetIs
  <2> HIDE DEF ok
  <2> QED BY <1>2, <1>3, <2>1, <2>2 DEF Treats, Examine
<1>8. CASE CheckInvalidFunCall
  <2>1. Now("visit") /\ Top.node[1] = "FuncCall" /\ Examine(Top.node[2][1] = "Variable")
    BY <1>8 DEF CheckInvalidFunCall, Visiting
  <2>2. WrongCall(Here) <=> Top.node[2][1] # "Variable"
    BY <1>1, <2>1 DEF WrongCall
  <2> QED BY <1>2, <1>4, <2>1, <2>2 DEF Treats, Examine
<1>9. CASE CheckInvalidArrRef
  <2> DEFINE type == TypeOfName(Append(Top.path, 1))
  <2>1. /\ Now("visit") /\ Top.node[1] = "ArrayRef"
        /\ IF Top.node[2][1] = "Variable" /\ type = Null THEN Crash /\ Stop
           ELSE Examine(Top.node[2][1] = "Variable" /\ type[1] = "array")
    BY <1>9 DEF CheckInvalidArrRef, Visiting, TypeOfName
  <2>2. type = TypeOfName(Append(Here.path, 1))
    BY <1>1
  <2> HIDE DEF type
  <2>3. /\ WrongArray(Here) <=> Top.node[2][1] # "Variable" \/ (type # Null /\ type[1] # "array")
        /\ Untyped(Here) <=> Top.node[2][1] = "Variable" /\ type = Null
    BY <1>1, <2>1, <2>2 DEF WrongArray, Untyped
  <2>4. CASE Top.node[2][1] = "Variable" /\ type = Null
    <3>1. Crash /\ Untyped(Here)
      BY <2>1, <2>3, <2>4
    <3> QED BY <1>2, <2>1, <3>1 DEF Treats
  <2>5. CASE Top.node[2][1] = "Variable" /\ type # Null /\ type[1] = "array"
    <3>1. Examine(TRUE) /\ ~WrongArray(Here) /\ ~Untyped(Here)
      BY <2>1, <2>3, <2>5
    <3> QED BY <1>2, <1>5, <2>1, <3>1 DEF Treats, Examine
  <2>6. CASE Top.node[2][1] # "Variable" \/ (type # Null /\ type[1] # "array")
    <3>1. Examine(FALSE) /\ WrongArray(Here)
      BY <2>1, <2>3, <2>6
    <3> QED BY <1>2, <2>1, <3>1 DEF Treats, Examine
  <2> QED BY <2>4, <2>5, <2>6
<1>10. CASE VisitChildren
  <2>1. Now("visit") /\ Then(VisitAll(Top)) /\ Continue /\ Top.node[1] \notin AssignClasses \cup {"FuncCall", "ArrayRef"}
    BY <1>10 DEF VisitChildren, Overridden
  <2> QED BY <1>2, <1>6, <2>1 DEF Treats
<1>11. CASE EndOfPass \/ UNCHANGED vars
  BY <1>11 DEF Treats
<1> QED BY <1>7, <1>8, <1>9, <1>10, <1>11, VisitingSteps

\* Sema begins with all that may have an expression in it.
LEMMA SemaBegins ==
  ASSUME IInv, [Next]_vars, Begin("sema") PROVE Covered(Wrong \cup NoType, Checked, agenda')
<1>1. SemaCheck
  BY BeginsAre
<1>2. agenda' = VisitList("constants") \o VisitList("variables") \o VisitList("records") \o VisitList("functions")
  BY <1>1 DEF SemaCheck
<1>3. \A list \in Lists : decls_[list] \in Seq(Nodes)
  BY DEF Begin, IInv, DeclsOK
<1>4. \A list \in Lists : Lays(VisitList(list), {list})
  BY <1>3, OneList
<1>5. /\ Lays(VisitList("constants"), {"constants"}) /\ Lays(VisitList("variables"), {"variables"})
      /\ Lays(VisitList("records"), {"records"}) /\ Lays(VisitList("functions"), {"functions"})
  BY <1>4 DEF Lists
<1>6. Lays(VisitList("constants") \o VisitList("variables"), {"constants"} \cup {"variables"})
  BY <1>5, ListsOf, Zenon
<1>7. Lays(VisitList("constants") \o VisitList("variables") \o VisitList("records"),
           {"constants"} \cup {"variables"} \cup {"records"})
  BY <1>5, <1>6, ListsOf, Zenon
<1>8. Lays(VisitList("constants") \o VisitList("variables") \o VisitList("records") \o VisitList("functions"),
           {"constants"} \cup {"variables"} \cup {"records"} \cup {"functions"})
  BY <1>5, <1>7, ListsOf, Zenon
<1>9. {"constants"} \cup {"variables"} \cup {"records"} \cup {"functions"} = {"constants", "variables", "records", "functions"}
  OBVIOUS
<1>10. Lays(agenda', {"constants", "variables", "records", "functions"})
  BY <1>2, <1>8, <1>9, Zenon
<1> QED BY <1>10, CoveredAll DEF Lays, Checked

\* A name is bound by the resolver, when it comes to it.
LEMMA BoundKept ==
  ASSUME [Next]_vars PROVE bound' = bound \/ (status = "resolve" /\ status' \in {"resolve", "stopped"})
<1>1. CASE PassesNext
  <2>1. CASE ResolveVariable
    BY <2>1 DEF ResolveVariable, Visiting, Continue, Refuse, Answer
  <2>2. CASE ~ResolveVariable
    BY <1>1, <2>2 DEF PassesNext, ResolveLocalVariable, AddNamedDecl, ResolveBlock, ResolveFunctionDecl, LeaveScope,
       SemaCheck, CheckAssignment, CheckInvalidFunCall, CheckInvalidArrRef, TypeCheck, CheckInvalidVariable,
       PrintAST, PrintNode, PrintFunctionDecl, VisitChildren, EndOfPass, passVars
  <2> QED BY <2>1, <2>2
<1>2. CASE UNCHANGED passVars
  BY <1>2 DEF passVars
<1>3. CASE UNCHANGED vars
  BY <1>3 DEF vars, passVars
<1> QED BY <1>1, <1>2, <1>3 DEF Next, Terminated

\* All phases have answered true as long as none has stopped the program.
LEMMA TrueKept ==
  ASSUME IInv, AnswersOK, [Next]_vars, decls_ # NoDeclarations,
         status # "stopped" => \A phase \in DOMAIN answers : answers[phase] = "true"
  PROVE  status' # "stopped" => \A phase \in DOMAIN answers' : answers'[phase] = "true"
<1>1. CASE \E phase \in Phases : Begin(phase)
  BY <1>1 DEF Begin
<1>2. CASE Working(Phases) /\ ~Continue
  <2>1. status \in Phases /\ status \notin DOMAIN answers /\ status # "stopped"
    BY <1>2 DEF Working, AnswersOK, Phases
  <2>2. CASE Return
    <3>1. DOMAIN answers' = DOMAIN answers \cup {status} /\ answers'[status] = "true" /\ \A p \in DOMAIN answers : answers'[p] = answers[p]
      BY <2>1, <2>2, AnswerIs DEF Return
    <3> QED BY <2>1, <3>1
  <2>3. CASE Refuse \/ Crash
    BY <2>3 DEF Refuse, Crash, Answer
  <2> QED BY <1>2, <2>2, <2>3 DEF Working
<1>3. CASE Continue
  BY <1>3 DEF Continue
<1>4. ~NoDecls
  BY DEF NoDecls
<1> QED BY <1>1, <1>2, <1>3, <1>4, Kinds

\* Without arrays it does not matter what is bound.
LEMMA WithoutArrays ==
  ASSUME decls_' = decls_, NoArrays PROVE Checked' = Checked /\ Wrong' = Wrong /\ NoType' = NoType /\ NoArrays'
<1>1. Checked' = Checked
  BY InListsKept DEF Checked
<1>2. \A x \in Checked : ~WrongArray(x) /\ ~Untyped(x) /\ x.node[1] # "ArrayRef"
  BY DEF NoArrays, WrongArray, Untyped
<1>3. \A x \in Checked' : ~WrongArray(x)' /\ ~Untyped(x)'
  BY <1>1, <1>2 DEF WrongArray, Untyped
<1>4. Wrong = {x \in Checked : WrongTarget(x) \/ WrongCall(x)} /\ NoType = {}
  BY <1>2 DEF Wrong, NoType
<1>5. Wrong' = {x \in Checked' : WrongTarget(x) \/ WrongCall(x)} /\ NoType' = {}
  BY <1>3 DEF Wrong, NoType, WrongTarget, WrongCall
<1> QED BY <1>1, <1>2, <1>4, <1>5 DEF NoArrays

\* Nor does a step change what Sema finds that does not bind a name.
LEMMA SameBound ==
  ASSUME decls_' = decls_, bound' = bound PROVE Checked' = Checked /\ Wrong' = Wrong /\ NoType' = NoType
<1>1. Checked' = Checked
  BY InListsKept DEF Checked
<1>2. \A p : NodeAt(p)' = NodeAt(p)
  BY DEF NodeAt
<1>3. \A p : TypeOfName(p)' = TypeOfName(p)
  BY <1>2 DEF TypeOfName, TypeNodeOf
<1>4. \A x : (WrongArray(x)' <=> WrongArray(x)) /\ (Untyped(x)' <=> Untyped(x))
  BY <1>3 DEF WrongArray, Untyped
<1>5. \A x : (WrongTarget(x)' <=> WrongTarget(x)) /\ (WrongCall(x)' <=> WrongCall(x))
  BY DEF WrongTarget, WrongCall
<1> QED BY <1>1, <1>4, <1>5 DEF Wrong, NoType

\* A program with nothing bound has an array only if Sema does not accept it.
LEMMA NothingBound == ASSUME DOMAIN bound = {}, Wrong = {}, NoType = {} PROVE NoArrays
<1> SUFFICES ASSUME NEW x \in Checked, x.node[1] = "ArrayRef" PROVE FALSE
  BY DEF NoArrays
<1>1. ~WrongArray(x) /\ ~Untyped(x)
  BY DEF Wrong, NoType
<1>2. TypeOfName(Append(x.path, 1)) = Null
  BY DEF TypeOfName
<1> QED BY <1>1, <1>2 DEF WrongArray, Untyped

\* Every step keeps that.
LEMMA SemaKept == ASSUME IInv, UnitOK, AnswersOK, SemaGoes, [Next]_vars PROVE SemaGoes'
<1>1. decls_' = decls_ /\ AnswersOK'
  BY ControlOK
<1>2. "resolve" \in Phases /\ "sema" \in Phases
  BY DEF Phases
<1>3. status' # "resolve" /\ "resolve" \notin DOMAIN answers' => DOMAIN bound' = {}
  <2> SUFFICES ASSUME status' # "resolve", "resolve" \notin DOMAIN answers' PROVE DOMAIN bound' = {}
    OBVIOUS
  <2>1. "resolve" \notin DOMAIN answers
    BY <1>2, AnswerKept
  <2>2. status # "resolve"
    <3> SUFFICES ASSUME status = "resolve" PROVE FALSE
      OBVIOUS
    <3>1. ~(\E phase \in Phases : Begin(phase)) /\ ~NoDecls /\ ~Continue
      BY DEF Begin, NoDecls, Continue
    <3>2. Return \/ Refuse \/ Crash
      BY <3>1, Kinds DEF Working
    <3>3. \E next, how : Answer("resolve", next, how)
      BY <3>2 DEF Return, Refuse, Crash
    <3> QED BY <2>1, <3>3, AnswerIs
  <2>3. bound' = bound
    BY <2>2, BoundKept
  <2> QED BY <2>1, <2>2, <2>3 DEF SemaGoes
<1>4. CASE decls_ = NoDeclarations
  <2>1. status' # "sema"
    BY <1>1, <1>4 DEF AnswersOK
  <2> QED BY <1>1, <1>3, <1>4, <2>1 DEF SemaGoes, Answered
<1>5. CASE decls_ # NoDeclarations
  <2>1. status' # "stopped" => \A phase \in DOMAIN answers' : answers'[phase] = "true"
    BY <1>5, TrueKept DEF SemaGoes
  <2>2. Wrong \in SUBSET Checked /\ NoType \in SUBSET Checked
    BY DEF Wrong, NoType
  <2>3. /\ status = "sema" => Covered(Wrong \cup NoType, Checked, agenda)
        /\ "sema" \in DOMAIN answers => Rightly(answers["sema"], Wrong, NoType)
    BY <1>5 DEF SemaGoes, Answered
  <2>4. Begin("sema") => Covered(Wrong \cup NoType, Checked, agenda')
    BY SemaBegins
  <2>5. status = "sema" /\ AllVisits(agenda) /\ (Now("visit") => Here \in Checked) => Treats(Wrong, NoType)
    <3>1. AllVisits(agenda) /\ Now("visit") => Top.node \in Nodes
      <4>1. AllVisits(agenda) /\ Now("visit") => 1 \in 1..Len(agenda)
        BY ListProperties DEF AllVisits, Now
      <4> QED BY <4>1 DEF AllVisits, Top
    <3> QED BY <3>1, SemaTreats
  <2>6. /\ status' = "sema" => Covered(Wrong \cup NoType, Checked, agenda')
        /\ "sema" \in DOMAIN answers' => Rightly(answers'["sema"], Wrong, NoType)
    BY <1>5, <2>2, <2>3, <2>4, <2>5, PassKept
  <2>7. Answered("sema")' /\ status' = "resolve" => Answered("sema") /\ NoArrays
    <3> SUFFICES ASSUME Answered("sema")', status' = "resolve" PROVE Answered("sema") /\ NoArrays
      OBVIOUS
    <3>1. "sema" \in DOMAIN answers' /\ (status = "resolve" \/ Begin("resolve"))
      BY <1>2, AnswerKept DEF Answered
    <3>2. "sema" \in DOMAIN answers
      BY <1>2, <1>5, <3>1, AnswerKept DEF Begin
    <3>3. Answered("sema")
      BY <1>5, <3>2 DEF Answered
    <3>4. CASE Begin("resolve")
      <4>1. DOMAIN bound = {} /\ answers["sema"] = "true"
        BY <1>5, <3>2, <3>4 DEF Begin, SemaGoes
      <4>2. Wrong = {} /\ NoType = {}
        BY <2>3, <3>2, <4>1 DEF Rightly
      <4> QED BY <3>3, <4>1, <4>2, NothingBound
    <3> QED BY <3>1, <3>3, <3>4 DEF SemaGoes
  <2>8. CASE bound' = bound
    <3>1. Checked' = Checked /\ Wrong' = Wrong /\ NoType' = NoType
      BY <1>1, <2>8, SameBound
    <3>2. Answered("sema")' /\ status' = "resolve" => NoArrays'
      BY <2>7, <3>1 DEF NoArrays
    <3>3. /\ status' = "sema" => Covered(Wrong' \cup NoType', Checked', agenda')
          /\ Answered("sema")' => Rightly(answers'["sema"], Wrong', NoType')
      BY <2>6, <3>1 DEF Answered
    <3> QED BY <1>3, <2>1, <3>2, <3>3 DEF SemaGoes, Covered, Rightly
  <2>9. CASE bound' # bound
    <3>1. status = "resolve" /\ status' \in {"resolve", "stopped"}
      BY <2>9, BoundKept
    <3>2. Answered("sema")' => Answered("sema")
      BY <1>1, <1>2, <1>5, <3>1, AnswerKept DEF Answered
    <3>3. Answered("sema")' => NoArrays' /\ Rightly(answers'["sema"], Wrong', NoType')
      <4> SUFFICES ASSUME Answered("sema")' PROVE NoArrays' /\ Rightly(answers'["sema"], Wrong', NoType')
        OBVIOUS
      <4>1. NoArrays
        BY <3>1, <3>2 DEF SemaGoes
      <4>2. Wrong' = Wrong /\ NoType' = NoType /\ NoArrays'
        BY <1>1, <4>1, WithoutArrays
      <4> QED BY <2>6, <4>2 DEF Answered
    <3> QED BY <1>3, <2>1, <3>1, <3>3 DEF SemaGoes, Rightly
  <2> QED BY <2>8, <2>9
<1> QED BY <1>4, <1>5

\* That is SemaExact.
LEMMA SemaImplied == SemaGoes => SemaExact
<1> SUFFICES ASSUME Answered("sema"), Rightly(answers["sema"], Wrong, NoType)
             PROVE  \/ answers.sema = "true" /\ ~(\E x \in Checked : WrongTarget(x) \/ WrongCall(x) \/ WrongArray(x))
                       /\ ~(\E x \in Checked : Untyped(x))
                    \/ answers.sema = "assert" /\ \E x \in Checked : WrongTarget(x) \/ WrongCall(x) \/ WrongArray(x)
                    \/ answers.sema = "crash" /\ \E x \in Checked : Untyped(x)
  BY DEF SemaGoes, SemaExact
<1>1. /\ Wrong # {} <=> \E x \in Checked : WrongTarget(x) \/ WrongCall(x) \/ WrongArray(x)
      /\ NoType # {} <=> \E x \in Checked : Untyped(x)
  BY DEF Wrong, NoType
<1> QED BY <1>1 DEF Rightly

-----------------------------------------------------------------------------
(* Paths                                                                    *)

\* Lists are equal when their items are.
LEMMA SameList ==
  ASSUME NEW s, NEW t, IsList(s), IsList(t), Len(s) = Len(t), \A k \in 1..Len(s) : s[k] = t[k] PROVE s = t
<1>1. s \in Seq({s[k] : k \in 1..Len(s)}) /\ t \in Seq({t[k] : k \in 1..Len(t)})
  BY DEF IsList
<1>2. s = [k \in 1..Len(s) |-> s[k]] /\ t = [k \in 1..Len(t) |-> t[k]]
  BY <1>1
<1>3. [k \in 1..Len(s) |-> s[k]] = [k \in 1..Len(t) |-> t[k]]
  OBVIOUS
<1> QED BY <1>2, <1>3, Zenon

\* The first n items of a list.
LEMMA FirstItems ==
  ASSUME NEW s, IsList(s), NEW n \in 0..Len(s)
  PROVE  IsList(SubSeq(s, 1, n)) /\ Len(SubSeq(s, 1, n)) = n /\ \A k \in 1..n : SubSeq(s, 1, n)[k] = s[k]
<1> DEFINE S == {s[k] : k \in 1..Len(s)}
<1>1. s \in Seq(S) /\ Len(s) \in Nat
  BY DEF IsList
<1> HIDE DEF S
<1>2. n \in Nat /\ n <= Len(s)
  BY <1>1
<1>3. SubSeq(s, 1, n) \in Seq(S) /\ Len(SubSeq(s, 1, n)) = n
  <2>1. \A i \in 1..n : s[i] \in S
    BY <1>1, <1>2
  <2>2. SubSeq(s, 1, n) = [k \in 1..n |-> s[k]]
    BY <1>1, <1>2
  <2> QED BY <1>2, <2>1, <2>2
<1>4. \A k \in 1..n : SubSeq(s, 1, n)[k] = s[k]
  BY <1>1, <1>2
<1> QED BY <1>3, <1>4, ListOfSeq

IsPath(p) == IsList(p) /\ Len(p) >= 2

\* A path of one step more, and what is left without the last step.
LEMMA StepDown ==
  ASSUME NEW p, IsPath(p), NEW k
  PROVE  /\ IsPath(Append(p, k)) /\ Len(Append(p, k)) = Len(p) + 1 /\ Append(p, k)[Len(p) + 1] = k
         /\ Up(Append(p, k)) = p
         /\ \A n \in 0..Len(p) : SubSeq(Append(p, k), 1, n) = SubSeq(p, 1, n)
         /\ SubSeq(p, 1, Len(p)) = p
<1> DEFINE q == Append(p, k)
           n == Len(p)
<1>1. IsList(p) /\ n \in Nat /\ n >= 2
  BY DEF IsPath, IsList
<1>2. IsList(q) /\ Len(q) = n + 1 /\ q[n + 1] = k /\ \A i \in 1..n : q[i] = p[i]
  BY <1>1, AppendList
<1> HIDE DEF q
<1>3. ASSUME NEW m \in 0..n PROVE SubSeq(q, 1, m) = SubSeq(p, 1, m)
  <2>1. m \in 0..Len(q) /\ \A i \in 1..m : i \in 1..n
    BY <1>1, <1>2
  <2>2. IsList(SubSeq(q, 1, m)) /\ Len(SubSeq(q, 1, m)) = m /\ \A i \in 1..m : SubSeq(q, 1, m)[i] = q[i]
    BY <1>2, <2>1, FirstItems
  <2>3. IsList(SubSeq(p, 1, m)) /\ Len(SubSeq(p, 1, m)) = m /\ \A i \in 1..m : SubSeq(p, 1, m)[i] = p[i]
    BY <1>1, FirstItems
  <2>4. \A i \in 1..m : SubSeq(q, 1, m)[i] = SubSeq(p, 1, m)[i]
    BY <1>2, <2>1, <2>2, <2>3
  <2> QED BY <2>2, <2>3, <2>4, SameList
<1>4. SubSeq(p, 1, n) = p
  <2>1. n \in 0..n
    BY <1>1
  <2>2. IsList(SubSeq(p, 1, n)) /\ Len(SubSeq(p, 1, n)) = n /\ \A i \in 1..n : SubSeq(p, 1, n)[i] = p[i]
    BY <1>1, <2>1, FirstItems
  <2> QED BY <1>1, <2>2, SameList
<1>5. Up(q) = p
  <2>1. Len(q) - 1 = n /\ n \in 0..n
    BY <1>1, <1>2
  <2> QED BY <1>3, <1>4, <2>1 DEF Up
<1> QED BY <1>1, <1>2, <1>3, <1>4, <1>5 DEF q, IsPath

\* The shortest paths.
LEMMA ShortPath ==
  ASSUME NEW list, NEW i
  PROVE  /\ IsPath(<<list, i>>) /\ Len(<<list, i>>) = 2 /\ <<list, i>>[1] = list /\ <<list, i>>[2] = i
         /\ Append(<<list>>, i) = <<list, i>>
<1> DEFINE p == <<list, i>>
           l == <<list>>
<1>1. p \in Seq({list, i}) /\ Len(p) = 2 /\ p[1] = list /\ p[2] = i
  OBVIOUS
<1>2. l \in Seq({list}) /\ Len(l) = 1 /\ l[1] = list
  OBVIOUS
<1> HIDE DEF p, l
<1>3. IsList(p) /\ IsList(l)
  BY <1>1, <1>2, ListOfSeq
<1>4. IsPath(p)
  BY <1>1, <1>3 DEF IsPath
<1>5. Append(l, i) = p
  <2>1. IsList(Append(l, i)) /\ Len(Append(l, i)) = 2 /\ Append(l, i)[2] = i /\ Append(l, i)[1] = list
    <3>1. /\ IsList(Append(l, i)) /\ Len(Append(l, i)) = Len(l) + 1
          /\ Append(l, i)[Len(l) + 1] = i /\ \A k \in 1..Len(l) : Append(l, i)[k] = l[k]
      BY <1>3, AppendList
    <3> QED BY <1>2, <3>1
  <2>2. \A k \in 1..2 : k = 1 \/ k = 2
    OBVIOUS
  <2>3. \A k \in 1..Len(Append(l, i)) : Append(l, i)[k] = p[k]
    BY <1>1, <2>1, <2>2
  <2>4. Len(Append(l, i)) = Len(p)
    BY <1>1, <2>1
  <2> QED BY <1>3, <2>1, <2>3, <2>4, SameList
<1> QED BY <1>1, <1>4, <1>5 DEF p, l

Down(p) == CHOOSE f : f = [k \in 2..Len(p) |-> IF k = 2 THEN decls_[p[1]][p[2]] ELSE Children(f[k - 1])[p[k]]]

\* A path leads down step by step.
LEMMA DownIs ==
  ASSUME NEW p, IsPath(p)
  PROVE  /\ NodeAt(p) = Down(p)[Len(p)]
         /\ Down(p) = [k \in 2..Len(p) |-> IF k = 2 THEN decls_[p[1]][p[2]] ELSE Children(Down(p)[k - 1])[p[k]]]
<1> DEFINE a == decls_[p[1]][p[2]]
           Is(m, f) == f = [k \in 2..m |-> IF k = 2 THEN a ELSE Children(f[k - 1])[p[k]]]
           S == {m \in Nat : m >= 2 /\ ~ \E f : Is(m, f)}
<1>1. S = {}
  <2> SUFFICES ASSUME S # {} PROVE FALSE
    OBVIOUS
  <2>1. S \in SUBSET Nat
    OBVIOUS
  <2>2. PICK m \in S : \A y \in S : m <= y
    <3> HIDE DEF S
    <3> QED BY <2>1, Least
  <2>3. m \in Nat /\ m >= 2 /\ (~ \E f : Is(m, f)) /\ \A y \in Nat : y >= 2 /\ y < m => \E f : Is(y, f)
    <3>1. m \in Nat /\ m >= 2 /\ ~ \E f : Is(m, f)
      BY <2>2
    <3>2. \A y \in Nat : y < m => y \notin S
      <4>1. \A y \in S : m <= y /\ y \in Nat
        BY <2>2
      <4> HIDE DEF S
      <4> QED BY <3>1, <4>1
    <3> QED BY <3>1, <3>2
  <2> HIDE DEF a
  <2>4. CASE m = 2
    <3>1. Is(2, [k \in 2..2 |-> a])
      OBVIOUS
    <3> QED BY <2>3, <2>4, <3>1
  <2>5. CASE m # 2
    <3>1. m - 1 \in Nat /\ m - 1 < m /\ m - 1 >= 2
      BY <2>3, <2>5
    <3>2. PICK f : Is(m - 1, f)
      BY <2>3, <3>1
    <3> DEFINE g == [k \in 2..m |-> IF k = m THEN Children(f[m - 1])[p[m]] ELSE f[k]]
    <3>3. \A k \in 2..m : k = m \/ k \in 2..m - 1
      BY <3>1
    <3>4. \A k \in 2..m - 1 : k \in 2..m /\ k # m
      BY <3>1
    <3>5. \A k \in 2..m - 1 : f[k] = IF k = 2 THEN a ELSE Children(f[k - 1])[p[k]]
      BY <3>2, Zenon
    <3>6. ASSUME NEW k \in 2..m PROVE g[k] = IF k = 2 THEN a ELSE Children(g[k - 1])[p[k]]
      <4>1. CASE k = m
        <5>1. m - 1 \in 2..m /\ m - 1 # m
          BY <3>1
        <5>2. g[m - 1] = f[m - 1] /\ g[k] = Children(f[m - 1])[p[m]]
          BY <4>1, <5>1
        <5> QED BY <2>5, <4>1, <5>2
      <4>2. CASE k \in 2..m - 1 /\ k # 2
        <5>1. k - 1 \in 2..m - 1
          BY <3>1, <4>2
        <5>2. g[k] = f[k] /\ g[k - 1] = f[k - 1]
          BY <3>4, <4>2, <5>1
        <5> QED BY <3>5, <4>2, <5>2
      <4>3. CASE k \in 2..m - 1 /\ k = 2
        <5>1. g[k] = f[k]
          BY <3>4, <4>3
        <5> QED BY <3>5, <4>3, <5>1
      <4> QED BY <3>3, <4>1, <4>2, <4>3
    <3>7. g = [k \in 2..m |-> g[k]]
      OBVIOUS
    <3> HIDE DEF g
    <3>8. Is(m, g)
      BY <3>6, <3>7
    <3> QED BY <2>3, <3>8
  <2> QED BY <2>4, <2>5
<1>2. Len(p) \in Nat /\ Len(p) >= 2
  BY DEF IsPath, IsList
<1>3. \E f : Is(Len(p), f)
  <2>1. Len(p) \notin S
    BY <1>1, Zenon
  <2> QED BY <1>2, <2>1
<1>4. Down(p) = CHOOSE f : Is(Len(p), f)
  BY Zenon DEF Down
<1>5. NodeAt(p) = Down(p)[Len(p)]
  BY DEF NodeAt, Down
<1> HIDE DEF Is
<1>6. Is(Len(p), Down(p))
  BY <1>3, <1>4, Zenon
<1> QED BY <1>5, <1>6, Zenon DEF Is

\* To an item of a list of the Declarations.
LEMMA NodeAtRoot == ASSUME NEW list, NEW i PROVE NodeAt(<<list, i>>) = decls_[list][i]
<1> DEFINE p == <<list, i>>
<1>1. IsPath(p) /\ Len(p) = 2 /\ p[1] = list /\ p[2] = i
  BY ShortPath
<1> HIDE DEF p
<1>2. NodeAt(p) = Down(p)[2] /\ Down(p) = [k \in 2..2 |-> IF k = 2 THEN decls_[p[1]][p[2]] ELSE Children(Down(p)[k - 1])[p[k]]]
  BY <1>1, DownIs
<1>3. Down(p)[2] = decls_[p[1]][p[2]]
  BY <1>2
<1> QED BY <1>1, <1>2, <1>3 DEF p

\* And from there to the children.
LEMMA NodeAtChild == ASSUME NEW p, IsPath(p), NEW k PROVE NodeAt(Append(p, k)) = Children(NodeAt(p))[k]
<1> DEFINE q == Append(p, k)
           n == Len(p)
           f == Down(p)
           g == Down(q)
<1>1. IsPath(q) /\ Len(q) = n + 1 /\ q[n + 1] = k
  BY StepDown
<1>2. n \in Nat /\ n >= 2 /\ \A i \in 1..n : q[i] = p[i]
  BY AppendList DEF IsPath, IsList
<1>3. NodeAt(p) = f[n] /\ f = [j \in 2..n |-> IF j = 2 THEN decls_[p[1]][p[2]] ELSE Children(f[j - 1])[p[j]]]
  BY DownIs
<1>4. NodeAt(q) = g[n + 1] /\ g = [j \in 2..n + 1 |-> IF j = 2 THEN decls_[q[1]][q[2]] ELSE Children(g[j - 1])[q[j]]]
  <2> HIDE DEF q, n, g
  <2>1. NodeAt(q) = Down(q)[Len(q)] /\ Down(q) = [j \in 2..Len(q) |-> IF j = 2 THEN decls_[q[1]][q[2]] ELSE Children(Down(q)[j - 1])[q[j]]]
    BY <1>1, DownIs
  <2> QED BY <1>1, <2>1, Zenon DEF g
<1> HIDE DEF q, n, f, g
<1> DEFINE S == {j \in Nat : j \in 2..n /\ f[j] # g[j]}
<1>5. S = {}
  <2> SUFFICES ASSUME S # {} PROVE FALSE
    OBVIOUS
  <2>1. S \in SUBSET Nat
    OBVIOUS
  <2>2. PICK j \in S : \A y \in S : j <= y
    <3> HIDE DEF S
    <3> QED BY <2>1, Least
  <2>3. j \in Nat /\ j \in 2..n /\ j \in 2..n + 1 /\ j \in 1..n /\ f[j] # g[j] /\ 1 \in 1..n /\ 2 \in 1..n
    BY <1>2, <2>2
  <2>4. CASE j = 2
    <3>1. f[j] = decls_[p[1]][p[2]] /\ g[j] = decls_[q[1]][q[2]]
      BY <1>3, <1>4, <2>3, <2>4
    <3> QED BY <1>2, <2>3, <3>1
  <2>5. CASE j # 2
    <3>1. j - 1 \in 2..n /\ j - 1 < j /\ j - 1 \in Nat
      BY <1>2, <2>3, <2>5
    <3>2. j - 1 \notin S
      BY <2>2, <2>3, <3>1
    <3>3. f[j - 1] = g[j - 1]
      BY <3>1, <3>2
    <3>4. f[j] = Children(f[j - 1])[p[j]] /\ g[j] = Children(g[j - 1])[q[j]]
      BY <1>3, <1>4, <2>3, <2>5
    <3> QED BY <1>2, <2>3, <3>3, <3>4
  <2> QED BY <2>4, <2>5
<1>6. f[n] = g[n]
  <2>1. n \in Nat /\ n \in 2..n /\ n \notin S
    <3>1. n \notin S
      BY <1>5, Zenon
    <3> QED BY <1>2, <3>1
  <2> QED BY <2>1
<1>7. g[n + 1] = Children(g[n])[q[n + 1]]
  <2>1. n + 1 \in 2..n + 1 /\ n + 1 # 2 /\ (n + 1) - 1 = n
    BY <1>2
  <2> QED BY <1>4, <2>1
<1>8. NodeAt(q) = Children(NodeAt(p))[k]
  BY <1>1, <1>3, <1>4, <1>6, <1>7
<1> QED BY <1>8 DEF q

-----------------------------------------------------------------------------
(* Paths lead to their nodes                                                *)

\* n is where p leads, by way of nodes.
Placed(n, p) ==
  /\ n \in Nodes /\ IsPath(p) /\ NodeAt(p) = n
  /\ \A m \in 2..Len(p) : NodeAt(SubSeq(p, 1, m)) \in Nodes

ItemOK(i) ==
  /\ i.op = "visit" => Placed(i.node, i.path) /\ (i.called <=> Callee(i.path))
  /\ i.op = "declare" => Placed(i.node, i.path) /\ i.node[1] \in DeclClasses

ItemsOK(items) == IsList(items) /\ \A k \in 1..Len(items) : ItemOK(items[k])

\* A child is where its path says.
LEMMA ChildPlaced ==
  ASSUME NEW n, NEW p, Placed(n, p), NEW k \in DOMAIN Children(n)
  PROVE  /\ Placed(Children(n)[k], Append(p, k))
         /\ Callee(Append(p, k)) <=> n[1] = "FuncCall" /\ k = 1
<1>1. Children(n) \in Seq(Nodes) /\ IsPath(p) /\ NodeAt(p) = n
  BY TreesAssumption DEF Placed
<1>2. Children(n)[k] \in Nodes
  BY <1>1
<1>3. /\ IsPath(Append(p, k)) /\ Len(Append(p, k)) = Len(p) + 1
      /\ Append(p, k)[Len(p) + 1] = k /\ Up(Append(p, k)) = p
  BY <1>1, StepDown
<1>4. NodeAt(Append(p, k)) = Children(n)[k]
  BY <1>1, NodeAtChild
<1>5. Len(p) \in Nat /\ Len(p) >= 2
  BY <1>1 DEF IsPath, IsList
<1>6. Len(Append(p, k)) > 2
  BY <1>3, <1>5
<1>7. Callee(Append(p, k)) <=> k = 1 /\ n[1] = "FuncCall"
  <2> DEFINE q == Append(p, k)
  <2>1. Len(q) > 2 /\ q[Len(q)] = k /\ NodeAt(Up(q)) = n
    BY <1>1, <1>3, <1>6
  <2> HIDE DEF q
  <2>2. Callee(q) <=> k = 1 /\ n[1] = "FuncCall"
    BY <2>1 DEF Callee
  <2> QED BY <2>2 DEF q
<1>8. ASSUME NEW m \in 2..Len(Append(p, k)) PROVE NodeAt(SubSeq(Append(p, k), 1, m)) \in Nodes
  <2>1. CASE m = Len(p) + 1
    <3>1. SubSeq(Append(p, k), 1, Len(Append(p, k))) = Append(p, k)
      <4> DEFINE q == Append(p, k)
      <4>1. IsPath(q)
        BY <1>3
      <4> HIDE DEF q
      <4>2. SubSeq(q, 1, Len(q)) = q
        BY <4>1, StepDown
      <4> QED BY <4>2 DEF q
    <3> QED BY <1>2, <1>3, <1>4, <2>1, <3>1
  <2>2. CASE m # Len(p) + 1
    <3>1. m \in 0..Len(p) /\ m \in 2..Len(p)
      BY <1>3, <1>5, <2>2
    <3>2. SubSeq(Append(p, k), 1, m) = SubSeq(p, 1, m)
      BY <1>1, <3>1, StepDown
    <3> QED BY <3>1, <3>2 DEF Placed
  <2> QED BY <2>1, <2>2
<1> QED BY <1>2, <1>3, <1>4, <1>7, <1>8 DEF Placed

\* An item of a list of the Declarations too.
LEMMA RootPlaced ==
  ASSUME NEW list, decls_[list] \in Seq(Nodes), NEW i \in DOMAIN decls_[list]
  PROVE  Placed(decls_[list][i], <<list, i>>) /\ ~Callee(<<list, i>>)
<1>1. decls_[list][i] \in Nodes
  OBVIOUS
<1>2. IsPath(<<list, i>>) /\ Len(<<list, i>>) = 2
  BY ShortPath
<1>3. ~Callee(<<list, i>>)
  <2> DEFINE p == <<list, i>>
  <2>1. Len(p) = 2
    BY <1>2
  <2> HIDE DEF p
  <2>2. ~Callee(p)
    BY <2>1 DEF Callee
  <2> QED BY <2>2 DEF p
<1>4. \A m \in 2..Len(<<list, i>>) : NodeAt(SubSeq(<<list, i>>, 1, m)) = decls_[list][i]
  <2> DEFINE p == <<list, i>>
  <2>1. IsPath(p) /\ Len(p) = 2 /\ NodeAt(p) = decls_[list][i]
    BY <1>2, NodeAtRoot
  <2> HIDE DEF p
  <2>2. SubSeq(p, 1, Len(p)) = p
    BY <2>1, StepDown
  <2>3. \A m \in 2..Len(p) : m = Len(p)
    BY <2>1
  <2> QED BY <2>1, <2>2, <2>3 DEF p
<1> QED BY <1>1, <1>2, <1>3, <1>4, NodeAtRoot DEF Placed

\* What blocks and functions declare are their first children.
LEMMA LocalsAre ==
  ASSUME NEW n \in Nodes, n[1] \in {"Block", "Function"}
  PROVE  /\ Locals(n) \in Seq(Nodes)
         /\ \A k \in DOMAIN Locals(n) : /\ k \in DOMAIN Children(n) /\ Children(n)[k] = Locals(n)[k]
                                        /\ Locals(n)[k] \in Nodes /\ Locals(n)[k][1] \in DeclClasses
<1>1. CASE n[1] = "Block"
  <2> DEFINE s == n[2]
             t == n[3]
  <2>1. s \in Seq(Nodes) /\ t \in Seq(Nodes) /\ Locals(n) = s /\ Children(n) = s \o t
    <3>1. ~IsExprNode(n) /\ n[1] \notin DeclClasses
      BY <1>1 DEF IsExprNode, ExprClasses, LValueClasses, AssignClasses, OperatorClasses, UnaryClasses, LiteralClasses, DeclClasses
    <3>2. Children(n) = s \o t /\ Locals(n) = s
      BY <1>1, <3>1 DEF Children, StmtChildren, Locals
    <3> QED BY <1>1, <3>2, TreesAssumption
  <2>2. AreDecls(s)
    BY <1>1, DeclsAssumption
  <2> HIDE DEF s, t
  <2>3. \A k \in DOMAIN s : k \in DOMAIN (s \o t) /\ (s \o t)[k] = s[k]
    BY <2>1
  <2> QED BY <2>1, <2>2, <2>3 DEF AreDecls
<1>2. CASE n[1] = "Function"
  <2> DEFINE s == n[5]
             t == <<n[6]>>
  <2>1. s \in Seq(Nodes) /\ t \in Seq(Nodes) /\ Locals(n) = s /\ Children(n) = s \o t
    <3>1. ~IsExprNode(n) /\ n[1] \in DeclClasses /\ n[1] # "Block"
      BY <1>2 DEF IsExprNode, ExprClasses, LValueClasses, AssignClasses, OperatorClasses, UnaryClasses, LiteralClasses, DeclClasses
    <3>2. Children(n) = s \o t /\ Locals(n) = s
      BY <1>2, <3>1 DEF Children, DeclChildren, Locals
    <3> QED BY <1>2, <3>2, TreesAssumption
  <2>2. AreDecls(s)
    <3>1. AreParams(s)
      BY <1>2, DeclsAssumption
    <3> QED BY <3>1 DEF AreParams, AreDecls, DeclClasses
  <2> HIDE DEF s, t
  <2>3. \A k \in DOMAIN s : k \in DOMAIN (s \o t) /\ (s \o t)[k] = s[k]
    BY <2>1
  <2> QED BY <2>1, <2>2, <2>3 DEF AreDecls
<1> QED BY <1>1, <1>2

\* Items behind other items.
LEMMA ItemsConcat == ASSUME NEW s, NEW t, ItemsOK(s), ItemsOK(t) PROVE ItemsOK(s \o t)
<1> DEFINE n == Len(s)
           m == Len(t)
           st == s \o t
<1>1. /\ IsList(st) /\ Len(st) = n + m /\ n \in Nat /\ m \in Nat
      /\ \A k \in 1..n : st[k] = s[k]
      /\ \A k \in 1..m : st[k + n] = t[k]
  <2>1. IsList(s) /\ IsList(t)
    BY DEF ItemsOK
  <2>2. Len(s) \in Nat /\ Len(t) \in Nat
    BY <2>1 DEF IsList
  <2> QED BY <2>1, <2>2, ConcatList
<1>2. (\A k \in 1..n : ItemOK(s[k])) /\ (\A k \in 1..m : ItemOK(t[k]))
  BY DEF ItemsOK
<1> HIDE DEF n, m, st
<1>3. \A k \in 1..n + m : k \in 1..n \/ \E j \in 1..m : k = j + n
  <2> SUFFICES ASSUME NEW k \in 1..n + m, k \notin 1..n PROVE \E j \in 1..m : k = j + n
    OBVIOUS
  <2>1. k - n \in 1..m /\ k = (k - n) + n
    BY <1>1
  <2> QED BY <2>1
<1>4. \A k \in 1..n + m : ItemOK(st[k])
  <2> TAKE k \in 1..n + m
  <2>1. CASE k \in 1..n
    BY <1>1, <1>2, <2>1
  <2>2. ASSUME NEW j \in 1..m, k = j + n PROVE ItemOK(st[k])
    <3>1. st[k] = t[j]
      BY <1>1, <2>2
    <3> QED BY <1>2, <3>1
  <2> QED BY <1>3, <2>1, <2>2
<1>5. ItemsOK(st)
  BY <1>1, <1>4 DEF ItemsOK
<1> QED BY <1>5 DEF st

\* No items.
LEMMA ItemsNone == ItemsOK(<<>>)
<1> DEFINE none == <<>>
<1>1. IsList(none) /\ Len(none) = 0
  BY EmptyList
<1> HIDE DEF none
<1>2. \A k \in 1..Len(none) : FALSE
  BY <1>1
<1>3. ItemsOK(none)
  BY <1>1, <1>2 DEF ItemsOK
<1> QED BY <1>3 DEF none

\* A single item.
LEMMA ItemsOne == ASSUME NEW e, ItemOK(e) PROVE ItemsOK(<<e>>)
<1>1. <<e>> \in Seq({e}) /\ Len(<<e>>) = 1 /\ <<e>>[1] = e
  OBVIOUS
<1>2. IsList(<<e>>)
  BY <1>1, ListOfSeq
<1>3. \A k \in 1..Len(<<e>>) : k = 1
  BY <1>1
<1> QED BY <1>1, <1>2, <1>3 DEF ItemsOK

\* Items for the nodes of a list.
LEMMA ItemsMapped ==
  ASSUME NEW S, NEW list \in Seq(S), NEW items, DOMAIN items = DOMAIN list, items = [k \in DOMAIN list |-> items[k]],
         \A k \in DOMAIN list : ItemOK(items[k])
  PROVE  ItemsOK(items) /\ Len(items) = Len(list)
<1>1. DOMAIN list = 1..Len(list) /\ Len(list) \in Nat
  OBVIOUS
<1>2. IsList(items) /\ Len(items) = Len(list)
  BY <1>1, MappedList
<1> QED BY <1>1, <1>2 DEF ItemsOK

\* The visits of the children.
LEMMA ItemsOfChildren == ASSUME NEW item, Placed(item.node, item.path) PROVE ItemsOK(VisitAll(item))
<1> DEFINE ns == Children(item.node)
           items == VisitAll(item)
<1>1. ns \in Seq(Nodes)
  BY TreesAssumption DEF Placed
<1>2. DOMAIN items = DOMAIN ns /\ items = [k \in DOMAIN ns |-> items[k]]
  BY DEF VisitAll
<1>3. ASSUME NEW k \in DOMAIN ns PROVE ItemOK(items[k])
  <2>1. /\ items[k].op = "visit" /\ items[k].node = ns[k] /\ items[k].path = Append(item.path, k)
        /\ items[k].called <=> item.node[1] = "FuncCall" /\ k = 1
    BY DEF VisitAll, Visit
  <2>2. Placed(ns[k], Append(item.path, k)) /\ (Callee(Append(item.path, k)) <=> item.node[1] = "FuncCall" /\ k = 1)
    BY ChildPlaced
  <2> HIDE DEF ns, items
  <2> QED BY <2>1, <2>2 DEF ItemOK
<1> HIDE DEF ns, items
<1>4. ItemsOK(items)
  BY <1>1, <1>2, <1>3, ItemsMapped
<1> QED BY <1>4 DEF items

\* What a block or a function declares.
LEMMA ItemsOfLocals ==
  ASSUME NEW n, NEW p, Placed(n, p), n[1] \in {"Block", "Function"}
  PROVE  ItemsOK(DeclareAll(Locals(n), p)) /\ Len(DeclareAll(Locals(n), p)) = Len(Locals(n))
<1> DEFINE ns == Locals(n)
           items == DeclareAll(ns, p)
<1>1. ns \in Seq(Nodes)
  BY LocalsAre DEF Placed
<1>2. DOMAIN items = DOMAIN ns /\ items = [k \in DOMAIN ns |-> items[k]]
  BY DEF DeclareAll
<1>3. ASSUME NEW k \in DOMAIN ns PROVE ItemOK(items[k])
  <2>1. items[k].op = "declare" /\ items[k].node = ns[k] /\ items[k].path = Append(p, k)
    BY DEF DeclareAll, Declare
  <2>2. k \in DOMAIN Children(n) /\ Children(n)[k] = ns[k] /\ ns[k][1] \in DeclClasses
    BY LocalsAre DEF Placed
  <2>3. Placed(ns[k], Append(p, k))
    BY <2>2, ChildPlaced
  <2> HIDE DEF ns, items
  <2> QED BY <2>1, <2>2, <2>3 DEF ItemOK
<1> HIDE DEF ns, items
<1>4. ItemsOK(items) /\ Len(items) = Len(ns)
  BY <1>1, <1>2, <1>3, ItemsMapped
<1> QED BY <1>4 DEF items, ns

\* The declarations of the top level.
LEMMA ItemsOfGlobals ==
  ASSUME NEW list, decls_[list] \in Seq(Nodes), AreDecls(decls_[list])
  PROVE  ItemsOK(DeclareAll(decls_[list], <<list>>)) /\ Len(DeclareAll(decls_[list], <<list>>)) = Len(decls_[list])
<1> DEFINE ns == decls_[list]
           items == DeclareAll(ns, <<list>>)
<1>1. ns \in Seq(Nodes)
  OBVIOUS
<1>2. DOMAIN items = DOMAIN ns /\ items = [k \in DOMAIN ns |-> items[k]]
  BY DEF DeclareAll
<1>3. ASSUME NEW k \in DOMAIN ns PROVE ItemOK(items[k])
  <2>1. items[k].op = "declare" /\ items[k].node = ns[k] /\ items[k].path = Append(<<list>>, k)
    BY DEF DeclareAll, Declare
  <2>2. Append(<<list>>, k) = <<list, k>> /\ ns[k][1] \in DeclClasses
    BY ShortPath DEF AreDecls
  <2>3. Placed(ns[k], <<list, k>>)
    BY RootPlaced
  <2> HIDE DEF ns, items
  <2>4. Placed(ns[k], items[k].path)
    BY <2>1, <2>2, <2>3, Zenon
  <2> QED BY <2>1, <2>2, <2>4 DEF ItemOK
<1> HIDE DEF ns, items
<1>4. ItemsOK(items) /\ Len(items) = Len(ns)
  BY <1>1, <1>2, <1>3, ItemsMapped
<1> QED BY <1>4 DEF items, ns

\* The visits of a list of the Declarations, or of its first node.
LEMMA ItemsOfList ==
  ASSUME NEW list, decls_[list] \in Seq(Nodes)
  PROVE  ItemsOK(VisitList(list)) /\ ItemsOK(First(list))
<1> DEFINE ns == decls_[list]
           items == VisitList(list)
<1>1. ns \in Seq(Nodes)
  OBVIOUS
<1>2. DOMAIN items = DOMAIN ns /\ items = [k \in DOMAIN ns |-> items[k]]
  BY DEF VisitList
<1>3. ASSUME NEW k \in DOMAIN ns PROVE ItemOK(items[k])
  <2>1. items[k].op = "visit" /\ items[k].node = ns[k] /\ items[k].path = <<list, k>> /\ items[k].called = FALSE
    BY DEF VisitList, Visit
  <2>2. Placed(ns[k], <<list, k>>) /\ ~Callee(<<list, k>>)
    BY RootPlaced
  <2> HIDE DEF ns, items
  <2>3. Placed(items[k].node, items[k].path) /\ ~Callee(items[k].path)
    BY <2>1, <2>2, Zenon
  <2> QED BY <2>1, <2>3 DEF ItemOK
<1> HIDE DEF ns
<1>4. ItemsOK(items)
  <2> HIDE DEF items
  <2> QED BY <1>1, <1>2, <1>3, ItemsMapped
<1>5. First(list) = IF items = <<>> THEN <<>> ELSE <<items[1]>>
  BY DEF First
<1> HIDE DEF items
<1>6. ItemsOK(First(list))
  <2>1. CASE items = <<>>
    BY <1>5, <2>1, ItemsNone
  <2>2. CASE items # <<>>
    <3>1. 1 \in 1..Len(items)
      BY <1>4, <2>2, ListProperties DEF ItemsOK
    <3>2. ItemOK(items[1])
      BY <1>4, <3>1 DEF ItemsOK
    <3>3. ItemsOK(<<items[1]>>)
      BY <3>2, ItemsOne
    <3> QED BY <1>5, <2>2, <3>3
  <2> QED BY <2>1, <2>2
<1> QED BY <1>4, <1>6 DEF items

\* After a step.
LEMMA ItemsAfter ==
  ASSUME ItemsOK(agenda), agenda # <<>>, NEW items, ItemsOK(items), Then(items) PROVE ItemsOK(agenda')
<1> DEFINE t == Tail(agenda)
<1>1. IsList(t) /\ Len(t) = Len(agenda) - 1 /\ Len(agenda) \in Nat /\ \A k \in 1..Len(agenda) - 1 : t[k] = agenda[k + 1]
  BY TailList, ListProperties DEF ItemsOK
<1> HIDE DEF t
<1>2. \A k \in 1..Len(t) : ItemOK(t[k])
  <2> TAKE k \in 1..Len(t)
  <2>1. k + 1 \in 1..Len(agenda) /\ t[k] = agenda[k + 1]
    BY <1>1
  <2> QED BY <2>1 DEF ItemsOK
<1>3. ItemsOK(t)
  BY <1>1, <1>2 DEF ItemsOK
<1>4. agenda' = items \o t
  BY DEF Then, t
<1>5. ItemsOK(items \o t)
  BY <1>3, ItemsConcat
<1> QED BY <1>4, <1>5

\* As the lists of the Declarations do not change, paths lead where they led.
LEMMA PlacesKept ==
  ASSUME decls_' = decls_
  PROVE  /\ \A p : NodeAt(p)' = NodeAt(p)
         /\ \A n, p : Placed(n, p)' <=> Placed(n, p)
         /\ \A p : Callee(p)' <=> Callee(p)
         /\ \A i : ItemOK(i)' <=> ItemOK(i)
         /\ ItemsOK(agenda)' <=> ItemsOK(agenda')
<1>1. \A p : NodeAt(p)' = NodeAt(p)
  BY DEF NodeAt
<1>2. \A n, p : Placed(n, p)' <=> Placed(n, p)
  BY <1>1 DEF Placed
<1>3. \A p : Callee(p)' <=> Callee(p)
  BY <1>1 DEF Callee
<1>4. \A i : ItemOK(i)' <=> ItemOK(i)
  BY <1>2, <1>3 DEF ItemOK
<1>5. ItemsOK(agenda)' <=> ItemsOK(agenda')
  <2>1. \A k : NodeAt(agenda[k].path)' = NodeAt(agenda'[k].path)
    BY DEF NodeAt
  <2>2. \A k : NodeAt(Up(agenda[k].path))' = NodeAt(Up(agenda'[k].path))
    BY DEF NodeAt
  <2>3. \A k : Placed(agenda[k].node, agenda[k].path)' <=> Placed(agenda'[k].node, agenda'[k].path)
    <3>1. \A k, m : NodeAt(SubSeq(agenda[k].path, 1, m))' = NodeAt(SubSeq(agenda'[k].path, 1, m))
      BY DEF NodeAt
    <3> QED BY <2>1, <3>1 DEF Placed
  <2>4. \A k : Callee(agenda[k].path)' <=> Callee(agenda'[k].path)
    BY <2>2 DEF Callee
  <2>5. \A k : ItemOK(agenda[k])' <=> ItemOK(agenda'[k])
    BY <2>3, <2>4 DEF ItemOK
  <2> QED BY <2>5 DEF ItemsOK
<1> QED BY <1>1, <1>2, <1>3, <1>4, <1>5

-----------------------------------------------------------------------------
(* The search through the scopes                                            *)

LeastOf(S) == CHOOSE i \in S : \A j \in S : i <= j

\* f goes from scope s outwards to the first that has something in F.
Follows(f, F) ==
  f = [s \in 0..Len(scopes_) |->
         IF s = NoScope THEN Null
         ELSE IF F[s] # {} THEN scopes_[s].decls[LeastOf(F[s])].path ELSE f[scopes_[s].parent]]

\* There is a way outwards: parents are earlier scopes.
LEMMA WayOut == ASSUME ScopeTree, NEW F PROVE \E f : Follows(f, F)
<1> DEFINE N == Len(scopes_)
           up(s) == scopes_[s].parent
           e(s) == scopes_[s].decls[LeastOf(F[s])].path
           Is(m, f) == f = [s \in 0..m |-> IF s = 0 THEN Null ELSE IF F[s] # {} THEN e(s) ELSE f[up(s)]]
           S == {m \in Nat : m <= N /\ ~ \E f : Is(m, f)}
<1>1. N \in Nat /\ \A s \in 1..N : up(s) \in 0..s - 1
  BY ListProperties DEF ScopeTree
<1> HIDE DEF N, up, e
<1>2. S = {}
  <2> SUFFICES ASSUME S # {} PROVE FALSE
    OBVIOUS
  <2>1. S \in SUBSET Nat
    OBVIOUS
  <2>2. PICK m \in S : \A y \in S : m <= y
    <3> HIDE DEF S
    <3> QED BY <2>1, Least
  <2>3. m \in Nat /\ m <= N /\ (~ \E f : Is(m, f)) /\ \A y \in Nat : y < m => \E f : Is(y, f)
    <3>1. m \in Nat /\ m <= N /\ ~ \E f : Is(m, f)
      BY <2>2
    <3>2. \A y \in Nat : y < m => y \notin S /\ y <= N
      <4>1. \A y \in S : m <= y /\ y \in Nat
        BY <2>2
      <4> HIDE DEF S
      <4> QED BY <1>1, <3>1, <4>1
    <3> QED BY <3>1, <3>2
  <2>4. CASE m = 0
    <3>1. Is(0, [s \in 0..0 |-> Null])
      OBVIOUS
    <3> QED BY <2>3, <2>4, <3>1
  <2>5. CASE m # 0
    <3>1. m - 1 \in Nat /\ m - 1 < m
      BY <2>3, <2>5
    <3>2. PICK f : Is(m - 1, f)
      BY <2>3, <3>1
    <3> DEFINE g == [s \in 0..m |-> IF s = m THEN (IF F[m] # {} THEN e(m) ELSE f[up(m)]) ELSE f[s]]
    <3>3. \A s \in 0..m : s = m \/ s \in 0..m - 1
      BY <3>1
    <3>4. \A s \in 0..m - 1 : s \in 0..m /\ s # m
      BY <3>1
    <3>5. \A s \in 0..m - 1 : f[s] = IF s = 0 THEN Null ELSE IF F[s] # {} THEN e(s) ELSE f[up(s)]
      BY <3>2, Zenon
    <3>6. \A s \in 1..m : up(s) \in 0..m - 1
      <4> TAKE s \in 1..m
      <4>1. s \in 1..N /\ s - 1 <= m - 1
        BY <1>1, <2>3
      <4> QED BY <1>1, <4>1
    <3>7. ASSUME NEW s \in 0..m PROVE g[s] = IF s = 0 THEN Null ELSE IF F[s] # {} THEN e(s) ELSE g[up(s)]
      <4>1. CASE s = m
        <5>1. s # 0 /\ s \in 1..m
          BY <2>3, <2>5, <4>1
        <5>2. up(m) \in 0..m - 1
          BY <3>6, <4>1, <5>1
        <5>3. g[up(m)] = f[up(m)] /\ g[s] = IF F[m] # {} THEN e(m) ELSE f[up(m)]
          BY <3>4, <4>1, <5>2
        <5> QED BY <4>1, <5>1, <5>3
      <4>2. CASE s \in 0..m - 1 /\ s # 0
        <5>1. up(s) \in 0..m - 1
          <6>1. s \in 1..m
            BY <2>3, <4>2
          <6> QED BY <3>6, <6>1
        <5>2. g[s] = f[s] /\ g[up(s)] = f[up(s)]
          BY <3>4, <4>2, <5>1
        <5> QED BY <3>5, <4>2, <5>2
      <4>3. CASE s \in 0..m - 1 /\ s = 0
        <5>1. g[s] = f[s]
          BY <3>4, <4>3
        <5> QED BY <3>5, <4>3, <5>1
      <4> QED BY <3>3, <4>1, <4>2, <4>3
    <3>8. g = [s \in 0..m |-> g[s]]
      OBVIOUS
    <3> HIDE DEF g
    <3>9. Is(m, g)
      BY <3>7, <3>8
    <3> QED BY <2>3, <3>9
  <2> QED BY <2>4, <2>5
<1>3. \E f : Is(N, f)
  <2>1. N \notin S
    BY <1>2, Zenon
  <2>2. N \in Nat /\ N <= N
    BY <1>1
  <2> HIDE DEF Is
  <2> QED BY <2>1, <2>2
<1> QED BY <1>3 DEF Follows, NoScope, N, up, e

\* Whatever is right of the scopes on the way is right of what is found: G[s] are
\* the right answers for scope s.
LEMMA FoundRight ==
  ASSUME ScopeTree, NEW F, NEW f, Follows(f, F), NEW G,
         \A s \in 1..Len(scopes_) :
           /\ F[s] \subseteq Nat
           /\ F[s] # {} => \A i \in F[s] : (\A j \in F[s] : i <= j) => scopes_[s].decls[i].path \in G[s]
           /\ F[s] = {} /\ scopes_[s].parent = 0 => Null \in G[s]
           /\ F[s] = {} /\ scopes_[s].parent # 0 => G[scopes_[s].parent] \subseteq G[s]
  PROVE  f[currentScope_] \in G[currentScope_]
<1> DEFINE N == Len(scopes_)
           up(s) == scopes_[s].parent
           e(s, i) == scopes_[s].decls[i].path
<1>1. N \in Nat /\ currentScope_ \in 1..N /\ \A s \in 1..N : up(s) \in 0..s - 1
  BY ListProperties DEF ScopeTree
<1>2. \A s \in 0..N : f[s] = IF s = 0 THEN Null ELSE IF F[s] # {} THEN e(s, LeastOf(F[s])) ELSE f[up(s)]
  BY DEF Follows, NoScope
<1>3. \A s \in 1..N :
        /\ F[s] \subseteq Nat
        /\ F[s] # {} => \A i \in F[s] : (\A j \in F[s] : i <= j) => e(s, i) \in G[s]
        /\ F[s] = {} /\ up(s) = 0 => Null \in G[s]
        /\ F[s] = {} /\ up(s) # 0 => G[up(s)] \subseteq G[s]
  OBVIOUS
<1> HIDE DEF N, up, e
<1> DEFINE S == {s \in Nat : s \in 1..N /\ f[s] \notin G[s]}
<1>4. S = {}
  <2> SUFFICES ASSUME S # {} PROVE FALSE
    OBVIOUS
  <2>1. S \in SUBSET Nat
    OBVIOUS
  <2>2. PICK s \in S : \A y \in S : s <= y
    <3> HIDE DEF S
    <3> QED BY <2>1, Least
  <2>3. s \in 1..N /\ s \in 0..N /\ s # 0 /\ f[s] \notin G[s]
    BY <2>2
  <2>4. CASE F[s] # {}
    <3>1. F[s] \in SUBSET Nat
      BY <1>3, <2>3
    <3>2. \E i \in F[s] : \A j \in F[s] : i <= j
      BY <2>4, <3>1, Least
    <3>3. LeastOf(F[s]) \in F[s] /\ \A j \in F[s] : LeastOf(F[s]) <= j
      BY <3>2 DEF LeastOf
    <3> QED BY <1>2, <1>3, <2>3, <2>4, <3>3
  <2>5. CASE F[s] = {} /\ up(s) = 0
    <3>1. f[s] = f[0] /\ f[0] = Null
      BY <1>1, <1>2, <2>3, <2>5
    <3> QED BY <1>3, <2>3, <2>5, <3>1
  <2>6. CASE F[s] = {} /\ up(s) # 0
    <3>1. up(s) \in 1..N /\ up(s) < s /\ up(s) \in Nat
      BY <1>1, <2>3, <2>6
    <3>2. up(s) \notin S
      BY <2>2, <2>3, <3>1
    <3>3. f[up(s)] \in G[up(s)]
      BY <3>1, <3>2
    <3>4. f[s] = f[up(s)]
      BY <1>2, <2>3, <2>6
    <3> QED BY <1>3, <2>3, <2>6, <3>3, <3>4
  <2> QED BY <2>4, <2>5, <2>6
<1>5. currentScope_ \notin S /\ currentScope_ \in Nat
  <2>1. currentScope_ \notin S
    BY <1>4, Zenon
  <2> QED BY <1>1, <2>1
<1> QED BY <1>1, <1>5

\* The declarations of scope s that have the name, and are functions if a function is called.
Hit(s, name, called) ==
  {i \in Hits(s, name) : called => scopes_[s].decls[i].node[1] = "Function"}
HitsOf(name, called) == [s \in 1..Len(scopes_) |-> Hit(s, name, called)]

\* Both searches go outwards.
LEMMA SearchIs ==
  ASSUME ScopeTree, NEW name
  PROVE  /\ \E f : Follows(f, HitsOf(name, FALSE)) /\ FindDecl(name) = f[currentScope_]
         /\ \E f : Follows(f, HitsOf(name, TRUE)) /\ FindFuncDecl(name) = f[currentScope_]
<1>1. Len(scopes_) \in Nat
  BY ListProperties DEF ScopeTree
<1>2. \E f : Follows(f, HitsOf(name, FALSE)) /\ FindDecl(name) = f[currentScope_]
  <2> DEFINE h(s) == Hits(s, name)
             Is(f) == f = [s \in 0..Len(scopes_) |->
                             IF s = NoScope THEN Null
                             ELSE IF h(s) # {} THEN scopes_[s].decls[CHOOSE i \in h(s) : \A j \in h(s) : i <= j].path
                             ELSE f[scopes_[s].parent]]
             from == CHOOSE f : Is(f)
  <2>1. FindDecl(name) = from[currentScope_]
    BY DEF FindDecl, Search
  <2>2. \A s \in 1..Len(scopes_) : HitsOf(name, FALSE)[s] = h(s)
    BY DEF HitsOf, Hit
  <2> HIDE DEF h
  <2>3. \A f : Is(f) <=> Follows(f, HitsOf(name, FALSE))
    <3> TAKE f
    <3> DEFINE a(s) == IF s = NoScope THEN Null
                       ELSE IF h(s) # {} THEN scopes_[s].decls[CHOOSE i \in h(s) : \A j \in h(s) : i <= j].path
                       ELSE f[scopes_[s].parent]
               F == HitsOf(name, FALSE)
               b(s) == IF s = NoScope THEN Null
                       ELSE IF F[s] # {} THEN scopes_[s].decls[LeastOf(F[s])].path ELSE f[scopes_[s].parent]
    <3>1. ASSUME NEW s \in 0..Len(scopes_) PROVE a(s) = b(s)
      <4>1. CASE s = NoScope
        BY <4>1
      <4>2. CASE s # NoScope
        <5>1. s \in 1..Len(scopes_)
          BY <1>1, <4>2 DEF NoScope
        <5>2. F[s] = h(s)
          BY <2>2, <5>1
        <5> HIDE DEF F
        <5> QED BY <4>2, <5>2 DEF LeastOf
      <4> QED BY <4>1, <4>2
    <3>2. Is(f) <=> f = [s \in 0..Len(scopes_) |-> a(s)]
      OBVIOUS
    <3>3. Follows(f, F) <=> f = [s \in 0..Len(scopes_) |-> b(s)]
      BY DEF Follows
    <3> HIDE DEF a, b, F, Is
    <3>4. [s \in 0..Len(scopes_) |-> a(s)] = [s \in 0..Len(scopes_) |-> b(s)]
      BY <3>1
    <3> QED BY <3>2, <3>3, <3>4, Zenon DEF F
  <2>4. \E f : Is(f)
    BY <2>3, WayOut
  <2> HIDE DEF Is
  <2>5. Is(from)
    BY <2>4, Zenon
  <2> HIDE DEF from
  <2> QED BY <2>1, <2>3, <2>5
<1>3. \E f : Follows(f, HitsOf(name, TRUE)) /\ FindFuncDecl(name) = f[currentScope_]
  <2> DEFINE h(s) == {i \in Hits(s, name) : scopes_[s].decls[i].node[1] = "Function"}
             Is(f) == f = [s \in 0..Len(scopes_) |->
                             IF s = NoScope THEN Null
                             ELSE IF h(s) # {} THEN scopes_[s].decls[CHOOSE i \in h(s) : \A j \in h(s) : i <= j].path
                             ELSE f[scopes_[s].parent]]
             from == CHOOSE f : Is(f)
  <2>1. FindFuncDecl(name) = from[currentScope_]
    BY DEF FindFuncDecl, Search
  <2>2. \A s \in 1..Len(scopes_) : HitsOf(name, TRUE)[s] = h(s)
    BY DEF HitsOf, Hit
  <2> HIDE DEF h
  <2>3. \A f : Is(f) <=> Follows(f, HitsOf(name, TRUE))
    <3> TAKE f
    <3> DEFINE a(s) == IF s = NoScope THEN Null
                       ELSE IF h(s) # {} THEN scopes_[s].decls[CHOOSE i \in h(s) : \A j \in h(s) : i <= j].path
                       ELSE f[scopes_[s].parent]
               F == HitsOf(name, TRUE)
               b(s) == IF s = NoScope THEN Null
                       ELSE IF F[s] # {} THEN scopes_[s].decls[LeastOf(F[s])].path ELSE f[scopes_[s].parent]
    <3>1. ASSUME NEW s \in 0..Len(scopes_) PROVE a(s) = b(s)
      <4>1. CASE s = NoScope
        BY <4>1
      <4>2. CASE s # NoScope
        <5>1. s \in 1..Len(scopes_)
          BY <1>1, <4>2 DEF NoScope
        <5>2. F[s] = h(s)
          BY <2>2, <5>1
        <5> HIDE DEF F
        <5> QED BY <4>2, <5>2 DEF LeastOf
      <4> QED BY <4>1, <4>2
    <3>2. Is(f) <=> f = [s \in 0..Len(scopes_) |-> a(s)]
      OBVIOUS
    <3>3. Follows(f, F) <=> f = [s \in 0..Len(scopes_) |-> b(s)]
      BY DEF Follows
    <3> HIDE DEF a, b, F, Is
    <3>4. [s \in 0..Len(scopes_) |-> a(s)] = [s \in 0..Len(scopes_) |-> b(s)]
      BY <3>1
    <3> QED BY <3>2, <3>3, <3>4, Zenon DEF F
  <2>4. \E f : Is(f)
    BY <2>3, WayOut
  <2> HIDE DEF Is
  <2>5. Is(from)
    BY <2>4, Zenon
  <2> HIDE DEF from
  <2> QED BY <2>1, <2>3, <2>5
<1> QED BY <1>2, <1>3

-----------------------------------------------------------------------------
(* What a name means                                                        *)

Openers == {"Block", "Function"}

\* Between q and the end of p nothing opens a scope.
Encloses(q, p) ==
  /\ q = <<>> \/ (IsPath(q) /\ \E n \in 2..Len(p) - 1 : q = SubSeq(p, 1, n))
  /\ \A n \in 2..Len(p) - 1 : n > Len(q) => NodeAt(SubSeq(p, 1, n))[1] \notin Openers

\* q and what is around it.
Reach(q) == {<<>>} \cup {SubSeq(q, 1, n) : n \in 2..Len(q)}

DeclsFor(q) == IF q = <<>> THEN GlobalDecls ELSE LocalDecls(q)

Within(qs, name, called) ==
  {d \in UNION {DeclsFor(q) : q \in qs} : NameOf(d.node) = name /\ (called => d.node[1] = "Function")}

\* A path is not empty.
LEMMA PathNotEmpty == ASSUME NEW p, IsPath(p) PROVE p # <<>> /\ Len(p) \in Nat /\ Len(p) >= 2 /\ IsList(p)
<1>1. IsList(p) /\ Len(p) \in Nat /\ Len(p) >= 2
  BY DEF IsPath, IsList
<1>2. p = <<>> => Len(p) = 0
  BY EmptyList
<1> QED BY <1>1, <1>2

\* The beginning of a beginning.
LEMMA PrefixOfPrefix ==
  ASSUME NEW p, IsList(p), NEW n \in 0..Len(p), NEW m \in 0..n
  PROVE  SubSeq(SubSeq(p, 1, n), 1, m) = SubSeq(p, 1, m)
<1>1. Len(p) \in Nat /\ n \in Nat /\ m \in 0..Len(p)
  BY DEF IsList
<1> DEFINE q == SubSeq(p, 1, n)
<1>2. IsList(q) /\ Len(q) = n /\ \A k \in 1..n : q[k] = p[k]
  BY FirstItems
<1> HIDE DEF q
<1>3. m \in 0..Len(q)
  BY <1>2
<1>4. IsList(SubSeq(q, 1, m)) /\ Len(SubSeq(q, 1, m)) = m /\ \A k \in 1..m : SubSeq(q, 1, m)[k] = q[k]
  BY <1>2, <1>3, FirstItems
<1>5. IsList(SubSeq(p, 1, m)) /\ Len(SubSeq(p, 1, m)) = m /\ \A k \in 1..m : SubSeq(p, 1, m)[k] = p[k]
  BY <1>1, FirstItems
<1>6. \A k \in 1..m : k \in 1..n
  BY <1>1
<1>7. \A k \in 1..Len(SubSeq(q, 1, m)) : SubSeq(q, 1, m)[k] = SubSeq(p, 1, m)[k]
  BY <1>2, <1>4, <1>5, <1>6
<1>8. SubSeq(q, 1, m) = SubSeq(p, 1, m)
  BY <1>4, <1>5, <1>7, SameList
<1> QED BY <1>8 DEF q

\* A beginning of a path, of two steps at least, is one.
LEMMA PrefixIsPath ==
  ASSUME NEW p, IsPath(p), NEW n \in 2..Len(p)
  PROVE  IsPath(SubSeq(p, 1, n)) /\ Len(SubSeq(p, 1, n)) = n
<1>1. IsList(p) /\ n \in 0..Len(p) /\ n >= 2
  BY PathNotEmpty
<1> QED BY <1>1, FirstItems DEF IsPath

\* A path that is not a block's or a function's declares nothing.
LEMMA NothingDeclared == ASSUME NEW q, NodeAt(q)[1] \notin Openers PROVE LocalDecls(q) = {}
<1>1. Locals(NodeAt(q)) = <<>>
  BY DEF Locals, Openers
<1>2. DOMAIN <<>> = {}
  OBVIOUS
<1> QED BY <1>1, <1>2 DEF LocalDecls

\* Only what is enclosed by q, and around that, can be meant.
LEMMA EnclosedMeans ==
  ASSUME NEW p, IsPath(p), NEW q, Encloses(q, p), NEW name, NEW called
  PROVE  Within(Around(p), name, called) = Within(Reach(q), name, called)
<1>1. IsList(p) /\ Len(p) \in Nat /\ Len(p) >= 2
  BY PathNotEmpty
<1>2. q = <<>> => Len(q) = 0
  BY EmptyList
<1>3. q # <<>> => IsPath(q) /\ Len(q) \in Nat /\ Len(q) \in 2..Len(p) - 1 /\ q = SubSeq(p, 1, Len(q))
  <2> SUFFICES ASSUME q # <<>> PROVE IsPath(q) /\ Len(q) \in Nat /\ Len(q) \in 2..Len(p) - 1 /\ q = SubSeq(p, 1, Len(q))
    OBVIOUS
  <2>1. IsPath(q)
    BY DEF Encloses
  <2>2. PICK n \in 2..Len(p) - 1 : q = SubSeq(p, 1, n)
    BY DEF Encloses
  <2>3. n \in 0..Len(p)
    BY <1>1
  <2>4. Len(q) = n
    BY <1>1, <2>2, <2>3, FirstItems
  <2> QED BY <1>1, <2>1, <2>2, <2>4
<1>4. Len(q) \in Nat
  BY <1>2, <1>3
<1>5. Reach(q) \subseteq Around(p)
  <2> SUFFICES ASSUME NEW m \in 2..Len(q) PROVE SubSeq(q, 1, m) \in Around(p)
    BY DEF Reach, Around
  <2>1. q # <<>>
    BY <1>2
  <2>2. m \in 0..Len(q) /\ Len(q) \in 0..Len(p) /\ m \in 2..Len(p) - 1
    BY <1>1, <1>3, <2>1
  <2>3. SubSeq(SubSeq(p, 1, Len(q)), 1, m) = SubSeq(p, 1, m)
    BY <1>1, <2>2, PrefixOfPrefix
  <2>4. SubSeq(q, 1, m) = SubSeq(p, 1, m)
    BY <1>3, <2>1, <2>3
  <2> QED BY <2>2, <2>4 DEF Around
<1>6. ASSUME NEW r \in Around(p), DeclsFor(r) # {} PROVE r \in Reach(q)
  <2>1. CASE r = <<>>
    BY <2>1 DEF Reach
  <2>2. ASSUME NEW m \in 2..Len(p) - 1, r = SubSeq(p, 1, m) PROVE r \in Reach(q)
    <3>1. m \in 2..Len(p) /\ m \in Nat
      BY <1>1
    <3>2. IsPath(r) /\ r # <<>>
      BY <2>2, <3>1, PrefixIsPath, PathNotEmpty
    <3>3. LocalDecls(r) # {}
      BY <1>6, <3>2 DEF DeclsFor
    <3>4. ~(m > Len(q))
      <4> SUFFICES ASSUME m > Len(q) PROVE FALSE
        OBVIOUS
      <4>1. NodeAt(r)[1] \notin Openers
        BY <2>2 DEF Encloses
      <4> QED BY <3>3, <4>1, NothingDeclared
    <3>5. q # <<>>
      BY <1>2, <3>1, <3>4
    <3>6. m \in 2..Len(q) /\ m \in 0..Len(q) /\ Len(q) \in 0..Len(p)
      BY <1>1, <1>3, <1>4, <3>1, <3>4, <3>5
    <3>7. SubSeq(SubSeq(p, 1, Len(q)), 1, m) = SubSeq(p, 1, m)
      BY <1>1, <3>6, PrefixOfPrefix
    <3>8. r = SubSeq(q, 1, m)
      BY <1>3, <2>2, <3>5, <3>7
    <3> QED BY <3>6, <3>8 DEF Reach
  <2> QED BY <2>1, <2>2 DEF Around
<1>7. UNION {DeclsFor(r) : r \in Around(p)} = UNION {DeclsFor(r) : r \in Reach(q)}
  BY <1>5, <1>6
<1> QED BY <1>7 DEF Within

\* What is meant at q, and around it: declarations of q or what is meant in the scope around.
LEMMA ReachOn ==
  ASSUME NEW p, IsPath(p), NEW q, Encloses(q, p), NEW name, NEW called
  PROVE  Within(Reach(p), name, called) = Within({p}, name, called) \cup Within(Reach(q), name, called)
<1>1. IsList(p) /\ Len(p) \in Nat /\ Len(p) >= 2
  BY PathNotEmpty
<1>2. SubSeq(p, 1, Len(p)) = p
  BY StepDown
<1>3. Reach(p) = Around(p) \cup {p}
  <2>1. \A n : n \in 2..Len(p) <=> n \in 2..Len(p) - 1 \/ n = Len(p)
    BY <1>1
  <2> QED BY <1>2, <2>1 DEF Reach, Around
<1>4. Within(Reach(p), name, called) = Within({p}, name, called) \cup Within(Around(p), name, called)
  BY <1>3 DEF Within
<1> QED BY <1>4, EnclosedMeans

\* At the top level there are only the global declarations.
LEMMA ReachTop == ASSUME NEW name, NEW called PROVE Within(Reach(<<>>), name, called) = Within({<<>>}, name, called)
<1> DEFINE e == <<>>
<1>1. Len(e) = 0
  BY EmptyList
<1> HIDE DEF e
<1>2. Reach(e) = {<<>>}
  BY <1>1 DEF Reach
<1> QED BY <1>2 DEF e

\* A declaration is for the tree it is listed under.
LEMMA ExtentIs ==
  ASSUME NEW q, q = <<>> \/ IsPath(q), NEW d \in DeclsFor(q)
  PROVE  Extent(d) = q /\ Len(q) \in Nat /\ IsPath(d.path)
<1>1. CASE q = <<>>
  <2>0. PICK list \in {"functions", "constants", "variables"} :
          \E i \in DOMAIN decls_[list] : d = [node |-> decls_[list][i], path |-> <<list, i>>]
    BY <1>1 DEF DeclsFor, GlobalDecls
  <2>1. PICK i \in DOMAIN decls_[list] : d = [node |-> decls_[list][i], path |-> <<list, i>>]
    BY <2>0
  <2> DEFINE p == <<list, i>>
  <2>2. d.path = p /\ IsPath(p) /\ Len(p) = 2
    BY <2>1, ShortPath
  <2> HIDE DEF p
  <2>3. Extent(d) = <<>>
    BY <2>2 DEF Extent
  <2>4. Len(q) = 0
    BY <1>1, EmptyList
  <2> QED BY <1>1, <2>2, <2>3, <2>4
<1>2. CASE q # <<>>
  <2>1. IsPath(q) /\ Len(q) \in Nat /\ Len(q) >= 2
    BY <1>2, PathNotEmpty
  <2>2. PICK k \in DOMAIN Locals(NodeAt(q)) : d = [node |-> Locals(NodeAt(q))[k], path |-> Append(q, k)]
    BY <1>2 DEF DeclsFor, LocalDecls
  <2> DEFINE p == Append(q, k)
  <2>3. d.path = p /\ IsPath(p) /\ Len(p) = Len(q) + 1 /\ Up(p) = q
    BY <2>1, <2>2, StepDown
  <2> HIDE DEF p
  <2>4. Len(p) # 2
    BY <2>1, <2>3
  <2>5. Extent(d) = q
    BY <2>3, <2>4 DEF Extent
  <2> QED BY <2>1, <2>3, <2>5
<1> QED BY <1>1, <1>2

\* The right answer: the innermost of what is meant, if there is any.
Right(v, meant) ==
  IF meant = {} THEN v = Null
  ELSE \E d \in meant : d.path = v /\ \A c \in meant : Len(Extent(c)) <= Len(Extent(d))

\* Scopes hang in each other as blocks and functions do.
ScopesHang ==
  \A s \in 1..Len(scopes_) :
    /\ IsList(scopes_[s].decls)
    /\ scopes_[s].parent = 0 => scopes_[s].extent = <<>>
    /\ scopes_[s].parent # 0 => IsPath(scopes_[s].extent) /\ Encloses(scopes_[scopes_[s].parent].extent, scopes_[s].extent)

DeclsIn(s) == {scopes_[s].decls[i] : i \in DOMAIN scopes_[s].decls}

Filled == \A s \in 1..Len(scopes_) : DeclsIn(s) = DeclsFor(scopes_[s].extent)

\* What is meant in a tree is declared no further in.
LEMMA MeantNoFurther ==
  ASSUME NEW q, q = <<>> \/ IsPath(q), NEW name, NEW called, NEW c \in Within(Reach(q), name, called)
  PROVE  Len(Extent(c)) <= Len(q) /\ Len(Extent(c)) \in Nat /\ Len(q) \in Nat
<1>1. PICK r \in Reach(q) : c \in DeclsFor(r)
  BY DEF Within
<1>2. Len(q) \in Nat
  <2>1. q = <<>> => Len(q) = 0
    BY EmptyList
  <2> QED BY <2>1, PathNotEmpty
<1>3. CASE r = <<>>
  <2>1. Extent(c) = r /\ Len(r) = 0
    BY <1>1, <1>3, ExtentIs, EmptyList
  <2> QED BY <1>2, <2>1
<1>4. ASSUME NEW n \in 2..Len(q), r = SubSeq(q, 1, n) PROVE Len(Extent(c)) <= Len(q) /\ Len(Extent(c)) \in Nat
  <2>1. q # <<>>
    <3>1. q = <<>> => Len(q) = 0
      BY EmptyList
    <3> QED BY <1>2, <1>4, <3>1
  <2>2. IsPath(r) /\ Len(r) = n
    BY <1>4, <2>1, PrefixIsPath
  <2>3. Extent(c) = r
    BY <1>1, <2>2, ExtentIs
  <2> QED BY <1>2, <2>2, <2>3
<1> QED BY <1>1, <1>2, <1>3, <1>4 DEF Reach

\* The search finds the innermost declaration of a name, or of a function.
LEMMA FindRight ==
  ASSUME ScopeTree, ScopesHang, Filled, NEW name, NEW called, NEW f, Follows(f, HitsOf(name, called))
  PROVE  Right(f[currentScope_], Within(Reach(scopes_[currentScope_].extent), name, called))
<1> DEFINE N == Len(scopes_)
           E(s) == scopes_[s].extent
           M(s) == Within(Reach(E(s)), name, called)
           G == [s \in 1..N |-> {v \in {Null} \cup {d.path : d \in M(s)} : Right(v, M(s))}]
           F == HitsOf(name, called)
<1>1. N \in Nat /\ currentScope_ \in 1..N /\ \A s \in 1..N : scopes_[s].parent \in 0..s - 1
  BY ListProperties DEF ScopeTree
<1>2. ASSUME NEW s \in 1..N
      PROVE  /\ F[s] \subseteq Nat
             /\ F[s] # {} => \A i \in F[s] : (\A j \in F[s] : i <= j) => scopes_[s].decls[i].path \in G[s]
             /\ F[s] = {} /\ scopes_[s].parent = 0 => Null \in G[s]
             /\ F[s] = {} /\ scopes_[s].parent # 0 => G[scopes_[s].parent] \subseteq G[s]
  <2>1. /\ IsList(scopes_[s].decls)
        /\ scopes_[s].parent = 0 => E(s) = <<>>
        /\ scopes_[s].parent # 0 => IsPath(E(s)) /\ Encloses(E(scopes_[s].parent), E(s))
    BY DEF ScopesHang
  <2>2. E(s) = <<>> \/ IsPath(E(s))
    BY <2>1
  <2>3. DeclsIn(s) = DeclsFor(E(s))
    BY DEF Filled
  <2>4. F[s] = {i \in DOMAIN scopes_[s].decls : NameOf(scopes_[s].decls[i].node) = name /\ (called => scopes_[s].decls[i].node[1] = "Function")}
    BY DEF HitsOf, Hit, Hits
  <2>5. G[s] = {v \in {Null} \cup {d.path : d \in M(s)} : Right(v, M(s))}
    OBVIOUS
  <2>6. scopes_[s].parent # 0 => /\ scopes_[s].parent \in 1..N
                                 /\ G[scopes_[s].parent] = {v \in {Null} \cup {d.path : d \in M(scopes_[s].parent)} : Right(v, M(scopes_[s].parent))}
    <3> SUFFICES ASSUME scopes_[s].parent # 0
                 PROVE  /\ scopes_[s].parent \in 1..N
                        /\ G[scopes_[s].parent] = {v \in {Null} \cup {d.path : d \in M(scopes_[s].parent)} : Right(v, M(scopes_[s].parent))}
      OBVIOUS
    <3>1. scopes_[s].parent \in 1..N
      BY <1>1
    <3> QED BY <3>1
  <2>7. Within({E(s)}, name, called) = {d \in DeclsIn(s) : NameOf(d.node) = name /\ (called => d.node[1] = "Function")}
    BY <2>3 DEF Within
  <2>8. F[s] = {} => Within({E(s)}, name, called) = {}
    BY <2>4, <2>7 DEF DeclsIn
  <2> HIDE DEF F, G
  <2>9. F[s] \subseteq Nat
    <3>1. DOMAIN scopes_[s].decls \subseteq Nat
      BY <2>1, ListProperties
    <3> QED BY <2>4, <3>1
  <2>10. ASSUME NEW i \in F[s] PROVE scopes_[s].decls[i].path \in G[s]
    <3> DEFINE d == scopes_[s].decls[i]
    <3>1. d \in Within({E(s)}, name, called) /\ d \in DeclsFor(E(s))
      BY <2>3, <2>4, <2>7, <2>10 DEF DeclsIn
    <3>2. d \in M(s)
      <4>1. E(s) \in Reach(E(s))
        <5>1. CASE E(s) = <<>>
          BY <5>1 DEF Reach
        <5>2. CASE IsPath(E(s))
          <6>1. SubSeq(E(s), 1, Len(E(s))) = E(s) /\ Len(E(s)) \in 2..Len(E(s))
            BY <5>2, StepDown, PathNotEmpty
          <6> QED BY <6>1 DEF Reach
        <5> QED BY <2>2, <5>1, <5>2
      <4> QED BY <3>1, <4>1 DEF Within
    <3>3. Extent(d) = E(s)
      BY <2>2, <3>1, ExtentIs
    <3>4. \A c \in M(s) : Len(Extent(c)) <= Len(Extent(d))
      BY <2>2, <3>3, MeantNoFurther
    <3> HIDE DEF d, M
    <3>5. Right(d.path, M(s))
      BY <3>2, <3>4 DEF Right
    <3> QED BY <2>5, <3>2, <3>5 DEF d
  <2>11. ASSUME F[s] = {}, scopes_[s].parent = 0 PROVE Null \in G[s]
    <3>1. M(s) = {}
      BY <2>1, <2>8, <2>11, ReachTop
    <3> HIDE DEF M
    <3>2. Right(Null, M(s))
      BY <3>1 DEF Right
    <3> QED BY <2>5, <3>2
  <2>12. ASSUME F[s] = {}, scopes_[s].parent # 0 PROVE G[scopes_[s].parent] \subseteq G[s]
    <3>1. Within(Reach(E(s)), name, called) = Within({E(s)}, name, called) \cup Within(Reach(E(scopes_[s].parent)), name, called)
      <4>1. IsPath(E(s)) /\ Encloses(E(scopes_[s].parent), E(s))
        BY <2>1, <2>12
      <4> HIDE DEF E
      <4> QED BY <4>1, ReachOn
    <3>2. M(s) = M(scopes_[s].parent)
      BY <2>8, <2>12, <3>1
    <3> HIDE DEF M
    <3> QED BY <2>5, <2>6, <2>12, <3>2
  <2> QED BY <2>9, <2>10, <2>11, <2>12
<1>3. f[currentScope_] \in G[currentScope_]
  <2> HIDE DEF F, G
  <2>1. Follows(f, F)
    BY DEF F
  <2> QED BY <1>2, <2>1, FoundRight
<1>4. G[currentScope_] = {v \in {Null} \cup {d.path : d \in M(currentScope_)} : Right(v, M(currentScope_))}
  BY <1>1
<1> HIDE DEF G, M
<1>5. Right(f[currentScope_], M(currentScope_))
  BY <1>3, <1>4
<1> QED BY <1>5 DEF M

\* So it does for the node that is visited.
LEMMA ResolvedRight ==
  ASSUME ScopeTree, ScopesHang, Filled, NEW name, NEW p, IsPath(p), NEW called, called <=> Callee(p),
         Encloses(scopes_[currentScope_].extent, p)
  PROVE  Right(IF called THEN FindFuncDecl(name) ELSE FindDecl(name), Meant(name, p))
<1> DEFINE q == scopes_[currentScope_].extent
<1>1. Meant(name, p) = Within(Around(p), name, Callee(p))
  BY DEF Meant, Within, DeclsFor
<1>2. Within(Around(p), name, Callee(p)) = Within(Reach(q), name, Callee(p))
  <2> HIDE DEF q
  <2>1. Encloses(q, p)
    BY DEF q
  <2> QED BY <2>1, EnclosedMeans
<1>3. CASE called
  <2>1. Within(Reach(q), name, Callee(p)) = Within(Reach(q), name, TRUE)
    BY <1>3 DEF Within
  <2>2. PICK f : Follows(f, HitsOf(name, TRUE)) /\ FindFuncDecl(name) = f[currentScope_]
    BY SearchIs
  <2>3. Right(f[currentScope_], Within(Reach(q), name, TRUE))
    BY <2>2, FindRight
  <2> HIDE DEF q
  <2>4. Right(FindFuncDecl(name), Meant(name, p))
    BY <1>1, <1>2, <2>1, <2>2, <2>3
  <2> QED BY <1>3, <2>4
<1>4. CASE ~called
  <2>1. Within(Reach(q), name, Callee(p)) = Within(Reach(q), name, FALSE)
    BY <1>4 DEF Within
  <2>2. PICK f : Follows(f, HitsOf(name, FALSE)) /\ FindDecl(name) = f[currentScope_]
    BY SearchIs
  <2>3. Right(f[currentScope_], Within(Reach(q), name, FALSE))
    BY <2>2, FindRight
  <2> HIDE DEF q
  <2>4. Right(FindDecl(name), Meant(name, p))
    BY <1>1, <1>2, <2>1, <2>2, <2>3
  <2> QED BY <1>4, <2>4
<1> QED BY <1>3, <1>4

-----------------------------------------------------------------------------
(* From which scope the agenda is visited                                   *)

\* It does not matter which of three lists are put together first.
LEMMA ConcatAssoc ==
  ASSUME NEW s, NEW t, NEW u, IsList(s), IsList(t), IsList(u) PROVE (s \o t) \o u = s \o (t \o u)
<1> DEFINE A == {s[k] : k \in 1..Len(s)}
           B == {t[k] : k \in 1..Len(t)}
           C == {u[k] : k \in 1..Len(u)}
           D == A \cup B \cup C
<1>1. s \in Seq(A) /\ t \in Seq(B) /\ u \in Seq(C)
  BY DEF IsList
<1> HIDE DEF A, B, C
<1>2. s \in Seq(D) /\ t \in Seq(D) /\ u \in Seq(D)
  BY <1>1
<1> HIDE DEF D
<1> QED BY <1>2

\* The item at k is visited from c if nothing before it leaves a scope, or from
\* where the last pop before it leads to; x has the extents of the scopes.
FitsAt(items, k, c, x) ==
  /\ (\A j \in 1..k - 1 : items[j].op # "pop") => Encloses(x[c], items[k].path)
  /\ \A j \in 1..k - 1 :
       items[j].op = "pop" /\ (\A i \in 1..k - 1 : j < i => items[i].op # "pop") => Encloses(x[items[j].outer], items[k].path)

Fits(items, c, x) == \A k \in 1..Len(items) : items[k].op = "visit" => FitsAt(items, k, c, x)

\* Visits from the current scope, in front of the others.
LEMMA FitsConcat ==
  ASSUME NEW s, NEW t, IsList(s), IsList(t), NEW c, NEW x, Fits(t, c, x),
         \A k \in 1..Len(s) : s[k].op # "pop" /\ (s[k].op = "visit" => Encloses(x[c], s[k].path))
  PROVE  Fits(s \o t, c, x)
<1> DEFINE u == s \o t
           n == Len(s)
           m == Len(t)
<1>1. /\ IsList(u) /\ Len(u) = n + m /\ n \in Nat /\ m \in Nat
      /\ \A k \in 1..n : u[k] = s[k]
      /\ \A k \in 1..m : u[k + n] = t[k]
  BY ConcatList, ListProperties
<1> HIDE DEF u, n, m
<1> SUFFICES ASSUME NEW k \in 1..n + m, u[k].op = "visit" PROVE FitsAt(u, k, c, x)
  <2>1. \A k \in 1..Len(u) : u[k].op = "visit" => FitsAt(u, k, c, x)
    BY <1>1
  <2> QED BY <2>1 DEF Fits, u
<1>2. CASE k \in 1..n
  <2>1. \A j \in 1..k - 1 : u[j] = s[j] /\ u[j].op # "pop"
    BY <1>1, <1>2 DEF n
  <2>2. Encloses(x[c], u[k].path)
    <3>1. u[k] = s[k]
      BY <1>1, <1>2
    <3> QED BY <1>2, <3>1 DEF n
  <2> QED BY <2>1, <2>2 DEF FitsAt
<1>3. ASSUME NEW h \in 1..m, k = h + n PROVE FitsAt(u, k, c, x)
  <2>1. u[k] = t[h] /\ FitsAt(t, h, c, x)
    <3>1. u[k] = t[h]
      BY <1>1, <1>3
    <3>2. t[h].op = "visit"
      BY <3>1
    <3> QED BY <3>1, <3>2 DEF Fits, m
  <2>2. \A j \in 1..n : u[j].op # "pop"
    BY <1>1 DEF n
  <2>3. \A j \in 1..h - 1 : j + n \in 1..k - 1 /\ u[j + n] = t[j]
    BY <1>1, <1>3
  <2>4. ASSUME \A j \in 1..k - 1 : u[j].op # "pop" PROVE Encloses(x[c], u[k].path)
    <3>1. \A j \in 1..h - 1 : t[j].op # "pop"
      BY <2>3, <2>4
    <3> QED BY <2>1, <3>1 DEF FitsAt
  <2>5. ASSUME NEW j \in 1..k - 1, u[j].op = "pop", \A i \in 1..k - 1 : j < i => u[i].op # "pop"
        PROVE  Encloses(x[u[j].outer], u[k].path)
    <3>1. j \notin 1..n
      BY <2>2, <2>5
    <3>2. j - n \in 1..h - 1 /\ (j - n) + n = j
      BY <1>1, <1>3, <3>1
    <3>3. u[j] = t[j - n]
      BY <2>3, <3>2
    <3>4. \A i \in 1..h - 1 : j - n < i => t[i].op # "pop"
      <4> TAKE i \in 1..h - 1
      <4>1. j - n < i => j < i + n
        BY <1>1, <3>2
      <4> QED BY <2>3, <2>5, <4>1
    <3> QED BY <2>1, <2>5, <3>2, <3>3, <3>4 DEF FitsAt
  <2> QED BY <2>4, <2>5 DEF FitsAt
<1>4. k \in 1..n \/ \E h \in 1..m : k = h + n
  <2>1. k \notin 1..n => k - n \in 1..m /\ k = (k - n) + n
    BY <1>1
  <2> QED BY <2>1
<1> QED BY <1>2, <1>3, <1>4

\* Behind a pop that leads to c, things are visited from c.
LEMMA FitsPop ==
  ASSUME NEW t, IsList(t), NEW c, NEW x, Fits(t, c, x), NEW e, e.op = "pop", e.outer = c, NEW d
  PROVE  Fits(<<e>> \o t, d, x)
<1> DEFINE o == <<e>>
           u == o \o t
           m == Len(t)
<1>1. o \in Seq({e}) /\ Len(o) = 1 /\ o[1] = e
  OBVIOUS
<1> HIDE DEF o
<1>2. IsList(o)
  BY <1>1, ListOfSeq
<1>3. /\ IsList(u) /\ Len(u) = m + 1 /\ m \in Nat
      /\ u[1] = e
      /\ \A k \in 1..m : u[k + 1] = t[k]
  <2>1. /\ IsList(u) /\ Len(u) = Len(o) + m
        /\ \A k \in 1..Len(o) : u[k] = o[k]
        /\ \A k \in 1..m : u[k + Len(o)] = t[k]
    BY <1>2, ConcatList
  <2>2. m \in Nat
    BY ListProperties
  <2> HIDE DEF u, m
  <2> QED BY <1>1, <2>1, <2>2
<1> HIDE DEF u, m
<1> SUFFICES ASSUME NEW k \in 1..m + 1, u[k].op = "visit" PROVE FitsAt(u, k, d, x)
  <2>1. \A k \in 1..Len(u) : u[k].op = "visit" => FitsAt(u, k, d, x)
    BY <1>3
  <2> QED BY <2>1 DEF Fits, u, o
<1>4. k # 1 /\ k - 1 \in 1..m /\ (k - 1) + 1 = k /\ 1 \in 1..k - 1
  <2>1. k # 1
    BY <1>3
  <2> QED BY <1>3, <2>1
<1>5. u[k] = t[k - 1] /\ FitsAt(t, k - 1, c, x)
  <2>1. u[k] = t[k - 1]
    BY <1>3, <1>4
  <2> QED BY <1>4, <2>1 DEF Fits, m
<1>6. \A j \in 1..(k - 1) - 1 : j + 1 \in 1..k - 1 /\ u[j + 1] = t[j]
  BY <1>3, <1>4
<1>7. ~ \A j \in 1..k - 1 : u[j].op # "pop"
  BY <1>3, <1>4
<1>8. ASSUME NEW j \in 1..k - 1, u[j].op = "pop", \A i \in 1..k - 1 : j < i => u[i].op # "pop"
      PROVE  Encloses(x[u[j].outer], u[k].path)
  <2>1. CASE j = 1
    <3>1. \A i \in 1..(k - 1) - 1 : t[i].op # "pop"
      <4> TAKE i \in 1..(k - 1) - 1
      <4>1. j < i + 1
        BY <2>1
      <4> QED BY <1>6, <1>8, <4>1
    <3>2. Encloses(x[c], t[k - 1].path)
      BY <1>5, <3>1 DEF FitsAt
    <3> QED BY <1>3, <1>5, <2>1, <3>2
  <2>2. CASE j # 1
    <3>1. j - 1 \in 1..(k - 1) - 1 /\ (j - 1) + 1 = j
      BY <1>4, <2>2
    <3>2. u[j] = t[j - 1]
      BY <1>6, <3>1
    <3>3. \A i \in 1..(k - 1) - 1 : j - 1 < i => t[i].op # "pop"
      <4> TAKE i \in 1..(k - 1) - 1
      <4>1. j - 1 < i => j < i + 1
        BY <3>1
      <4> QED BY <1>6, <1>8, <4>1
    <3> QED BY <1>5, <1>8, <3>1, <3>2, <3>3 DEF FitsAt
  <2> QED BY <2>1, <2>2
<1> QED BY <1>7, <1>8 DEF FitsAt

\* The first item is done; if it is a pop, a scope has been left.
LEMMA FitsTail ==
  ASSUME NEW u, IsList(u), u # <<>>, NEW c, NEW x, Fits(u, c, x),
         NEW d, d = IF u[1].op = "pop" THEN u[1].outer ELSE c
  PROVE  Fits(Tail(u), d, x)
<1> DEFINE t == Tail(u)
           m == Len(u) - 1
<1>1. IsList(t) /\ Len(t) = m /\ m \in Nat /\ \A k \in 1..m : t[k] = u[k + 1] /\ k + 1 \in 1..Len(u)
  <2>1. IsList(t) /\ Len(t) = m /\ \A k \in 1..m : t[k] = u[k + 1]
    BY TailList
  <2>2. Len(u) \in Nat \ {0}
    BY ListProperties
  <2> QED BY <2>1, <2>2
<1> HIDE DEF t, m
<1> SUFFICES ASSUME NEW k \in 1..m, t[k].op = "visit" PROVE FitsAt(t, k, d, x)
  <2>1. \A k \in 1..Len(t) : t[k].op = "visit" => FitsAt(t, k, d, x)
    BY <1>1
  <2> QED BY <2>1 DEF Fits, t
<1>2. t[k] = u[k + 1] /\ FitsAt(u, k + 1, c, x)
  BY <1>1 DEF Fits
<1>3. \A j \in 1..k - 1 : t[j] = u[j + 1] /\ j + 1 \in 1..(k + 1) - 1
  BY <1>1
<1>4. \A i \in 1..(k + 1) - 1 : i = 1 \/ (i - 1 \in 1..k - 1 /\ i = (i - 1) + 1)
  BY <1>1
<1>5. 1 \in 1..(k + 1) - 1 /\ k \in Nat
  BY <1>1
<1>6. ASSUME \A j \in 1..k - 1 : t[j].op # "pop" PROVE Encloses(x[d], t[k].path)
  <2>1. \A i \in 1..(k + 1) - 1 : i = 1 \/ u[i].op # "pop"
    <3> SUFFICES ASSUME NEW i \in 1..(k + 1) - 1, i # 1 PROVE u[i].op # "pop"
      OBVIOUS
    <3>1. i - 1 \in 1..k - 1 /\ i = (i - 1) + 1
      BY <1>4
    <3>2. t[i - 1] = u[i]
      BY <1>3, <3>1
    <3> QED BY <1>6, <3>1, <3>2
  <2>2. CASE u[1].op = "pop"
    <3>1. \A i \in 1..(k + 1) - 1 : 1 < i => u[i].op # "pop"
      BY <2>1
    <3> QED BY <1>2, <1>5, <2>2, <3>1 DEF FitsAt
  <2>3. CASE u[1].op # "pop"
    <3>1. \A i \in 1..(k + 1) - 1 : u[i].op # "pop"
      BY <2>1, <2>3
    <3> QED BY <1>2, <2>3, <3>1 DEF FitsAt
  <2> QED BY <2>2, <2>3
<1>7. ASSUME NEW j \in 1..k - 1, t[j].op = "pop", \A i \in 1..k - 1 : j < i => t[i].op # "pop"
      PROVE  Encloses(x[t[j].outer], t[k].path)
  <2>1. t[j] = u[j + 1] /\ j + 1 \in 1..(k + 1) - 1
    BY <1>3
  <2>2. \A i \in 1..(k + 1) - 1 : j + 1 < i => u[i].op # "pop"
    <3> TAKE i \in 1..(k + 1) - 1
    <3>1. j + 1 < i => i # 1 /\ j < i - 1
      OBVIOUS
    <3>2. CASE j + 1 < i
      BY <1>3, <1>4, <1>7, <3>1, <3>2
    <3> QED BY <3>2
  <2> QED BY <1>2, <1>7, <2>1, <2>2 DEF FitsAt
<1> QED BY <1>6, <1>7 DEF FitsAt

\* It depends on the extents of these scopes only.
LEMMA FitsSame ==
  ASSUME NEW u, IsList(u), NEW c, NEW x, Fits(u, c, x), NEW y, y[c] = x[c],
         \A k \in 1..Len(u) : u[k].op = "pop" => y[u[k].outer] = x[u[k].outer]
  PROVE  Fits(u, c, y)
<1> SUFFICES ASSUME NEW k \in 1..Len(u), u[k].op = "visit" PROVE FitsAt(u, k, c, y)
  BY DEF Fits
<1>1. FitsAt(u, k, c, x)
  BY DEF Fits
<1>2. ASSUME NEW j \in 1..k - 1, u[j].op = "pop" PROVE y[u[j].outer] = x[u[j].outer]
  <2>1. Len(u) \in Nat
    BY ListProperties
  <2>2. j \in 1..Len(u)
    BY <2>1
  <2> QED BY <1>2, <2>2
<1> QED BY <1>1, <1>2 DEF FitsAt

-----------------------------------------------------------------------------
(* What is still to be declared                                             *)

AsDecl(i) == [node |-> i.node, path |-> i.path]
Ahead(items) == {AsDecl(items[k]) : k \in {j \in 1..Len(items) : items[j].op = "declare"}}

NoDeclares(items) == \A k \in 1..Len(items) : items[k].op # "declare"
OnlyDeclares(items) == \A k \in 1..Len(items) : items[k].op = "declare"

\* Everything is declared before anything else is done.
DeclaresFirst(items) ==
  \A k \in 1..Len(items) : items[k].op = "declare" => \A j \in 1..k - 1 : items[j].op = "declare"

\* Nothing is to be declared.
LEMMA NothingAhead ==
  ASSUME NEW s, NoDeclares(s) PROVE Ahead(s) = {} /\ DeclaresFirst(s)
BY DEF NoDeclares, Ahead, DeclaresFirst

\* What two lists declare, one behind the other.
LEMMA AheadConcat ==
  ASSUME NEW s, NEW t, IsList(s), IsList(t)
  PROVE  /\ Ahead(s \o t) = Ahead(s) \cup Ahead(t)
         /\ NoDeclares(s) /\ NoDeclares(t) => NoDeclares(s \o t)
         /\ OnlyDeclares(s) /\ OnlyDeclares(t) => OnlyDeclares(s \o t)
         /\ OnlyDeclares(s) => DeclaresFirst(s)
         /\ DeclaresFirst(s) /\ NoDeclares(t) => DeclaresFirst(s \o t)
<1> DEFINE u == s \o t
           n == Len(s)
           m == Len(t)
<1>1. /\ Len(u) = n + m /\ n \in Nat /\ m \in Nat
      /\ \A k \in 1..n : u[k] = s[k]
      /\ \A k \in 1..m : u[k + n] = t[k]
  BY ConcatList, ListProperties
<1> HIDE DEF u, n, m
<1>2. \A k \in 1..n + m : k \in 1..n \/ (k - n \in 1..m /\ k = (k - n) + n)
  BY <1>1
<1>3. /\ \A k \in 1..n : k \in 1..n + m
      /\ \A k \in 1..m : k + n \in 1..n + m
  BY <1>1
<1>4. Ahead(u) = Ahead(s) \cup Ahead(t)
  <2>1. ASSUME NEW d \in Ahead(u) PROVE d \in Ahead(s) \cup Ahead(t)
    <3>1. PICK k \in 1..n + m : u[k].op = "declare" /\ d = AsDecl(u[k])
      BY <1>1, <2>1 DEF Ahead
    <3>2. CASE k \in 1..n
      <4>1. u[k] = s[k]
        BY <1>1, <3>2
      <4> QED BY <3>1, <3>2, <4>1 DEF Ahead, n
    <3>3. CASE k - n \in 1..m /\ k = (k - n) + n
      <4>1. u[k] = t[k - n]
        BY <1>1, <3>3
      <4> QED BY <3>1, <3>3, <4>1 DEF Ahead, m
    <3> QED BY <1>2, <3>2, <3>3
  <2>2. ASSUME NEW d \in Ahead(s) PROVE d \in Ahead(u)
    <3>1. PICK k \in 1..n : s[k].op = "declare" /\ d = AsDecl(s[k])
      BY <2>2 DEF Ahead, n
    <3>2. u[k] = s[k] /\ k \in 1..Len(u)
      BY <1>1, <1>3
    <3> QED BY <3>1, <3>2 DEF Ahead
  <2>3. ASSUME NEW d \in Ahead(t) PROVE d \in Ahead(u)
    <3>1. PICK k \in 1..m : t[k].op = "declare" /\ d = AsDecl(t[k])
      BY <2>3 DEF Ahead, m
    <3>2. u[k + n] = t[k] /\ k + n \in 1..Len(u)
      BY <1>1, <1>3
    <3> QED BY <3>1, <3>2 DEF Ahead
  <2> QED BY <2>1, <2>2, <2>3
<1>5. ASSUME NEW k \in 1..n + m
      PROVE  (\E j \in 1..n : k = j /\ u[k] = s[j]) \/ (\E j \in 1..m : k = j + n /\ u[k] = t[j])
  <2>1. CASE k \in 1..n
    <3>1. u[k] = s[k]
      BY <1>1, <2>1
    <3> QED BY <2>1, <3>1
  <2>2. CASE k - n \in 1..m /\ k = (k - n) + n
    <3>1. u[k] = t[k - n]
      BY <1>1, <2>2
    <3> QED BY <2>2, <3>1
  <2> QED BY <1>2, <2>1, <2>2
<1>6. NoDeclares(s) /\ NoDeclares(t) => NoDeclares(u)
  BY <1>1, <1>5 DEF NoDeclares, n, m
<1>7. ASSUME OnlyDeclares(s), OnlyDeclares(t) PROVE OnlyDeclares(u)
  <2>1. (\A j \in 1..n : s[j].op = "declare") /\ \A j \in 1..m : t[j].op = "declare"
    BY <1>7 DEF OnlyDeclares, n, m
  <2>2. \A k \in 1..n + m : u[k].op = "declare"
    BY <1>5, <2>1
  <2> QED BY <1>1, <2>2 DEF OnlyDeclares
<1>8. ASSUME DeclaresFirst(s), NoDeclares(t) PROVE DeclaresFirst(u)
  <2> SUFFICES ASSUME NEW k \in 1..n + m, u[k].op = "declare", NEW j \in 1..k - 1 PROVE u[j].op = "declare"
    BY <1>1 DEF DeclaresFirst
  <2>1. k \in 1..n
    BY <1>5, <1>8 DEF NoDeclares, m
  <2>2. j \in 1..n
    BY <1>1, <2>1
  <2>3. u[k] = s[k] /\ u[j] = s[j]
    BY <1>1, <2>1, <2>2
  <2> QED BY <1>8, <2>1, <2>3 DEF DeclaresFirst, n
<1>9. OnlyDeclares(s) => DeclaresFirst(s)
  <2>1. \A k \in 1..n : \A j \in 1..k - 1 : j \in 1..n
    BY <1>1
  <2> QED BY <2>1 DEF OnlyDeclares, DeclaresFirst, n
<1> QED BY <1>4, <1>6, <1>7, <1>8, <1>9 DEF u

\* Behind what is declared comes more that declares nothing.
LEMMA AheadBehind ==
  ASSUME NEW s, NEW t, IsList(s), IsList(t), DeclaresFirst(s), NoDeclares(t)
  PROVE  DeclaresFirst(s \o t) /\ Ahead(s \o t) = Ahead(s)
<1>1. Ahead(s \o t) = Ahead(s) \cup Ahead(t)
  BY AheadConcat
<1>2. Ahead(t) = {}
  BY NothingAhead
<1>3. DeclaresFirst(s \o t)
  BY AheadConcat
<1> QED BY <1>1, <1>2, <1>3

\* The first item is done.
LEMMA AheadTail ==
  ASSUME NEW u, IsList(u), u # <<>>, DeclaresFirst(u)
  PROVE  /\ DeclaresFirst(Tail(u))
         /\ u[1].op # "declare" => NoDeclares(u) /\ NoDeclares(Tail(u))
         /\ u[1].op = "declare" => Ahead(u) = {AsDecl(u[1])} \cup Ahead(Tail(u))
<1> DEFINE t == Tail(u)
           m == Len(u) - 1
<1>1. /\ IsList(t) /\ Len(t) = m /\ m \in Nat /\ Len(u) = m + 1 /\ \A k \in 1..m : t[k] = u[k + 1]
  <2>1. IsList(t) /\ Len(t) = m /\ \A k \in 1..m : t[k] = u[k + 1]
    BY TailList
  <2>2. Len(u) \in Nat \ {0}
    BY ListProperties
  <2> QED BY <2>1, <2>2
<1> HIDE DEF t, m
<1>2. \A k \in 1..m + 1 : k = 1 \/ (k - 1 \in 1..m /\ k = (k - 1) + 1)
  BY <1>1
<1>3. 1 \in 1..m + 1 /\ \A k \in 1..m : k + 1 \in 1..m + 1 /\ 1 \in 1..(k + 1) - 1
  BY <1>1
<1>4. DeclaresFirst(t)
  <2> SUFFICES ASSUME NEW k \in 1..m, t[k].op = "declare", NEW j \in 1..k - 1 PROVE t[j].op = "declare"
    BY <1>1 DEF DeclaresFirst
  <2>1. j \in 1..m /\ j + 1 \in 1..(k + 1) - 1
    BY <1>1
  <2>2. u[k + 1].op = "declare" /\ u[j + 1] = t[j]
    BY <1>1, <2>1
  <2> QED BY <1>1, <1>3, <2>1, <2>2 DEF DeclaresFirst
<1>5. ASSUME u[1].op # "declare" PROVE NoDeclares(u) /\ NoDeclares(t)
  <2>1. \A k \in 1..m : u[k + 1].op # "declare"
    BY <1>1, <1>3, <1>5 DEF DeclaresFirst
  <2>2. \A k \in 1..m + 1 : u[k].op # "declare"
    <3> TAKE k \in 1..m + 1
    <3>1. CASE k - 1 \in 1..m /\ k = (k - 1) + 1
      BY <2>1, <3>1
    <3> QED BY <1>2, <1>5, <3>1
  <2> QED BY <1>1, <2>1, <2>2 DEF NoDeclares
<1>6. ASSUME u[1].op = "declare" PROVE Ahead(u) = {AsDecl(u[1])} \cup Ahead(t)
  <2>1. ASSUME NEW d \in Ahead(u) PROVE d = AsDecl(u[1]) \/ d \in Ahead(t)
    <3>1. PICK k \in 1..m + 1 : u[k].op = "declare" /\ d = AsDecl(u[k])
      BY <1>1, <2>1 DEF Ahead
    <3>2. CASE k - 1 \in 1..m /\ k = (k - 1) + 1
      <4>1. t[k - 1] = u[k]
        BY <1>1, <3>2
      <4> QED BY <1>1, <3>1, <3>2, <4>1 DEF Ahead
    <3> QED BY <1>2, <3>1, <3>2
  <2>2. AsDecl(u[1]) \in Ahead(u)
    BY <1>1, <1>3, <1>6 DEF Ahead
  <2>3. ASSUME NEW d \in Ahead(t) PROVE d \in Ahead(u)
    <3>1. PICK k \in 1..m : t[k].op = "declare" /\ d = AsDecl(t[k])
      BY <1>1, <2>3 DEF Ahead
    <3>2. u[k + 1] = t[k] /\ k + 1 \in 1..Len(u)
      BY <1>1, <1>3
    <3> QED BY <3>1, <3>2 DEF Ahead
  <2> QED BY <2>1, <2>2, <2>3
<1> QED BY <1>4, <1>5, <1>6 DEF t

\* The declarations of a list of nodes.
LEMMA AheadOfAll ==
  ASSUME NEW nodes \in Seq(Nodes), NEW path
  PROVE  /\ OnlyDeclares(DeclareAll(nodes, path)) /\ IsList(DeclareAll(nodes, path))
         /\ Ahead(DeclareAll(nodes, path)) = {[node |-> nodes[k], path |-> Append(path, k)] : k \in DOMAIN nodes}
<1> DEFINE items == DeclareAll(nodes, path)
<1>1. IsList(items)
  BY DeclareAllHarmless DEF Harmless
<1>2. DOMAIN items = DOMAIN nodes /\ \A k \in DOMAIN nodes : items[k] = Declare(nodes[k], Append(path, k))
  BY DEF DeclareAll
<1>3. DOMAIN items = 1..Len(items)
  BY <1>1, ListProperties
<1> HIDE DEF items
<1>4. \A k \in 1..Len(items) :
        items[k].op = "declare" /\ AsDecl(items[k]) = [node |-> nodes[k], path |-> Append(path, k)]
  <2>1. \A k \in DOMAIN nodes :
          items[k].op = "declare" /\ items[k].node = nodes[k] /\ items[k].path = Append(path, k)
    BY <1>2 DEF Declare
  <2> QED BY <1>2, <1>3, <2>1 DEF AsDecl
<1>5. OnlyDeclares(items)
  BY <1>4 DEF OnlyDeclares
<1>6. Ahead(items) = {[node |-> nodes[k], path |-> Append(path, k)] : k \in DOMAIN nodes}
  <2>1. {j \in 1..Len(items) : items[j].op = "declare"} = DOMAIN nodes
    BY <1>2, <1>3, <1>4
  <2>2. Ahead(items) = {AsDecl(items[k]) : k \in DOMAIN nodes}
    BY <2>1 DEF Ahead
  <2>3. \A k \in DOMAIN nodes : AsDecl(items[k]) = [node |-> nodes[k], path |-> Append(path, k)]
    BY <1>2, <1>3, <1>4
  <2> QED BY <2>2, <2>3
<1> QED BY <1>1, <1>5, <1>6 DEF items

\* Visits declare nothing.
LEMMA VisitsDeclareNothing ==
  ASSUME NEW items, AllVisits(items) PROVE NoDeclares(items) /\ IsList(items)
BY DEF AllVisits, NoDeclares

-----------------------------------------------------------------------------
(* Where the resolver is                                                    *)

\* A tree of the top level is visited from the top scope.
LEMMA TopEncloses == ASSUME NEW list, NEW i PROVE Encloses(<<>>, <<list, i>>)
<1> DEFINE p == <<list, i>>
<1>1. Len(p) = 2
  BY ShortPath
<1> HIDE DEF p
<1>2. \A n \in 2..Len(p) - 1 : FALSE
  BY <1>1
<1>3. Encloses(<<>>, p)
  BY <1>2 DEF Encloses
<1> QED BY <1>3 DEF p

\* A child of a node that opens no scope is where the node is, one of a node that does is in the scope it opens.
LEMMA ChildEnclosed ==
  ASSUME NEW p, IsPath(p), NEW k
  PROVE  /\ Encloses(p, Append(p, k))
         /\ \A q : Encloses(q, p) /\ NodeAt(p)[1] \notin Openers => Encloses(q, Append(p, k))
<1> DEFINE c == Append(p, k)
<1>1. /\ Len(c) = Len(p) + 1 /\ SubSeq(p, 1, Len(p)) = p
      /\ \A n \in 0..Len(p) : SubSeq(c, 1, n) = SubSeq(p, 1, n)
  BY StepDown
<1> HIDE DEF c
<1>2. Len(p) \in Nat /\ Len(p) >= 2
  BY PathNotEmpty
<1>3. \A n \in 2..Len(c) - 1 : n \in 0..Len(p) /\ n \in 2..Len(p) /\ (n \in 2..Len(p) - 1 \/ n = Len(p)) /\ ~(n > Len(p))
  <2>1. Len(c) - 1 = Len(p)
    BY <1>1, <1>2
  <2> QED BY <1>2, <2>1
<1>4. Encloses(p, c)
  <2>1. Len(p) \in 2..Len(c) - 1 /\ Len(p) \in 0..Len(p)
    BY <1>1, <1>2
  <2>2. p = SubSeq(c, 1, Len(p))
    BY <1>1, <2>1
  <2>3. \E n \in 2..Len(c) - 1 : p = SubSeq(c, 1, n)
    BY <2>1, <2>2
  <2> QED BY <1>3, <2>3 DEF Encloses
<1>5. ASSUME NEW q, Encloses(q, p), NodeAt(p)[1] \notin Openers PROVE Encloses(q, c)
  <2>1. q = <<>> \/ (IsPath(q) /\ \E n \in 2..Len(c) - 1 : q = SubSeq(c, 1, n))
    <3> SUFFICES ASSUME q # <<>> PROVE IsPath(q) /\ \E n \in 2..Len(c) - 1 : q = SubSeq(c, 1, n)
      OBVIOUS
    <3>1. IsPath(q)
      BY <1>5 DEF Encloses
    <3>2. PICK n \in 2..Len(p) - 1 : q = SubSeq(p, 1, n)
      BY <1>5 DEF Encloses
    <3>3. n \in 2..Len(c) - 1 /\ n \in 0..Len(p)
      BY <1>1, <1>2
    <3>4. q = SubSeq(c, 1, n)
      BY <1>1, <3>2, <3>3
    <3> QED BY <3>1, <3>3, <3>4
  <2>2. ASSUME NEW n \in 2..Len(c) - 1, n > Len(q) PROVE NodeAt(SubSeq(c, 1, n))[1] \notin Openers
    <3>1. SubSeq(c, 1, n) = SubSeq(p, 1, n)
      BY <1>1, <1>3
    <3>2. CASE n = Len(p)
      BY <1>1, <1>5, <3>1, <3>2
    <3>3. CASE n \in 2..Len(p) - 1
      BY <1>5, <2>2, <3>1, <3>3 DEF Encloses
    <3> QED BY <1>3, <3>2, <3>3
  <2> QED BY <2>1, <2>2 DEF Encloses
<1> QED BY <1>4, <1>5 DEF c

Extents == [s \in 1..Len(scopes_) |-> scopes_[s].extent]

\* What is declared in each scope, and still to be declared in c, is what belongs there.
Fill(scopes, c, items) ==
  \A s \in 1..Len(scopes) :
    {scopes[s].decls[i] : i \in DOMAIN scopes[s].decls} \cup (IF s = c THEN Ahead(items) ELSE {}) = DeclsFor(scopes[s].extent)

Hang(scopes) ==
  \A s \in 1..Len(scopes) :
    /\ IsList(scopes[s].decls)
    /\ scopes[s].parent = 0 => scopes[s].extent = <<>>
    /\ scopes[s].parent # 0 => IsPath(scopes[s].extent) /\ Encloses(scopes[scopes[s].parent].extent, scopes[s].extent)

\* The resolver is in the scope that belongs to where it is, and will be.
Resolving ==
  /\ decls_ # NoDeclarations
  /\ ItemsOK(agenda) /\ DeclaresFirst(agenda)
  /\ Fits(agenda, currentScope_, Extents)
  /\ Hang(scopes_)
  /\ Fill(scopes_, currentScope_, agenda)

\* As the lists of the Declarations do not change, it does not matter when this is asked.
LEMMA MeaningKept ==
  ASSUME decls_' = decls_
  PROVE  /\ \A q, p : Encloses(q, p)' <=> Encloses(q, p)
         /\ \A q : DeclsFor(q)' = DeclsFor(q)
         /\ \A name, p : Meant(name, p)' = Meant(name, p)
<1>1. /\ \A p : NodeAt(p)' = NodeAt(p)
      /\ \A p : Callee(p)' <=> Callee(p)
  BY PlacesKept
<1>2. \A q, p : Encloses(q, p)' <=> Encloses(q, p)
  BY <1>1 DEF Encloses
<1>3. GlobalDecls' = GlobalDecls
  BY DEF GlobalDecls
<1>4. \A q : LocalDecls(q)' = LocalDecls(q)
  BY <1>1 DEF LocalDecls
<1>5. \A q : DeclsFor(q)' = DeclsFor(q)
  BY <1>3, <1>4 DEF DeclsFor
<1>6. \A name, p : Meant(name, p)' = Meant(name, p)
  BY <1>1, <1>3, <1>4 DEF Meant
<1> QED BY <1>2, <1>5, <1>6

\* What is to hold after a step can be asked before it.
LEMMA ResolvingKept ==
  ASSUME decls_' = decls_, decls_ # NoDeclarations, ItemsOK(agenda'), DeclaresFirst(agenda'),
         Fits(agenda', currentScope_', Extents'), Hang(scopes_'), Fill(scopes_', currentScope_', agenda')
  PROVE  Resolving'
<1>1. ItemsOK(agenda)'
  BY PlacesKept
<1>2. DeclaresFirst(agenda)'
  BY DEF DeclaresFirst
<1>3. \A p : NodeAt(p)' = NodeAt(p)
  BY PlacesKept
<1>4. Fits(agenda, currentScope_, Extents)'
  <2>1. \A k, n : NodeAt(SubSeq(agenda[k].path, 1, n))' = NodeAt(SubSeq(agenda'[k].path, 1, n))
    BY DEF NodeAt
  <2>2. \A k : Encloses(Extents[currentScope_], agenda[k].path)' <=> Encloses(Extents'[currentScope_'], agenda'[k].path)
    BY <2>1 DEF Encloses
  <2>3. \A k, j : Encloses(Extents[agenda[j].outer], agenda[k].path)' <=> Encloses(Extents'[agenda'[j].outer], agenda'[k].path)
    BY <2>1 DEF Encloses
  <2>4. \A k : FitsAt(agenda, k, currentScope_, Extents)' <=> FitsAt(agenda', k, currentScope_', Extents')
    BY <2>2, <2>3 DEF FitsAt
  <2> QED BY <2>4 DEF Fits
<1>5. Hang(scopes_)'
  <2>1. \A s, n : NodeAt(SubSeq(scopes_[s].extent, 1, n))' = NodeAt(SubSeq(scopes_'[s].extent, 1, n))
    BY DEF NodeAt
  <2>2. \A s, t : Encloses(scopes_[t].extent, scopes_[s].extent)' <=> Encloses(scopes_'[t].extent, scopes_'[s].extent)
    BY <2>1 DEF Encloses
  <2> QED BY <2>2 DEF Hang
<1>6. Fill(scopes_, currentScope_, agenda)'
  <2>1. \A s : NodeAt(scopes_[s].extent)' = NodeAt(scopes_'[s].extent)
    BY DEF NodeAt
  <2>2. \A s : LocalDecls(scopes_[s].extent)' = LocalDecls(scopes_'[s].extent)
    BY <2>1 DEF LocalDecls
  <2>3. GlobalDecls' = GlobalDecls
    BY DEF GlobalDecls
  <2>4. \A s : DeclsFor(scopes_[s].extent)' = DeclsFor(scopes_'[s].extent)
    BY <2>2, <2>3 DEF DeclsFor
  <2> QED BY <2>4 DEF Fill
<1> QED BY <1>1, <1>2, <1>4, <1>5, <1>6 DEF Resolving

\* What is known when a node is come to.
LEMMA Standing ==
  ASSUME IInv, Resolving, Now("visit")
  PROVE  /\ agenda # <<>> /\ Top = agenda[1] /\ Top.op = "visit" /\ Placed(Top.node, Top.path) /\ (Top.called <=> Callee(Top.path))
         /\ Encloses(scopes_[currentScope_].extent, Top.path)
         /\ NoDeclares(agenda) /\ NoDeclares(Tail(agenda)) /\ IsList(Tail(agenda))
         /\ Fits(Tail(agenda), currentScope_, Extents)
<1>1. agenda # <<>> /\ agenda[1].op = "visit" /\ Top = agenda[1]
  BY FirstItem
<1>2. IsList(agenda) /\ Len(agenda) \in Nat \ {0} /\ 1 \in 1..Len(agenda)
  BY <1>1, ListProperties DEF IInv, AgendaOK
<1>3. ItemOK(agenda[1])
  BY <1>2 DEF Resolving, ItemsOK
<1>4. Placed(Top.node, Top.path) /\ (Top.called <=> Callee(Top.path))
  BY <1>1, <1>3 DEF ItemOK
<1>5. Encloses(scopes_[currentScope_].extent, Top.path)
  <2>1. FitsAt(agenda, 1, currentScope_, Extents)
    BY <1>1, <1>2 DEF Resolving, Fits
  <2>2. \A j \in 1..1 - 1 : FALSE
    OBVIOUS
  <2>3. Encloses(Extents[currentScope_], agenda[1].path)
    BY <2>1, <2>2 DEF FitsAt
  <2>4. Extents[currentScope_] = scopes_[currentScope_].extent
    BY DEF Extents, IInv, ScopeTree
  <2> QED BY <1>1, <2>3, <2>4
<1>6. NoDeclares(agenda) /\ NoDeclares(Tail(agenda))
  <2>1. agenda[1].op # "declare" /\ DeclaresFirst(agenda)
    BY <1>1 DEF Resolving
  <2> QED BY <1>1, <1>2, <2>1, AheadTail
<1>7. IsList(Tail(agenda))
  BY <1>1, <1>2, TailList
<1>8. Fits(Tail(agenda), currentScope_, Extents)
  <2>1. currentScope_ = IF agenda[1].op = "pop" THEN agenda[1].outer ELSE currentScope_
    BY <1>1
  <2>2. Fits(agenda, currentScope_, Extents)
    BY DEF Resolving
  <2> QED BY <1>1, <1>2, <2>1, <2>2, FitsTail
<1> QED BY <1>1, <1>4, <1>5, <1>6, <1>7, <1>8

\* With nothing still to be declared every scope is filled.
LEMMA AllFilled ==
  ASSUME Resolving, NoDeclares(agenda) PROVE Filled /\ ScopesHang
<1>1. Ahead(agenda) = {}
  BY NothingAhead
<1>2. ScopesHang
  BY DEF Resolving, Hang, ScopesHang
<1>3. Filled
  BY <1>1 DEF Resolving, Fill, Filled, DeclsIn
<1> QED BY <1>2, <1>3

\* With nothing to be declared before and after, it does not matter where the resolver is.
LEMMA FillElsewhere ==
  ASSUME NEW scopes, NEW c, NEW items, NoDeclares(items), Fill(scopes, c, items), NEW d, NEW others, NoDeclares(others)
  PROVE  Fill(scopes, d, others)
<1>1. Ahead(items) = {} /\ Ahead(others) = {}
  BY NothingAhead
<1> QED BY <1>1 DEF Fill

\* A node gives way to visits of what is in the same scope.
LEMMA GoesOn ==
  ASSUME IInv, Resolving, Now("visit"), NEW items, AllVisits(items), ItemsOK(items),
         \A k \in 1..Len(items) : Encloses(scopes_[currentScope_].extent, items[k].path),
         Then(items), UNCHANGED <<decls_, scopes_, currentScope_>>
  PROVE  Resolving'
<1> DEFINE t == Tail(agenda)
<1>1. /\ agenda # <<>> /\ NoDeclares(agenda) /\ NoDeclares(t) /\ IsList(t)
      /\ Fits(t, currentScope_, Extents)
  BY Standing
<1>2. NoDeclares(items) /\ IsList(items)
  BY VisitsDeclareNothing
<1>3. agenda' = items \o t
  BY DEF Then
<1>4. ItemsOK(agenda')
  BY <1>1, ItemsAfter DEF Resolving
<1> HIDE DEF t
<1>5. NoDeclares(agenda') /\ DeclaresFirst(agenda')
  <2>1. NoDeclares(agenda')
    BY <1>1, <1>2, <1>3, AheadConcat
  <2> QED BY <2>1, NothingAhead
<1>6. Extents' = Extents
  BY DEF Extents
<1>7. Fits(agenda', currentScope_, Extents)
  <2>1. Extents[currentScope_] = scopes_[currentScope_].extent
    BY DEF Extents, IInv, ScopeTree
  <2>2. \A k \in 1..Len(items) :
          items[k].op # "pop" /\ (items[k].op = "visit" => Encloses(Extents[currentScope_], items[k].path))
    BY <2>1 DEF AllVisits
  <2>3. Fits(items \o t, currentScope_, Extents)
    BY <1>1, <1>2, <2>2, FitsConcat
  <2> QED BY <1>3, <2>3
<1>8. Fill(scopes_, currentScope_, agenda')
  BY <1>1, <1>5, FillElsewhere DEF Resolving
<1>9. decls_' = decls_ /\ scopes_' = scopes_ /\ currentScope_' = currentScope_ /\ decls_ # NoDeclarations /\ Hang(scopes_)
  BY DEF Resolving
<1> QED BY <1>4, <1>5, <1>6, <1>7, <1>8, <1>9, ResolvingKept

\* LocalVarResolver goes back to the scope that it came from.
LEMMA LeaveIs == ASSUME IInv, LeaveScope, status # "stopped" PROVE currentScope_' = agenda[1].outer
<1>1. agenda # <<>> /\ agenda[1].op = "pop" /\ currentScope_' = PopScope
  BY DEF LeaveScope, Now, Top
<1>2. IsList(agenda) /\ Len(agenda) \in Nat \ {0} /\ currentScope_ \in 1..Len(scopes_)
  BY <1>1, ListProperties DEF IInv, AgendaOK, ScopeTree
<1>3. Pops \subseteq 1..Len(agenda) /\ 1 \in Pops
  BY <1>1, <1>2, PopsAre
<1>4. Pops \subseteq Int /\ \A k \in Pops : 1 <= k
  BY <1>2, <1>3
<1>5. Nested(Pops, Outer, currentScope_, Parent)
  BY DEF IInv, Nests
<1>6. Outer[1] = Parent[currentScope_]
  <2> DEFINE P == Pops \ {1}
  <2>1. Outer[1] = Parent[currentScope_] /\ Nested(P, Outer, Outer[1], Parent)
    BY <1>3, <1>4, <1>5, NestedLeaves
  <2> QED BY <2>1
<1>7. Outer[1] = agenda[1].outer /\ agenda[1].outer \in 1..Len(scopes_)
  BY <1>1, <1>2 DEF Outer, IInv, AgendaOK
<1>8. Parent[currentScope_] = scopes_[currentScope_].parent
  BY <1>2 DEF Parent
<1>9. scopes_[currentScope_].parent # NoScope
  <2>1. Len(scopes_) \in Nat
    BY ListProperties DEF IInv, ScopeTree
  <2>2. scopes_[currentScope_].parent = agenda[1].outer /\ agenda[1].outer \in 1..Len(scopes_)
    BY <1>6, <1>7, <1>8
  <2> QED BY <2>1, <2>2 DEF NoScope
<1> QED BY <1>1, <1>6, <1>7, <1>8, <1>9 DEF PopScope

\* A scope is left.
LEMMA LeavesScope == ASSUME IInv, Resolving, LeaveScope, status # "stopped" PROVE Resolving'
<1> DEFINE t == Tail(agenda)
           none == <<>>
<1>1. agenda # <<>> /\ agenda[1].op = "pop" /\ Then(none) /\ decls_' = decls_ /\ scopes_' = scopes_
  BY DEF LeaveScope, Now, Top, Continue
<1>2. IsList(agenda) /\ DeclaresFirst(agenda) /\ Fits(agenda, currentScope_, Extents) /\ decls_ # NoDeclarations /\ Hang(scopes_)
      /\ ItemsOK(agenda) /\ Fill(scopes_, currentScope_, agenda)
  BY DEF Resolving, IInv, AgendaOK
<1>3. IsList(t)
  BY <1>1, <1>2, TailList
<1>4. agenda' = t
  <2>1. agenda' = none \o t
    BY <1>1 DEF Then
  <2>2. \E S : t \in Seq(S)
    BY <1>3 DEF IsList
  <2>3. PICK S : t \in Seq(S)
    BY <2>2
  <2> HIDE DEF t
  <2>4. none \o t = t
    BY <2>3
  <2> QED BY <2>1, <2>4
<1>5. ItemsOK(agenda')
  <2>1. ItemsOK(none)
    BY ItemsNone
  <2> HIDE DEF none
  <2> QED BY <1>1, <1>2, <2>1, ItemsAfter
<1>6. NoDeclares(agenda) /\ NoDeclares(t) /\ DeclaresFirst(t)
  <2>1. agenda[1].op # "declare"
    BY <1>1
  <2> QED BY <1>1, <1>2, <2>1, AheadTail
<1>7. currentScope_' = agenda[1].outer
  BY LeaveIs
<1>8. Fits(t, agenda[1].outer, Extents)
  <2>1. agenda[1].outer = IF agenda[1].op = "pop" THEN agenda[1].outer ELSE currentScope_
    BY <1>1
  <2> QED BY <1>1, <1>2, <2>1, FitsTail
<1>9. Extents' = Extents
  BY <1>1 DEF Extents
<1> HIDE DEF t
<1>10. Fill(scopes_, currentScope_', t)
  BY <1>2, <1>6, FillElsewhere
<1>11. Fits(agenda', currentScope_', Extents') /\ DeclaresFirst(agenda') /\ Fill(scopes_', currentScope_', agenda') /\ Hang(scopes_')
  BY <1>1, <1>2, <1>4, <1>6, <1>7, <1>8, <1>9, <1>10
<1> QED BY <1>1, <1>2, <1>5, <1>11, ResolvingKept

\* The scope that is pushed.
LEMMA PushIs ==
  ASSUME IInv, PushScope
  PROVE  /\ Len(scopes_) \in Nat /\ currentScope_ \in 1..Len(scopes_)
         /\ Len(scopes_') = Len(scopes_) + 1 /\ currentScope_' = Len(scopes_) + 1
         /\ \A s \in 1..Len(scopes_) : scopes_'[s] = scopes_[s]
         /\ scopes_'[Len(scopes_) + 1] = EmptyScope(currentScope_, Top.path)
<1> DEFINE new == EmptyScope(currentScope_, Top.path)
<1>1. IsList(scopes_) /\ Len(scopes_) \in Nat /\ currentScope_ \in 1..Len(scopes_)
  BY ListProperties DEF IInv, ScopeTree
<1>2. scopes_' = Append(scopes_, new) /\ currentScope_' = Len(scopes_) + 1
  BY DEF PushScope
<1> HIDE DEF new
<1>3. /\ Len(scopes_') = Len(scopes_) + 1
      /\ \A s \in 1..Len(scopes_) : scopes_'[s] = scopes_[s]
      /\ scopes_'[Len(scopes_) + 1] = new
  BY <1>1, <1>2, AppendList
<1> QED BY <1>1, <1>2, <1>3 DEF new

\* The new scope hangs in the current one.
LEMMA PushHangs ==
  ASSUME IInv, Resolving, Now("visit"), PushScope PROVE Hang(scopes_')
<1> DEFINE N == Len(scopes_)
           S == scopes_'
<1>1. /\ N \in Nat /\ currentScope_ \in 1..N /\ Len(S) = N + 1
      /\ \A s \in 1..N : S[s] = scopes_[s]
      /\ S[N + 1] = EmptyScope(currentScope_, Top.path)
  BY PushIs
<1>2. Encloses(scopes_[currentScope_].extent, Top.path) /\ IsPath(Top.path)
  BY Standing DEF Placed
<1>3. \A s \in 1..N : scopes_[s].parent \in 0..s - 1
  BY DEF IInv, ScopeTree
<1>4. Hang(scopes_)
  BY DEF Resolving
<1> HIDE DEF N, S
<1> SUFFICES ASSUME NEW s \in 1..N + 1
  PROVE  /\ IsList(S[s].decls)
         /\ S[s].parent = 0 => S[s].extent = <<>>
         /\ S[s].parent # 0 => IsPath(S[s].extent) /\ Encloses(S[S[s].parent].extent, S[s].extent)
  BY <1>1 DEF Hang, S
<1>5. CASE s \in 1..N
  <2>1. S[s] = scopes_[s] /\ scopes_[s].parent \in 0..s - 1
    BY <1>1, <1>3, <1>5
  <2>2. S[s].parent # 0 => S[s].parent \in 1..N
    BY <1>1, <1>5, <2>1
  <2>3. S[s].parent # 0 => S[S[s].parent] = scopes_[scopes_[s].parent]
    BY <1>1, <2>1, <2>2
  <2>4. /\ IsList(scopes_[s].decls)
        /\ scopes_[s].parent = 0 => scopes_[s].extent = <<>>
        /\ scopes_[s].parent # 0 => IsPath(scopes_[s].extent) /\ Encloses(scopes_[scopes_[s].parent].extent, scopes_[s].extent)
    BY <1>4, <1>5 DEF Hang, N
  <2> QED BY <2>1, <2>3, <2>4
<1>6. CASE s = N + 1
  <2>1. S[s].parent = currentScope_ /\ S[s].extent = Top.path /\ S[s].decls = <<>>
    BY <1>1, <1>6 DEF EmptyScope
  <2>2. currentScope_ # 0 /\ S[currentScope_] = scopes_[currentScope_]
    BY <1>1
  <2>3. IsList(S[s].decls)
    BY <2>1, EmptyList
  <2>4. IsPath(S[s].extent) /\ Encloses(S[S[s].parent].extent, S[s].extent)
    BY <1>2, <2>1, <2>2
  <2> QED BY <2>1, <2>2, <2>3, <2>4
<1> QED BY <1>1, <1>5, <1>6

\* A scope is entered: it has yet to be filled with what the node declares.
LEMMA EntersScope ==
  ASSUME IInv, Resolving, Now("visit"), Top.node[1] \in Openers,
         NEW vs, AllVisits(vs), ItemsOK(vs), \A k \in 1..Len(vs) : Encloses(Top.path, vs[k].path),
         Then(DeclareAll(Locals(Top.node), Top.path) \o vs \o <<Pop(currentScope_)>>), decls_' = decls_, PushScope
  PROVE  Resolving'
<1> DEFINE ds == DeclareAll(Locals(Top.node), Top.path)
           e == Pop(currentScope_)
           p == <<e>>
           t == Tail(agenda)
           all == ds \o vs \o p
           N == Len(scopes_)
           S == scopes_'
<1>1. /\ agenda # <<>> /\ Placed(Top.node, Top.path)
      /\ NoDeclares(agenda) /\ NoDeclares(t) /\ IsList(t) /\ Fits(t, currentScope_, Extents)
  BY Standing
<1>2. Top.node \in Nodes /\ NodeAt(Top.path) = Top.node /\ IsPath(Top.path)
  BY <1>1 DEF Placed
<1>3. Locals(Top.node) \in Seq(Nodes)
  BY <1>2, LocalsAre DEF Openers
<1>4. ItemsOK(ds)
  BY <1>1, ItemsOfLocals DEF Openers
<1>5. /\ OnlyDeclares(ds) /\ IsList(ds)
      /\ Ahead(ds) = {[node |-> Locals(Top.node)[k], path |-> Append(Top.path, k)] : k \in DOMAIN Locals(Top.node)}
  BY <1>3, AheadOfAll
<1>6. Ahead(ds) = DeclsFor(Top.path)
  <2>1. Top.path # <<>>
    BY <1>2, PathNotEmpty
  <2> QED BY <1>2, <1>5, <2>1 DEF DeclsFor, LocalDecls
<1>7. NoDeclares(vs) /\ IsList(vs)
  BY VisitsDeclareNothing
<1>8. e.op = "pop" /\ e.outer = currentScope_
  BY DEF Pop
<1>9. Then(all) /\ agenda' = (ds \o vs \o p) \o t
  BY DEF Then
<1> HIDE DEF ds, e
<1>10. ItemsOK(p) /\ NoDeclares(p) /\ IsList(p)
  <2>1. ItemOK(e)
    BY <1>8 DEF ItemOK
  <2>2. ItemsOK(p)
    BY <2>1, ItemsOne
  <2>3. Len(p) = 1 /\ p[1] = e
    OBVIOUS
  <2> HIDE DEF p
  <2>4. NoDeclares(p)
    BY <1>8, <2>3 DEF NoDeclares
  <2> QED BY <2>2, <2>4 DEF ItemsOK
<1> HIDE DEF t
<1>11. Fits(p \o t, N + 1, Extents')
  <2>1. /\ N \in Nat /\ currentScope_ \in 1..N /\ Len(S) = N + 1 /\ \A s \in 1..N : S[s] = scopes_[s]
    BY PushIs
  <2>2. \A s \in 1..N : Extents'[s] = Extents[s]
    BY <2>1 DEF Extents
  <2>3. \A k \in 1..Len(t) : t[k].op = "pop" => t[k].outer \in 1..N
    <3>1. IsList(agenda) /\ Len(agenda) \in Nat \ {0}
      BY <1>1, ListProperties DEF IInv, AgendaOK
    <3>2. Len(t) = Len(agenda) - 1 /\ \A k \in 1..Len(agenda) - 1 : t[k] = agenda[k + 1]
      BY <1>1, <3>1, TailList DEF t
    <3>3. \A k \in 1..Len(t) : t[k] = agenda[k + 1] /\ k + 1 \in 1..Len(agenda)
      BY <3>1, <3>2
    <3> QED BY <3>3 DEF IInv, AgendaOK
  <2>4. Fits(t, currentScope_, Extents')
    BY <1>1, <2>1, <2>2, <2>3, FitsSame
  <2> QED BY <1>1, <1>8, <2>4, FitsPop
<1> HIDE DEF p
<1>12. IsList(p \o t) /\ NoDeclares(p \o t)
  BY <1>1, <1>10, ConcatList, AheadConcat
<1>13. IsList(vs \o (p \o t)) /\ NoDeclares(vs \o (p \o t))
  BY <1>7, <1>12, ConcatList, AheadConcat
<1>14. agenda' = ds \o (vs \o (p \o t))
  <2>1. IsList(ds \o vs)
    BY <1>5, <1>7, ConcatList
  <2>2. (ds \o vs \o p) \o t = (ds \o vs) \o (p \o t)
    BY <1>1, <1>10, <2>1, ConcatAssoc
  <2>3. (ds \o vs) \o (p \o t) = ds \o (vs \o (p \o t))
    BY <1>5, <1>7, <1>12, ConcatAssoc
  <2> QED BY <1>9, <2>2, <2>3
<1>15. ItemsOK(agenda')
  <2>1. ItemsOK(ds \o vs)
    BY <1>4, ItemsConcat
  <2>2. ItemsOK(ds \o vs \o p)
    BY <1>10, <2>1, ItemsConcat
  <2> HIDE DEF all
  <2>3. ItemsOK(all)
    BY <2>2 DEF all
  <2> QED BY <1>1, <1>9, <2>3, ItemsAfter DEF Resolving
<1>16. DeclaresFirst(agenda') /\ Ahead(agenda') = DeclsFor(Top.path)
  <2> DEFINE u == vs \o (p \o t)
  <2>1. IsList(u) /\ NoDeclares(u)
    BY <1>13
  <2> HIDE DEF u
  <2>2. Ahead(ds \o u) = Ahead(ds) \cup Ahead(u) /\ DeclaresFirst(ds \o u)
    BY <1>5, <2>1, AheadConcat
  <2>3. Ahead(u) = {}
    BY <2>1, NothingAhead
  <2>4. agenda' = ds \o u
    BY <1>14 DEF u
  <2> QED BY <1>6, <2>2, <2>3, <2>4
<1>17. /\ N \in Nat /\ currentScope_ \in 1..N /\ Len(S) = N + 1 /\ currentScope_' = N + 1
       /\ \A s \in 1..N : S[s] = scopes_[s]
       /\ S[N + 1] = EmptyScope(currentScope_, Top.path)
  BY PushIs
<1>18. Fits(agenda', currentScope_', Extents')
  <2>1. Extents'[N + 1] = Top.path
    <3>1. N + 1 \in 1..Len(S)
      BY <1>17
    <3>2. Extents' = [s \in 1..Len(S) |-> S[s].extent]
      BY DEF Extents
    <3>3. S[N + 1].extent = Top.path
      BY <1>17 DEF EmptyScope
    <3> HIDE DEF N, S
    <3> QED BY <3>1, <3>2, <3>3
  <2>2. \A k \in 1..Len(vs) : vs[k].op # "pop" /\ (vs[k].op = "visit" => Encloses(Extents'[N + 1], vs[k].path))
    BY <2>1 DEF AllVisits
  <2>3. Fits(vs \o (p \o t), N + 1, Extents')
    BY <1>7, <1>11, <1>12, <2>2, FitsConcat
  <2>4. \A k \in 1..Len(ds) : ds[k].op # "pop" /\ (ds[k].op = "visit" => Encloses(Extents'[N + 1], ds[k].path))
    BY <1>5 DEF OnlyDeclares
  <2>5. Fits(ds \o (vs \o (p \o t)), N + 1, Extents')
    BY <1>5, <1>13, <2>3, <2>4, FitsConcat
  <2> QED BY <1>14, <1>17, <2>5
<1>19. Fill(scopes_', currentScope_', agenda')
  <2>1. Ahead(agenda) = {} /\ Fill(scopes_, currentScope_, agenda)
    BY <1>1, NothingAhead DEF Resolving
  <2>2. S[N + 1].extent = Top.path /\ S[N + 1].decls = <<>>
    BY <1>17 DEF EmptyScope
  <2>3. DOMAIN (S[N + 1].decls) = {}
    <3>1. DOMAIN <<>> = {}
      OBVIOUS
    <3> QED BY <2>2, <3>1
  <2> SUFFICES ASSUME NEW s \in 1..N + 1
      PROVE  {S[s].decls[i] : i \in DOMAIN S[s].decls} \cup (IF s = N + 1 THEN Ahead(agenda') ELSE {}) = DeclsFor(S[s].extent)
    BY <1>17 DEF Fill
  <2>4. CASE s \in 1..N
    <3>1. s # N + 1 /\ S[s] = scopes_[s]
      BY <1>17, <2>4
    <3>2. {scopes_[s].decls[i] : i \in DOMAIN scopes_[s].decls} = DeclsFor(scopes_[s].extent)
      BY <2>1, <2>4 DEF Fill
    <3> QED BY <3>1, <3>2
  <2>5. CASE s = N + 1
    <3>1. {S[s].decls[i] : i \in DOMAIN S[s].decls} = {}
      BY <2>3, <2>5
    <3>2. DeclsFor(S[s].extent) = Ahead(agenda')
      BY <1>16, <2>2, <2>5
    <3> QED BY <2>5, <3>1, <3>2
  <2> QED BY <1>17, <2>4, <2>5
<1>20. Hang(scopes_')
  BY PushHangs
<1>21. decls_ # NoDeclarations
  BY DEF Resolving
<1> QED BY <1>15, <1>16, <1>18, <1>19, <1>20, <1>21, ResolvingKept

\* A declaration joins the current scope.
LEMMA DeclaresOne ==
  ASSUME IInv, Resolving, AddNamedDecl, ~HasDuplicatedName(NameOf(Top.node)) PROVE Resolving'
<1> DEFINE t == Tail(agenda)
           none == <<>>
           e == [node |-> Top.node, path |-> Top.path]
           N == Len(scopes_)
           S == scopes_'
           c == currentScope_
<1>1. /\ Now("declare") /\ Then(none) /\ decls_' = decls_ /\ currentScope_' = currentScope_
      /\ S = [scopes_ EXCEPT ![currentScope_].decls = Append(@, e)]
  BY DEF AddNamedDecl, Continue
<1>2. agenda # <<>> /\ agenda[1].op = "declare" /\ Top = agenda[1]
  BY <1>1, FirstItem
<1>3. /\ IsList(agenda) /\ DeclaresFirst(agenda) /\ Fits(agenda, c, Extents) /\ decls_ # NoDeclarations /\ Hang(scopes_)
      /\ ItemsOK(agenda) /\ Fill(scopes_, c, agenda)
  BY DEF Resolving, IInv, AgendaOK
<1>4. IsList(t)
  BY <1>2, <1>3, TailList
<1>5. agenda' = t
  <2>1. agenda' = none \o t
    BY <1>1 DEF Then
  <2>2. \E T : t \in Seq(T)
    BY <1>4 DEF IsList
  <2>3. PICK T : t \in Seq(T)
    BY <2>2
  <2> HIDE DEF t
  <2>4. none \o t = t
    BY <2>3
  <2> QED BY <2>1, <2>4
<1>6. ItemsOK(agenda')
  <2>1. ItemsOK(none)
    BY ItemsNone
  <2> HIDE DEF none
  <2> QED BY <1>1, <1>2, <1>3, <2>1, ItemsAfter
<1>7. DeclaresFirst(t) /\ Ahead(agenda) = {e} \cup Ahead(t)
  <2>1. AsDecl(agenda[1]) = e
    BY <1>2 DEF AsDecl
  <2> QED BY <1>2, <1>3, <2>1, AheadTail
<1>8. Fits(t, c, Extents)
  <2>1. c = IF agenda[1].op = "pop" THEN agenda[1].outer ELSE c
    BY <1>2
  <2> QED BY <1>2, <1>3, <2>1, FitsTail
<1> HIDE DEF t, e, none
<1>9. /\ N \in Nat /\ c \in 1..N /\ DOMAIN scopes_ = 1..N /\ IsList(scopes_)
      /\ \A s \in 1..N : DOMAIN scopes_[s] = {"parent", "extent", "decls"}
  BY ListProperties DEF IInv, ScopeTree
<1>10. /\ Len(S) = N /\ \A s \in 1..N : s # c => S[s] = scopes_[s]
       /\ S[c] = [scopes_[c] EXCEPT !.decls = Append(scopes_[c].decls, e)]
  <2>1. DOMAIN S = 1..N /\ S = [s \in 1..N |-> S[s]]
    BY <1>1, <1>9
  <2>2. Len(S) = N
    BY <1>9, <2>1, MappedList
  <2>3. \A s \in 1..N : s # c => S[s] = scopes_[s]
    BY <1>1, <1>9
  <2>4. S[c] = [scopes_[c] EXCEPT !.decls = Append(scopes_[c].decls, e)]
    BY <1>1, <1>9
  <2> QED BY <2>2, <2>3, <2>4
<1>11. /\ S[c].parent = scopes_[c].parent /\ S[c].extent = scopes_[c].extent
       /\ S[c].decls = Append(scopes_[c].decls, e)
  BY <1>9, <1>10
<1> HIDE DEF S, N, c
<1>12. \A s \in 1..N : S[s].parent = scopes_[s].parent /\ S[s].extent = scopes_[s].extent
  <2> TAKE s \in 1..N
  <2>1. CASE s = c
    BY <1>11, <2>1
  <2>2. CASE s # c
    BY <1>10, <2>2
  <2> QED BY <2>1, <2>2
<1>13. IsList(scopes_[c].decls)
  BY <1>3, <1>9 DEF Hang, N
<1>14. /\ IsList(S[c].decls)
       /\ {S[c].decls[i] : i \in DOMAIN S[c].decls} = {scopes_[c].decls[i] : i \in DOMAIN scopes_[c].decls} \cup {e}
  <2> DEFINE a == scopes_[c].decls
             b == S[c].decls
  <2>1. IsList(a) /\ b = Append(a, e)
    BY <1>11, <1>13
  <2> HIDE DEF a, b
  <2>2. /\ IsList(b) /\ Len(b) = Len(a) + 1 /\ \A k \in 1..Len(a) : b[k] = a[k]
        /\ b[Len(a) + 1] = e
    BY <2>1, AppendList
  <2>3. DOMAIN a = 1..Len(a) /\ DOMAIN b = 1..Len(b) /\ Len(a) \in Nat
    BY <2>1, <2>2, ListProperties
  <2>4. \A k \in DOMAIN b : k \in DOMAIN a \/ k = Len(a) + 1
    BY <2>2, <2>3
  <2>5. Len(a) + 1 \in DOMAIN b /\ \A k \in DOMAIN a : k \in DOMAIN b /\ b[k] = a[k]
    BY <2>2, <2>3
  <2>6. {b[i] : i \in DOMAIN b} = {a[i] : i \in DOMAIN a} \cup {e}
    <3>1. \A x \in {b[i] : i \in DOMAIN b} : x = e \/ x \in {a[i] : i \in DOMAIN a}
      BY <2>2, <2>4, <2>5
    <3>2. \A x \in {a[i] : i \in DOMAIN a} : x \in {b[i] : i \in DOMAIN b}
      BY <2>5
    <3>3. e \in {b[i] : i \in DOMAIN b}
      BY <2>2, <2>5
    <3> QED BY <3>1, <3>2, <3>3
  <2> QED BY <2>2, <2>6 DEF a, b
<1>15. Extents' = Extents
  <2>1. Extents = [s \in 1..N |-> scopes_[s].extent]
    BY DEF Extents, N
  <2>2. Extents' = [s \in 1..Len(S) |-> S[s].extent]
    BY DEF Extents, S
  <2> QED BY <1>10, <1>12, <2>1, <2>2
<1>16. Hang(S)
  <2> SUFFICES ASSUME NEW s \in 1..N
      PROVE  /\ IsList(S[s].decls)
             /\ S[s].parent = 0 => S[s].extent = <<>>
             /\ S[s].parent # 0 => IsPath(S[s].extent) /\ Encloses(S[S[s].parent].extent, S[s].extent)
    BY <1>10 DEF Hang
  <2>1. /\ IsList(scopes_[s].decls)
        /\ scopes_[s].parent = 0 => scopes_[s].extent = <<>>
        /\ scopes_[s].parent # 0 => IsPath(scopes_[s].extent) /\ Encloses(scopes_[scopes_[s].parent].extent, scopes_[s].extent)
    BY <1>3 DEF Hang, N
  <2>2. S[s].parent = scopes_[s].parent /\ S[s].extent = scopes_[s].extent
    BY <1>12
  <2>3. IsList(S[s].decls)
    <3>1. CASE s = c
      BY <1>14, <3>1
    <3>2. CASE s # c
      <4>1. S[s] = scopes_[s]
        BY <1>10, <3>2
      <4> QED BY <2>1, <4>1
    <3> QED BY <3>1, <3>2
  <2>4. S[s].parent # 0 => S[S[s].parent].extent = scopes_[scopes_[s].parent].extent
    <3>1. scopes_[s].parent \in 0..s - 1
      BY DEF IInv, ScopeTree, N
    <3>2. S[s].parent # 0 => scopes_[s].parent \in 1..N
      BY <1>9, <2>2, <3>1
    <3> QED BY <1>12, <2>2, <3>2
  <2> QED BY <2>1, <2>2, <2>3, <2>4
<1>17. Fill(S, c, t)
  <2> SUFFICES ASSUME NEW s \in 1..N
      PROVE  {S[s].decls[i] : i \in DOMAIN S[s].decls} \cup (IF s = c THEN Ahead(t) ELSE {}) = DeclsFor(S[s].extent)
    BY <1>10 DEF Fill
  <2>1. {scopes_[s].decls[i] : i \in DOMAIN scopes_[s].decls} \cup (IF s = c THEN Ahead(agenda) ELSE {}) = DeclsFor(scopes_[s].extent)
    BY <1>3 DEF Fill, N
  <2>2. CASE s = c
    <3> DEFINE A == {scopes_[c].decls[i] : i \in DOMAIN scopes_[c].decls}
               B == {S[c].decls[i] : i \in DOMAIN S[c].decls}
    <3>1. B = A \cup {e} /\ A \cup Ahead(agenda) = DeclsFor(scopes_[c].extent)
      BY <1>14, <2>1, <2>2
    <3> HIDE DEF A, B
    <3>2. B \cup Ahead(t) = DeclsFor(S[c].extent)
      BY <1>7, <1>11, <3>1
    <3> QED BY <2>2, <3>2 DEF B
  <2>3. CASE s # c
    <3>1. S[s] = scopes_[s]
      BY <1>10, <2>3
    <3> QED BY <2>1, <2>3, <3>1
  <2> QED BY <2>2, <2>3
<1>18. Fits(agenda', currentScope_', Extents') /\ DeclaresFirst(agenda') /\ Fill(scopes_', currentScope_', agenda') /\ Hang(scopes_')
  BY <1>1, <1>5, <1>7, <1>8, <1>15, <1>16, <1>17 DEF S, c
<1> QED BY <1>1, <1>3, <1>6, <1>18, ResolvingKept

\* No scope is left, and what is visited is visited from q.
Plain(items, q) ==
  /\ IsList(items)
  /\ \A k \in 1..Len(items) : items[k].op # "pop" /\ (items[k].op = "visit" => Encloses(q, items[k].path))

\* One list of those behind the other.
LEMMA PlainConcat == ASSUME NEW q, NEW s, NEW t, Plain(s, q), Plain(t, q) PROVE Plain(s \o t, q)
<1> DEFINE u == s \o t
           n == Len(s)
           m == Len(t)
<1>1. /\ IsList(u) /\ Len(u) = n + m /\ n \in Nat /\ m \in Nat
      /\ \A k \in 1..n : u[k] = s[k]
      /\ \A k \in 1..m : u[k + n] = t[k]
  BY ConcatList, ListProperties DEF Plain
<1> HIDE DEF u, n, m
<1>2. ASSUME NEW k \in 1..n + m PROVE (\E j \in 1..n : u[k] = s[j]) \/ (\E j \in 1..m : u[k] = t[j])
  <2>1. CASE k \in 1..n
    BY <1>1, <2>1
  <2>2. CASE k \notin 1..n
    <3>1. k - n \in 1..m /\ k = (k - n) + n
      BY <1>1, <2>2
    <3>2. u[k] = t[k - n]
      BY <1>1, <3>1
    <3> QED BY <3>1, <3>2
  <2> QED BY <2>1, <2>2
<1>3. /\ \A j \in 1..n : s[j].op # "pop" /\ (s[j].op = "visit" => Encloses(q, s[j].path))
      /\ \A j \in 1..m : t[j].op # "pop" /\ (t[j].op = "visit" => Encloses(q, t[j].path))
  BY DEF Plain, n, m
<1>4. \A k \in 1..n + m : u[k].op # "pop" /\ (u[k].op = "visit" => Encloses(q, u[k].path))
  BY <1>2, <1>3
<1>5. Plain(u, q)
  BY <1>1, <1>4 DEF Plain
<1> QED BY <1>5 DEF u

\* They fit the scope with that extent.
LEMMA PlainFits == ASSUME NEW items, NEW c, NEW x, Plain(items, x[c]) PROVE Fits(items, c, x)
<1> SUFFICES ASSUME NEW k \in 1..Len(items), items[k].op = "visit" PROVE FitsAt(items, k, c, x)
  BY DEF Fits
<1>1. Len(items) \in Nat
  BY ListProperties DEF Plain
<1>2. \A j \in 1..k - 1 : j \in 1..Len(items)
  BY <1>1
<1>3. \A j \in 1..k - 1 : items[j].op # "pop"
  BY <1>2 DEF Plain
<1>4. Encloses(x[c], items[k].path)
  BY DEF Plain
<1> QED BY <1>3, <1>4 DEF FitsAt

\* The first node of a list is visited from the top.
LEMMA FirstPlain ==
  ASSUME NEW list, decls_[list] \in Seq(Nodes) PROVE Plain(First(list), <<>>) /\ NoDeclares(First(list))
<1> DEFINE items == VisitList(list)
           f == First(list)
<1>1. AllVisits(items) /\ f = IF items = <<>> THEN <<>> ELSE <<items[1]>>
  BY TreesOfList DEF First
<1>2. \A i \in DOMAIN items : items[i].path = <<list, i>>
  BY DEF VisitList, Visit
<1> HIDE DEF items, f
<1>3. CASE items = <<>>
  <2>1. IsList(f) /\ Len(f) = 0
    BY <1>1, <1>3, EmptyList
  <2>2. \A k \in 1..Len(f) : FALSE
    BY <2>1
  <2> QED BY <2>1, <2>2 DEF Plain, NoDeclares, f
<1>4. CASE items # <<>>
  <2> DEFINE e == items[1]
  <2>1. 1 \in 1..Len(items) /\ 1 \in DOMAIN items
    BY <1>1, <1>4, ListProperties DEF AllVisits
  <2>2. e.op = "visit" /\ e.path = <<list, 1>> /\ Encloses(<<>>, e.path)
    BY <1>1, <1>2, <2>1, TopEncloses DEF AllVisits
  <2>3. f = <<e>>
    BY <1>1, <1>4
  <2> HIDE DEF e
  <2>4. <<e>> \in Seq({e}) /\ Len(<<e>>) = 1 /\ <<e>>[1] = e
    OBVIOUS
  <2>5. IsList(f) /\ Len(f) = 1 /\ f[1] = e
    BY <2>3, <2>4, ListOfSeq
  <2>6. \A k \in 1..Len(f) : f[k] = e
    BY <2>5
  <2>7. e.op # "pop" /\ e.op # "declare"
    BY <2>2
  <2> QED BY <2>2, <2>5, <2>6, <2>7 DEF Plain, NoDeclares, f
<1> QED BY <1>3, <1>4

\* A list of declarations.
LEMMA DeclaresPlain ==
  ASSUME NEW list, decls_[list] \in Seq(Nodes), NEW q
  PROVE  /\ Plain(DeclareAll(decls_[list], <<list>>), q) /\ OnlyDeclares(DeclareAll(decls_[list], <<list>>))
         /\ Ahead(DeclareAll(decls_[list], <<list>>)) =
              {[node |-> decls_[list][i], path |-> <<list, i>>] : i \in DOMAIN decls_[list]}
<1> DEFINE nodes == decls_[list]
           items == DeclareAll(nodes, <<list>>)
<1>1. /\ OnlyDeclares(items) /\ IsList(items)
      /\ Ahead(items) = {[node |-> nodes[k], path |-> Append(<<list>>, k)] : k \in DOMAIN nodes}
  BY AheadOfAll
<1> HIDE DEF items
<1>2. Plain(items, q)
  BY <1>1 DEF Plain, OnlyDeclares
<1>3. \A k \in DOMAIN nodes : Append(<<list>>, k) = <<list, k>>
  BY ShortPath
<1>4. Ahead(items) = {[node |-> nodes[i], path |-> <<list, i>>] : i \in DOMAIN nodes}
  BY <1>1, <1>3
<1> QED BY <1>1, <1>2, <1>4 DEF items

\* Before the resolver runs there is one scope, and nothing in it.
Untouched == Len(scopes_) = 1 /\ currentScope_ = 1 /\ scopes_[1] = EmptyScope(NoScope, <<>>)

\* The lists of a program that is not refused.
LEMMA ListsAre ==
  ASSUME IInv, UnitOK, decls_ # NoDeclarations
  PROVE  \A list \in {"functions", "constants", "variables"} : decls_[list] \in Seq(Nodes) /\ AreDecls(decls_[list])
<1>1. \A list \in {"functions", "constants", "variables"} : decls_[list] \in Seq(Nodes)
  BY DEF IInv, DeclsOK, Lists
<1>2. PICK u \in Units : decls_ = u.decls
  BY DEF UnitOK
<1>3. \A list \in {"functions", "constants", "variables"} : AreDecls(u.decls[list])
  BY <1>2, DeclsAssumption
<1> QED BY <1>1, <1>2, <1>3

\* The resolver begins in the top scope.
LEMMA ResolverBegins ==
  ASSUME IInv, UnitOK, Untouched, ResolveLocalVariable PROVE Resolving'
<1>1. /\ decls_ # NoDeclarations /\ decls_' = decls_ /\ scopes_' = scopes_ /\ currentScope_' = currentScope_
  BY DEF ResolveLocalVariable, Begin
<1>2. \A list \in {"functions", "constants", "variables"} : decls_[list] \in Seq(Nodes) /\ AreDecls(decls_[list])
  BY <1>1, ListsAre
<1> DEFINE f == DeclareAll(decls_["functions"], <<"functions">>)
           c == DeclareAll(decls_["constants"], <<"constants">>)
           v == DeclareAll(decls_["variables"], <<"variables">>)
           V == First("variables")
           C == First("constants")
           F == First("functions")
           a == agenda'
           Of(list) == {[node |-> decls_[list][i], path |-> <<list, i>>] : i \in DOMAIN decls_[list]}
<1>3. a = f \o c \o v \o V \o C \o F
  BY DEF ResolveLocalVariable
<1>4. ItemsOK(f) /\ ItemsOK(c) /\ ItemsOK(v) /\ ItemsOK(V) /\ ItemsOK(C) /\ ItemsOK(F)
  BY <1>2, ItemsOfGlobals, ItemsOfList
<1>5. /\ Plain(f, <<>>) /\ OnlyDeclares(f) /\ Ahead(f) = Of("functions")
      /\ Plain(c, <<>>) /\ OnlyDeclares(c) /\ Ahead(c) = Of("constants")
      /\ Plain(v, <<>>) /\ OnlyDeclares(v) /\ Ahead(v) = Of("variables")
  BY <1>2, DeclaresPlain
<1>6. /\ Plain(V, <<>>) /\ NoDeclares(V)
      /\ Plain(C, <<>>) /\ NoDeclares(C)
      /\ Plain(F, <<>>) /\ NoDeclares(F)
  BY <1>2, FirstPlain
<1>7. GlobalDecls = Of("functions") \cup Of("constants") \cup Of("variables")
  BY DEF GlobalDecls
<1> HIDE DEF f, c, v, V, C, F, Of
<1>8. /\ Plain(f \o c, <<>>) /\ Plain(f \o c \o v, <<>>) /\ Plain(f \o c \o v \o V, <<>>)
      /\ Plain(f \o c \o v \o V \o C, <<>>) /\ Plain(f \o c \o v \o V \o C \o F, <<>>)
  BY <1>5, <1>6, PlainConcat
<1>9. ItemsOK(a)
  <2>1. ItemsOK(f \o c \o v)
    BY <1>4, ItemsConcat
  <2>2. ItemsOK(f \o c \o v \o V \o C \o F)
    BY <1>4, <2>1, ItemsConcat
  <2> QED BY <1>3, <2>2
<1>10. DeclaresFirst(a) /\ Ahead(a) = GlobalDecls
  <2>1. OnlyDeclares(f \o c) /\ Ahead(f \o c) = Ahead(f) \cup Ahead(c)
    BY <1>5, AheadConcat DEF Plain
  <2>2. OnlyDeclares(f \o c \o v) /\ Ahead(f \o c \o v) = Ahead(f) \cup Ahead(c) \cup Ahead(v)
    BY <1>5, <1>8, <2>1, AheadConcat DEF Plain
  <2> DEFINE g == f \o c \o v
  <2>3. DeclaresFirst(g) /\ Ahead(g) = GlobalDecls /\ IsList(g)
    <3>1. IsList(g)
      BY <1>8 DEF Plain
    <3>2. DeclaresFirst(g)
      BY <2>2, <3>1, AheadConcat
    <3> QED BY <1>5, <1>7, <2>2, <3>1, <3>2
  <2>4. /\ IsList(V) /\ IsList(C) /\ IsList(F)
        /\ Ahead(V) = {} /\ Ahead(C) = {} /\ Ahead(F) = {}
        /\ IsList(g \o V) /\ IsList(g \o V \o C)
    BY <1>6, <1>8, NothingAhead DEF Plain
  <2>5. a = g \o V \o C \o F
    BY <1>3
  <2> HIDE DEF g
  <2>6. DeclaresFirst(g \o V) /\ Ahead(g \o V) = GlobalDecls
    BY <1>6, <2>3, <2>4, AheadBehind
  <2>7. DeclaresFirst(g \o V \o C) /\ Ahead(g \o V \o C) = GlobalDecls
    BY <1>6, <2>4, <2>6, AheadBehind
  <2>8. DeclaresFirst(g \o V \o C \o F) /\ Ahead(g \o V \o C \o F) = GlobalDecls
    BY <1>6, <2>4, <2>7, AheadBehind
  <2> QED BY <2>5, <2>8
<1>11. Plain(a, <<>>)
  BY <1>3, <1>8
<1> HIDE DEF a
<1>12. /\ Len(scopes_) = 1 /\ currentScope_ = 1
       /\ scopes_[1].parent = 0 /\ scopes_[1].extent = <<>> /\ scopes_[1].decls = <<>>
  BY DEF Untouched, EmptyScope, NoScope
<1>13. Fits(a, currentScope_, Extents')
  <2>1. Extents'[1] = <<>>
    <3>1. Extents' = [s \in 1..Len(scopes_) |-> scopes_[s].extent]
      BY <1>1 DEF Extents
    <3> QED BY <1>12, <3>1
  <2>2. Plain(a, Extents'[currentScope_])
    BY <1>11, <1>12, <2>1
  <2> QED BY <2>2, PlainFits
<1>14. \A s \in 1..Len(scopes_) : s = 1
  BY <1>12
<1>15. Hang(scopes_)
  <2>1. IsList(scopes_[1].decls)
    BY <1>12, EmptyList
  <2> QED BY <1>12, <1>14, <2>1 DEF Hang
<1>16. Fill(scopes_, currentScope_, a)
  <2>1. DOMAIN scopes_[1].decls = {}
    <3>1. DOMAIN <<>> = {}
      OBVIOUS
    <3> QED BY <1>12, <3>1
  <2>2. {scopes_[1].decls[i] : i \in DOMAIN scopes_[1].decls} = {}
    BY <2>1
  <2>3. DeclsFor(scopes_[1].extent) = GlobalDecls
    BY <1>12 DEF DeclsFor
  <2> QED BY <1>10, <1>12, <1>14, <2>2, <2>3 DEF Fill
<1>17. Fits(agenda', currentScope_', Extents') /\ DeclaresFirst(agenda') /\ Fill(scopes_', currentScope_', agenda')
       /\ Hang(scopes_') /\ ItemsOK(agenda')
  BY <1>1, <1>9, <1>10, <1>13, <1>15, <1>16 DEF a
<1> QED BY <1>1, <1>17, ResolvingKept

\* The children of a node are visited where the node is, or in the scope it opens.
LEMMA VisitsEnclosed ==
  ASSUME NEW item, Placed(item.node, item.path), NEW q,
         q = item.path \/ (Encloses(q, item.path) /\ item.node[1] \notin Openers)
  PROVE  /\ AllVisits(VisitAll(item)) /\ ItemsOK(VisitAll(item))
         /\ \A k \in 1..Len(VisitAll(item)) : Encloses(q, VisitAll(item)[k].path)
<1> DEFINE items == VisitAll(item)
<1>1. item.node \in Nodes /\ IsPath(item.path) /\ NodeAt(item.path) = item.node
  BY DEF Placed
<1>2. AllVisits(items) /\ ItemsOK(items)
  BY <1>1, TreesOfAll, ItemsOfChildren
<1>3. \A k \in DOMAIN items : items[k].path = Append(item.path, k)
  BY DEF VisitAll, Visit
<1>4. DOMAIN items = 1..Len(items)
  BY <1>2, ListProperties DEF AllVisits
<1> HIDE DEF items
<1>5. \A k : Encloses(q, Append(item.path, k))
  BY <1>1, ChildEnclosed
<1>6. \A k \in 1..Len(items) : Encloses(q, items[k].path)
  BY <1>3, <1>4, <1>5
<1> QED BY <1>2, <1>6 DEF items

\* The body of a function is its last child.
LEMMA BodyIs ==
  ASSUME NEW n, NEW p, Placed(n, p), n[1] = "Function", NEW e, e = Visit(n[6], Append(p, Len(n[5]) + 1), FALSE)
  PROVE  AllVisits(<<e>>) /\ ItemsOK(<<e>>) /\ \A k \in 1..Len(<<e>>) : Encloses(p, <<e>>[k].path)
<1>1. n \in Nodes /\ IsPath(p) /\ NodeAt(p) = n
  BY DEF Placed
<1> DEFINE s == n[5]
           t == <<n[6]>>
           k == Len(s) + 1
<1>2. s \in Seq(Nodes) /\ t \in Seq(Nodes) /\ t[1] = n[6] /\ Len(t) = 1
  BY <1>1, TreesAssumption
<1>3. Children(n) = s \o t
  <2>1. ~IsExprNode(n) /\ n[1] \in DeclClasses
    BY DEF IsExprNode, ExprClasses, LValueClasses, AssignClasses, OperatorClasses, UnaryClasses, LiteralClasses, DeclClasses
  <2> QED BY <2>1 DEF Children, DeclChildren
<1> HIDE DEF s, t
<1>4. k \in DOMAIN (s \o t) /\ (s \o t)[k] = t[1]
  <2>1. IsList(s) /\ IsList(t) /\ Len(s) \in Nat
    BY <1>2, ListOfSeq
  <2> DEFINE u == s \o t
  <2>0. /\ IsList(u) /\ Len(u) = Len(s) + Len(t)
        /\ \A i \in 1..Len(t) : u[i + Len(s)] = t[i]
    BY <2>1, ConcatList
  <2>3. DOMAIN u = 1..Len(u)
    BY <2>0, ListProperties
  <2> HIDE DEF u
  <2>2. /\ IsList(u) /\ Len(u) = Len(s) + 1
        /\ \A i \in 1..1 : u[i + Len(s)] = t[i]
    BY <1>2, <2>0
  <2>4. u[1 + Len(s)] = t[1]
    BY <2>2
  <2>5. k = 1 + Len(s) /\ k \in 1..Len(u)
    BY <2>1, <2>2
  <2>6. u[k] = t[1] /\ k \in DOMAIN u
    BY <2>3, <2>4, <2>5
  <2> QED BY <2>6 DEF u
<1>5. Placed(n[6], Append(p, k)) /\ ~Callee(Append(p, k))
  <2>1. k \in DOMAIN Children(n) /\ Children(n)[k] = n[6]
    BY <1>2, <1>3, <1>4
  <2> HIDE DEF k
  <2> QED BY <2>1, ChildPlaced
<1>6. e.op = "visit" /\ e.node = n[6] /\ e.path = Append(p, k) /\ e.called = FALSE
  BY DEF Visit, s
<1> HIDE DEF k
<1>7. ItemOK(e) /\ e.node \in Nodes /\ Encloses(p, e.path)
  <2>1. Placed(e.node, e.path) /\ ~Callee(e.path)
    BY <1>5, <1>6, Zenon
  <2>2. Encloses(p, e.path)
    BY <1>1, <1>6, ChildEnclosed
  <2> QED BY <1>6, <2>1, <2>2 DEF ItemOK, Placed
<1>8. <<e>> \in Seq({e}) /\ Len(<<e>>) = 1 /\ <<e>>[1] = e
  OBVIOUS
<1>9. IsList(<<e>>) /\ \A i \in 1..Len(<<e>>) : <<e>>[i] = e
  <2>1. \A i \in 1..1 : i = 1
    OBVIOUS
  <2> QED BY <1>8, <2>1, ListOfSeq
<1>10. ItemsOK(<<e>>)
  BY <1>7, ItemsOne
<1> QED BY <1>6, <1>7, <1>9, <1>10 DEF AllVisits

\* What may happen while names are resolved.
LEMMA ResolverSteps ==
  ASSUME IInv, [Next]_vars, status = "resolve"
  PROVE  \/ AddNamedDecl \/ ResolveBlock \/ ResolveFunctionDecl \/ ResolveVariable \/ LeaveScope
         \/ VisitChildren \/ EndOfPass \/ UNCHANGED vars
<1>1. \A phase : ~Begin(phase)
  BY DEF Begin
<1>2. ~TypesNext
  BY <1>1 DEF TypesNext, CompleteFunctionType, FunctionWithoutClass, SkipRecordType, CompleteRecordType, EndOfRecords,
       CheckSemanticError, NextType, NextBehindLast, CheckMember, RecursionFound, CheckRecursiveTypeDef, StackOverflow,
       NotFound, Completing, Searching, Checking
<1>3. ~NoDecls
  BY DEF NoDecls
<1>4. ~ResolveLocalVariable /\ ~SemaCheck /\ ~TypeCheck /\ ~PrintAST
  BY <1>1 DEF ResolveLocalVariable, SemaCheck, TypeCheck, PrintAST
<1>5. ~CheckAssignment /\ ~CheckInvalidFunCall /\ ~CheckInvalidArrRef /\ ~CheckInvalidVariable /\ ~PrintNode /\ ~PrintFunctionDecl
  BY DEF CheckAssignment, CheckInvalidFunCall, CheckInvalidArrRef, CheckInvalidVariable, PrintNode, PrintFunctionDecl, Visiting
<1>6. Terminated => UNCHANGED vars
  BY DEF Terminated
<1> QED BY <1>2, <1>3, <1>4, <1>5, <1>6 DEF Next, PassesNext

\* Every step of the resolver leaves it where it belongs, or ends it.
LEMMA ResolverKept ==
  ASSUME IInv, UnitOK, AnswersOK, Resolving, [Next]_vars, status = "resolve"
  PROVE  Resolving' \/ (status' # "resolve" /\ "resolve" \in DOMAIN answers')
<1> DEFINE Over == status' # "resolve" /\ "resolve" \in DOMAIN answers'
<1>1. Return \/ Refuse \/ Crash => Over
  BY DEF Return, Refuse, Crash, Answer, Put
<1> HIDE DEF Over
<1>2. status # "stopped"
  OBVIOUS
<1>3. CASE AddNamedDecl
  <2>1. Refuse \/ ~HasDuplicatedName(NameOf(Top.node))
    BY <1>3 DEF AddNamedDecl
  <2> QED BY <1>1, <1>3, <2>1, DeclaresOne DEF Over
<1>4. CASE ResolveBlock
  <2>1. Now("visit") /\ Top.node[1] = "Block" /\ PushScope /\ decls_' = decls_
    BY <1>4 DEF ResolveBlock, Visiting, Continue
  <2>2. Placed(Top.node, Top.path)
    BY <2>1, Standing
  <2>3. Locals(Top.node) = Top.node[2] /\ Top.node[1] \in Openers
    BY <2>1 DEF Locals, Openers
  <2>4. Then(DeclareAll(Locals(Top.node), Top.path) \o VisitAll(Top) \o <<Pop(currentScope_)>>)
    BY <1>4, <2>3 DEF ResolveBlock
  <2>5. AllVisits(VisitAll(Top)) /\ ItemsOK(VisitAll(Top)) /\ \A k \in 1..Len(VisitAll(Top)) : Encloses(Top.path, VisitAll(Top)[k].path)
    BY <2>2, VisitsEnclosed
  <2> DEFINE vs == VisitAll(Top)
  <2> HIDE DEF vs
  <2>6. /\ AllVisits(vs) /\ ItemsOK(vs) /\ \A k \in 1..Len(vs) : Encloses(Top.path, vs[k].path)
        /\ Then(DeclareAll(Locals(Top.node), Top.path) \o vs \o <<Pop(currentScope_)>>)
    BY <2>4, <2>5 DEF vs
  <2> QED BY <2>1, <2>3, <2>6, EntersScope
<1>5. CASE ResolveFunctionDecl
  <2>1. Now("visit") /\ Top.node[1] = "Function" /\ PushScope /\ decls_' = decls_
    BY <1>5 DEF ResolveFunctionDecl, Visiting, Continue
  <2>2. Placed(Top.node, Top.path)
    BY <2>1, Standing
  <2>3. Locals(Top.node) = Top.node[5] /\ Top.node[1] \in Openers
    BY <2>1 DEF Locals, Openers
  <2> DEFINE e == Visit(Top.node[6], Append(Top.path, Len(Top.node[5]) + 1), FALSE)
             vs == <<e>>
  <2>4. Then(DeclareAll(Locals(Top.node), Top.path) \o vs \o <<Pop(currentScope_)>>)
    BY <1>5, <2>3 DEF ResolveFunctionDecl
  <2>5. AllVisits(vs) /\ ItemsOK(vs) /\ \A k \in 1..Len(vs) : Encloses(Top.path, vs[k].path)
    BY <2>1, <2>2, BodyIs
  <2> HIDE DEF vs
  <2> QED BY <2>1, <2>3, <2>4, <2>5, EntersScope
<1>6. CASE ResolveVariable
  <2>1. Now("visit") /\ UNCHANGED <<scopes_, currentScope_>> /\ (Refuse \/ (Then(<<>>) /\ Continue))
    BY <1>6 DEF ResolveVariable, Visiting
  <2>2. CASE Then(<<>>) /\ Continue
    <3> DEFINE none == <<>>
    <3>1. IsList(none) /\ Len(none) = 0 /\ ItemsOK(none) /\ Then(none) /\ decls_' = decls_
      BY <2>2, EmptyList, ItemsNone DEF Continue
    <3> HIDE DEF none
    <3>2. \A k \in 1..Len(none) : FALSE
      BY <3>1
    <3>3. AllVisits(none)
      BY <3>1, <3>2 DEF AllVisits
    <3>4. \A k \in 1..Len(none) : Encloses(scopes_[currentScope_].extent, none[k].path)
      BY <3>2
    <3> QED BY <2>1, <3>1, <3>3, <3>4, GoesOn
  <2> QED BY <1>1, <2>1, <2>2 DEF Over
<1>7. CASE LeaveScope
  BY <1>2, <1>7, LeavesScope
<1>8. CASE VisitChildren
  <2>1. /\ Now("visit") /\ Top.node[1] \notin Openers /\ Then(VisitAll(Top))
        /\ UNCHANGED <<decls_, scopes_, currentScope_>>
    BY <1>8 DEF VisitChildren, Overridden, Openers, Continue
  <2>2. Placed(Top.node, Top.path) /\ Encloses(scopes_[currentScope_].extent, Top.path)
    BY <2>1, Standing
  <2> DEFINE vs == VisitAll(Top)
  <2>3. AllVisits(vs) /\ ItemsOK(vs) /\ \A k \in 1..Len(vs) : Encloses(scopes_[currentScope_].extent, vs[k].path)
    BY <2>1, <2>2, VisitsEnclosed
  <2>4. Then(vs)
    BY <2>1
  <2> HIDE DEF vs
  <2> QED BY <2>1, <2>3, <2>4, GoesOn
<1>9. CASE EndOfPass
  BY <1>1, <1>9 DEF EndOfPass, Over
<1>10. CASE UNCHANGED vars
  <2>1. UNCHANGED <<decls_, agenda, scopes_, currentScope_>>
    BY <1>10 DEF vars, passVars
  <2>2. Extents' = Extents
    BY <2>1 DEF Extents
  <2> QED BY <2>1, <2>2, ResolvingKept DEF Resolving
<1> QED BY <1>3, <1>4, <1>5, <1>6, <1>7, <1>8, <1>9, <1>10, ResolverSteps

\* What a name may mean at its place are declarations.
LEMMA MeantDeclares ==
  ASSUME IInv, UnitOK, decls_ # NoDeclarations, NEW n, NEW p, Placed(n, p), NEW name, NEW d \in Meant(name, p)
  PROVE  NodeAt(d.path)[1] \in DeclClasses
<1>1. PICK q \in Around(p) : d \in (IF q = <<>> THEN GlobalDecls ELSE LocalDecls(q))
  BY DEF Meant
<1>2. CASE q = <<>>
  <2>1. PICK list \in {"functions", "constants", "variables"} :
          \E i \in DOMAIN decls_[list] : d = [node |-> decls_[list][i], path |-> <<list, i>>]
    BY <1>1, <1>2 DEF GlobalDecls
  <2>2. PICK i \in DOMAIN decls_[list] : d = [node |-> decls_[list][i], path |-> <<list, i>>]
    BY <2>1
  <2>3. NodeAt(d.path) = decls_[list][i]
    BY <2>2, NodeAtRoot
  <2>4. AreDecls(decls_[list])
    BY ListsAre
  <2> QED BY <2>3, <2>4 DEF AreDecls
<1>3. CASE q # <<>>
  <2>1. PICK m \in 2..Len(p) - 1 : q = SubSeq(p, 1, m)
    BY <1>3 DEF Around
  <2>2. Len(p) \in Nat /\ IsPath(p)
    BY PathNotEmpty DEF Placed
  <2>3. m \in 2..Len(p)
    BY <2>2
  <2>4. IsPath(q) /\ NodeAt(q) \in Nodes
    BY <2>1, <2>2, <2>3, PrefixIsPath DEF Placed
  <2>5. d \in LocalDecls(q)
    BY <1>1, <1>3
  <2>6. NodeAt(q)[1] \in Openers
    BY <2>5, NothingDeclared
  <2>7. PICK k \in DOMAIN Locals(NodeAt(q)) : d = [node |-> Locals(NodeAt(q))[k], path |-> Append(q, k)]
    BY <2>5 DEF LocalDecls
  <2>8. NodeAt(d.path) = Children(NodeAt(q))[k]
    BY <2>4, <2>7, NodeAtChild
  <2>9. Children(NodeAt(q))[k] = Locals(NodeAt(q))[k] /\ Locals(NodeAt(q))[k][1] \in DeclClasses
    BY <2>4, <2>6, LocalsAre DEF Openers
  <2> QED BY <2>8, <2>9
<1> QED BY <1>2, <1>3

BoundOK == \A p \in DOMAIN bound : NodeAt(p)[1] = "Variable" /\ NodeAt(bound[p])[1] \in DeclClasses

\* While nothing is bound, what is bound stays right.
LEMMA SameBindings ==
  ASSUME decls_' = decls_, bound' = bound, BoundOK, BindsInnermost PROVE BoundOK' /\ BindsInnermost'
<1>1. \A p : NodeAt(p)' = NodeAt(p)
  BY PlacesKept
<1>2. BoundOK'
  <2>1. \A p : NodeAt(bound[p])' = NodeAt(bound[p])
    BY DEF NodeAt
  <2> QED BY <1>1, <2>1 DEF BoundOK
<1>3. BindsInnermost'
  <2>1. \A p : Meant(NodeAt(p)[2], p)' = Meant(NodeAt(p)[2], p)
    <3>1. \A p : Callee(p)' <=> Callee(p)
      BY <1>1 DEF Callee
    <3>2. GlobalDecls' = GlobalDecls /\ \A q : LocalDecls(q)' = LocalDecls(q)
      BY <1>1 DEF GlobalDecls, LocalDecls
    <3> QED BY <1>1, <3>1, <3>2 DEF Meant
  <2> QED BY <1>1, <2>1 DEF BindsInnermost
<1> QED BY <1>2, <1>3

\* One name at a time is bound, to the innermost of what it may mean.
LEMMA BindingsKept ==
  ASSUME IInv, UnitOK, Resolving, BoundOK, BindsInnermost, ResolveVariable PROVE BoundOK' /\ BindsInnermost'
<1> DEFINE nd == IF Top.called THEN FindFuncDecl(Top.node[2]) ELSE FindDecl(Top.node[2])
           path == Top.path
           meant == Meant(Top.node[2], Top.path)
<1>1. Now("visit") /\ Top.node[1] = "Variable" /\ decls_' = decls_ /\ (bound' = bound \/ (nd # Null /\ bound' = Put(bound, path, nd)))
  BY DEF ResolveVariable, Visiting, Refuse, Answer, Continue
<1>2. /\ Placed(Top.node, path) /\ (Top.called <=> Callee(path)) /\ Encloses(scopes_[currentScope_].extent, path)
      /\ NoDeclares(agenda)
  BY <1>1, Standing
<1>3. NodeAt(path) = Top.node /\ IsPath(path)
  BY <1>2 DEF Placed
<1>4. Right(nd, meant)
  <2>1. Filled /\ ScopesHang /\ ScopeTree
    BY <1>2, AllFilled DEF IInv
  <2> QED BY <1>2, <1>3, <2>1, ResolvedRight
<1> HIDE DEF nd
<1>5. CASE bound' = bound
  BY <1>1, <1>5, SameBindings
<1>6. CASE nd # Null /\ bound' = Put(bound, path, nd)
  <2>1. PICK d \in meant : d.path = nd /\ \A c \in meant : Len(Extent(c)) <= Len(Extent(d))
    BY <1>4, <1>6 DEF Right
  <2>2. NodeAt(nd)[1] \in DeclClasses
    <3>1. decls_ # NoDeclarations
      BY DEF Resolving
    <3> QED BY <1>2, <2>1, <3>1, MeantDeclares
  <2>3. DOMAIN bound' = DOMAIN bound \cup {path} /\ \A p \in DOMAIN bound' : bound'[p] = IF p = path THEN nd ELSE bound[p]
    BY <1>6 DEF Put
  <2>4. \A p : NodeAt(p)' = NodeAt(p)
    BY <1>1, PlacesKept
  <2>5. BoundOK'
    <3>1. \A p : NodeAt(bound[p])' = NodeAt(bound'[p])
      BY <1>1 DEF NodeAt
    <3>2. \A p \in DOMAIN bound' : NodeAt(p)[1] = "Variable" /\ NodeAt(bound'[p])[1] \in DeclClasses
      <4> TAKE p \in DOMAIN bound'
      <4>1. CASE p = path
        BY <1>1, <1>3, <2>2, <2>3, <4>1
      <4>2. CASE p # path
        BY <2>3, <4>2 DEF BoundOK
      <4> QED BY <4>1, <4>2
    <3> QED BY <2>4, <3>1, <3>2 DEF BoundOK
  <2>6. BindsInnermost'
    <3>1. \A p : Meant(NodeAt(p)[2], p)' = Meant(NodeAt(p)[2], p)
      <4>1. \A p : Callee(p)' <=> Callee(p)
        BY <2>4 DEF Callee
      <4>2. GlobalDecls' = GlobalDecls /\ \A q : LocalDecls(q)' = LocalDecls(q)
        BY <1>1, <2>4 DEF GlobalDecls, LocalDecls
      <4> QED BY <2>4, <4>1, <4>2 DEF Meant
    <3>2. \A p \in DOMAIN bound' :
            \E b \in Meant(NodeAt(p)[2], p) : b.path = bound'[p] /\ \A c \in Meant(NodeAt(p)[2], p) : Len(Extent(c)) <= Len(Extent(b))
      <4> TAKE p \in DOMAIN bound'
      <4>1. CASE p = path
        BY <1>3, <2>1, <2>3, <4>1
      <4>2. CASE p # path
        BY <2>3, <4>2 DEF BindsInnermost
      <4> QED BY <4>1, <4>2
    <3> QED BY <3>1, <3>2 DEF BindsInnermost
  <2> QED BY <2>5, <2>6
<1> QED BY <1>1, <1>5, <1>6

ResolveGoes ==
  /\ status = "resolve" => Resolving
  /\ status # "resolve" /\ "resolve" \notin DOMAIN answers => Untouched
  /\ BoundOK /\ BindsInnermost

\* The other phases leave the scopes alone.
LEMMA ScopesElsewhere ==
  ASSUME IInv, [Next]_vars, status # "resolve", status \in {"sema", "check", "print"} => AllVisits(agenda)
  PROVE  UNCHANGED <<scopes_, currentScope_>>
<1>1. CASE status \in {"sema", "check", "print"}
  <2>1. \/ status = "sema" /\ (CheckAssignment \/ CheckInvalidFunCall \/ CheckInvalidArrRef \/ VisitChildren)
        \/ status = "check" /\ (CheckInvalidVariable \/ VisitChildren)
        \/ status = "print" /\ (PrintNode \/ PrintFunctionDecl)
        \/ EndOfPass \/ UNCHANGED vars
    BY <1>1, VisitingSteps
  <2> QED BY <2>1 DEF CheckAssignment, CheckInvalidFunCall, CheckInvalidArrRef, VisitChildren, CheckInvalidVariable,
            PrintNode, PrintFunctionDecl, EndOfPass, passVars, vars
<1>2. CASE status \notin {"sema", "check", "print"}
  <2>1. agenda = <<>>
    BY <1>2 DEF IInv, Busy
  <2>2. \A op : ~Now(op)
    BY <2>1 DEF Now
  <2>3. CASE PassesNext
    <3>1. ResolveLocalVariable \/ SemaCheck \/ TypeCheck \/ PrintAST \/ EndOfPass
      BY <2>2, <2>3 DEF PassesNext, AddNamedDecl, ResolveBlock, ResolveFunctionDecl, ResolveVariable, LeaveScope,
           CheckAssignment, CheckInvalidFunCall, CheckInvalidArrRef, CheckInvalidVariable, PrintNode, PrintFunctionDecl,
           VisitChildren, Visiting
    <3> QED BY <3>1 DEF ResolveLocalVariable, SemaCheck, TypeCheck, PrintAST, EndOfPass, passVars
  <2>4. CASE ~PassesNext
    BY <2>4 DEF Next, Terminated, passVars, vars
  <2> QED BY <2>3, <2>4
<1> QED BY <1>1, <1>2

\* Every step keeps the names bound to what they mean.
LEMMA ResolveKept ==
  ASSUME IInv, UnitOK, AnswersOK, ResolveGoes, [Next]_vars,
         status \in {"sema", "check", "print"} => AllVisits(agenda)
  PROVE  ResolveGoes'
<1>1. decls_' = decls_ /\ UNCHANGED <<decls_, types_>>
  BY ControlOK
<1>2. /\ "resolve" \in DOMAIN answers => "resolve" \in DOMAIN answers'
      /\ status' = "resolve" => status = "resolve" \/ Begin("resolve")
  BY AnswerKept DEF Phases
<1>3. BoundOK' /\ BindsInnermost'
  <2>1. CASE bound' = bound
    BY <1>1, <2>1, SameBindings DEF ResolveGoes
  <2>2. CASE bound' # bound
    <3>1. status = "resolve"
      BY <2>2, BoundKept
    <3>2. ResolveVariable
      <4>1. \/ AddNamedDecl \/ ResolveBlock \/ ResolveFunctionDecl \/ ResolveVariable \/ LeaveScope
            \/ VisitChildren \/ EndOfPass \/ UNCHANGED vars
        BY <3>1, ResolverSteps
      <4> QED BY <2>2, <4>1 DEF AddNamedDecl, ResolveBlock, ResolveFunctionDecl, LeaveScope, VisitChildren, EndOfPass, passVars, vars
    <3> QED BY <3>1, <3>2, BindingsKept DEF ResolveGoes
  <2> QED BY <2>1, <2>2
<1>4. CASE status = "resolve"
  <2>1. Resolving' \/ (status' # "resolve" /\ "resolve" \in DOMAIN answers')
    BY <1>4, ResolverKept DEF ResolveGoes
  <2>2. status' # "resolve" => "resolve" \in DOMAIN answers' \/ Untouched'
    <3>1. status' # status => "resolve" \in DOMAIN answers'
      <4>1. (\E phase \in Phases : Begin(phase)) \/ Working(Phases) \/ NoDecls \/ Continue
        BY Kinds
      <4>2. Return \/ Refuse \/ Crash \/ Continue
        BY <1>4, <4>1 DEF Begin, NoDecls, Working
      <4> QED BY <1>4, <4>2 DEF Return, Refuse, Crash, Answer, Put, Continue
    <3> QED BY <1>4, <3>1
  <2> QED BY <1>3, <2>1, <2>2 DEF ResolveGoes
<1>5. CASE status # "resolve"
  <2>1. UNCHANGED <<scopes_, currentScope_>>
    BY <1>5, ScopesElsewhere
  <2>2. ASSUME status' = "resolve" PROVE Resolving'
    <3>1. Begin("resolve")
      BY <1>2, <1>5, <2>2
    <3>2. ResolveLocalVariable
      BY <3>1, BeginsAre
    <3>3. Untouched
      BY <1>5, <3>1 DEF Begin, ResolveGoes
    <3> QED BY <3>2, <3>3, ResolverBegins
  <2>3. "resolve" \notin DOMAIN answers' => Untouched'
    BY <1>2, <1>5, <2>1 DEF ResolveGoes, Untouched
  <2> QED BY <1>3, <2>2, <2>3 DEF ResolveGoes
<1> QED BY <1>4, <1>5

-----------------------------------------------------------------------------
(* What the resolver comes to                                               *)

Clashes == Twice(GlobalDecls \cup UNION {LocalDecls(b.path) : b \in Visited})
Unmeant == {x \in OfClass(Visited, "Variable") : Meant(x.node[2], x.path) = {}}

\* What a node asks of the resolver has been done: a name is bound, a block or a
\* function has had its scope.
Done(x, scopes, binds) ==
  /\ x.node[1] = "Variable" => x.path \in DOMAIN binds
  /\ x.node[1] \in Openers => \E s \in 1..Len(scopes) : scopes[s].extent = x.path

ComesTo(items, scopes, binds) ==
  TreesOf(items) \subseteq Visited /\ \A x \in Visited : x \in TreesOf(items) \/ Done(x, scopes, binds)

\* No scope has a name twice.
Distinct(scopes) ==
  \A s \in 1..Len(scopes) : \A i, j \in DOMAIN scopes[s].decls :
    i # j => NameOf(scopes[s].decls[i].node) # NameOf(scopes[s].decls[j].node)

\* What is to be declared are different declarations, and none of those that are.
Apart(items) ==
  \A j, k \in 1..Len(items) : items[j].op = "declare" /\ items[k].op = "declare" /\ j # k => items[j].path # items[k].path
Fresh(decls, items) ==
  \A i \in DOMAIN decls : \A k \in 1..Len(items) : items[k].op = "declare" => decls[i].path # items[k].path

\* Scopes are for what the resolver visits.
Sited(scopes) == \A s \in 1..Len(scopes) : scopes[s].extent = <<>> \/ \E b \in Visited : b.path = scopes[s].extent

Resolves ==
  /\ ComesTo(agenda, scopes_, bound)
  /\ Distinct(scopes_) /\ Sited(scopes_)
  /\ Apart(agenda) /\ Fresh(scopes_[currentScope_].decls, agenda)

\* Paths of what is visited lead there.
LEMMA VisitedPlaced ==
  ASSUME IInv, UnitOK, decls_ # NoDeclarations PROVE \A x \in Visited : Placed(x.node, x.path)
<1> SUFFICES ASSUME NEW list \in {"variables", "constants", "functions"}, decls_[list] # <<>>,
                    NEW x \in Tree(decls_[list][1], <<list, 1>>)
             PROVE  Placed(x.node, x.path)
  BY DEF Visited
<1>1. decls_[list] \in Seq(Nodes)
  BY ListsAre
<1>2. 1 \in DOMAIN decls_[list]
  BY <1>1
<1> DEFINE n == decls_[list][1]
           p == <<list, 1>>
<1>3. Placed(n, p)
  BY <1>1, <1>2, RootPlaced
<1>4. n \in Nodes
  BY <1>3 DEF Placed
<1> HIDE DEF n, p
<1> DEFINE S == {y \in Tree(n, p) : Placed(y.node, y.path)}
<1>5. [node |-> n, path |-> p] \in S
  BY <1>3, <1>4, TreeClosed
<1>6. \A y \in S : y \in Tree(n, p) => \A k \in DOMAIN Children(y.node) : Kid(y, k) \in S
  <2> SUFFICES ASSUME NEW y \in Tree(n, p), Placed(y.node, y.path), NEW k \in DOMAIN Children(y.node)
               PROVE  Kid(y, k) \in S
    OBVIOUS
  <2>1. Kid(y, k) \in Tree(n, p)
    BY <1>4, TreeClosed
  <2>2. Placed(Children(y.node)[k], Append(y.path, k))
    BY ChildPlaced
  <2>3. Kid(y, k).node = Children(y.node)[k] /\ Kid(y, k).path = Append(y.path, k)
    BY DEF Kid
  <2>4. Placed(Kid(y, k).node, Kid(y, k).path)
    BY <2>2, <2>3, Zenon
  <2> QED BY <2>1, <2>4
<1> HIDE DEF S
<1>7. Tree(n, p) \subseteq S
  BY <1>4, <1>5, <1>6, TreeLeast
<1>8. x \in S
  BY <1>7 DEF n, p
<1> QED BY <1>8 DEF S

\* As the lists of the Declarations do not change, it does not matter when this is asked.
LEMMA VerdictKept ==
  ASSUME decls_' = decls_
  PROVE  /\ Visited' = Visited /\ (Clashes' <=> Clashes) /\ Unmeant' = Unmeant
         /\ \A class : OfClass(Visited, class)' = OfClass(Visited, class)
<1>1. Visited' = Visited
  BY DEF Visited
<1>2. \A p : NodeAt(p)' = NodeAt(p)
  BY PlacesKept
<1>3. GlobalDecls' = GlobalDecls /\ \A q : LocalDecls(q)' = LocalDecls(q)
  BY <1>2 DEF GlobalDecls, LocalDecls
<1>4. \A name, p : Meant(name, p)' = Meant(name, p)
  BY MeaningKept
<1>5. UNION {LocalDecls(b.path) : b \in Visited}' = UNION {LocalDecls(b.path) : b \in Visited}
  BY <1>1, <1>3
<1>6. Clashes' <=> Clashes
  BY <1>3, <1>5 DEF Clashes, Twice
<1>7. OfClass(Visited, "Variable")' = OfClass(Visited, "Variable")
  BY <1>1 DEF OfClass
<1>8. Unmeant' = Unmeant
  BY <1>4, <1>7 DEF Unmeant
<1> QED BY <1>1, <1>6, <1>8 DEF OfClass

\* The resolver's answer, once given, stays right.
LEMMA ResolveExactStays ==
  ASSUME decls_' = decls_, bound' = bound, ResolveExact,
         "resolve" \in DOMAIN answers' => "resolve" \in DOMAIN answers /\ answers'["resolve"] = answers["resolve"]
  PROVE  ResolveExact'
<1>1. /\ Visited' = Visited /\ (Clashes' <=> Clashes) /\ Unmeant' = Unmeant
      /\ OfClass(Visited, "Variable")' = OfClass(Visited, "Variable")
  BY VerdictKept
<1>2. Answered("resolve")' => Answered("resolve") /\ answers'["resolve"] = answers["resolve"]
  BY DEF Answered
<1>3. ResolveExact <=>
        (Answered("resolve") =>
           /\ (answers["resolve"] = "true") = (~Clashes /\ \A x \in OfClass(Visited, "Variable") : Meant(x.node[2], x.path) # {})
           /\ answers["resolve"] = "true" => \A x \in OfClass(Visited, "Variable") : x.path \in DOMAIN bound)
  BY DEF ResolveExact, Clashes
<1> QED BY <1>1, <1>2, <1>3 DEF ResolveExact, Clashes, Unmeant

\* Scopes stay, and names stay bound.
Grows(scopes, binds, more, bindings) ==
  /\ Len(scopes) \in Nat /\ Len(more) \in Nat /\ Len(scopes) <= Len(more)
  /\ \A s \in 1..Len(scopes) : more[s].extent = scopes[s].extent
  /\ DOMAIN binds \subseteq DOMAIN bindings

\* What has been done stays so.
LEMMA DoneStays ==
  ASSUME NEW scopes, NEW binds, NEW more, NEW bindings, Grows(scopes, binds, more, bindings),
         NEW x, Done(x, scopes, binds)
  PROVE  Done(x, more, bindings)
<1>1. x.node[1] = "Variable" => x.path \in DOMAIN bindings
  BY DEF Done, Grows
<1>2. ASSUME x.node[1] \in Openers PROVE \E s \in 1..Len(more) : more[s].extent = x.path
  <2>1. PICK s \in 1..Len(scopes) : scopes[s].extent = x.path
    BY <1>2 DEF Done
  <2>2. s \in 1..Len(more) /\ more[s].extent = x.path
    BY <2>1 DEF Grows
  <2> QED BY <2>2
<1> QED BY <1>1, <1>2 DEF Done

\* An item gives way to items in whose trees is all of its own that has not been done.
LEMMA ComesOn ==
  ASSUME IsList(agenda), agenda # <<>>, NEW items, IsList(items), Then(items),
         ComesTo(agenda, scopes_, bound), decls_' = decls_, TreesOf(items) \subseteq Visited,
         Grows(scopes_, bound, scopes_', bound'),
         \A x \in Under(agenda[1]) : x \in TreesOf(items) \/ Done(x, scopes_', bound')
  PROVE  ComesTo(agenda', scopes_', bound')
<1> DEFINE t == Tail(agenda)
<1>1. IsList(t)
  BY TailList
<1>2. agenda' = items \o t
  BY DEF Then
<1>3. TreesOf(agenda) = Under(agenda[1]) \cup TreesOf(t)
  BY TreesHead
<1> HIDE DEF t
<1>4. TreesOf(items \o t) = TreesOf(items) \cup TreesOf(t)
  BY <1>1, TreesConcat
<1>5. TreesOf(agenda') = TreesOf(items) \cup TreesOf(t)
  BY <1>2, <1>4
<1>6. TreesOf(agenda) \subseteq Visited /\ \A x \in Visited : x \in TreesOf(agenda) \/ Done(x, scopes_, bound)
  BY DEF ComesTo
<1>7. \A x \in Visited : Done(x, scopes_, bound) => Done(x, scopes_', bound')
  BY DoneStays
<1>8. TreesOf(agenda') \subseteq Visited
  BY <1>3, <1>5, <1>6
<1>9. \A x \in Visited : x \in TreesOf(agenda') \/ Done(x, scopes_', bound')
  BY <1>3, <1>5, <1>6, <1>7
<1> QED BY <1>8, <1>9 DEF ComesTo

\* What is not visited has no tree.
LEMMA TreesOfOthers ==
  ASSUME NEW items, \A k \in 1..Len(items) : items[k].op # "visit" PROVE TreesOf(items) = {}
BY DEF TreesOf, Under

\* Nothing to be declared is declared twice.
LEMMA NoneApart ==
  ASSUME NEW items, NoDeclares(items), NEW decls PROVE Apart(items) /\ Fresh(decls, items)
BY DEF NoDeclares, Apart, Fresh

\* Different declarations, one list behind the other.
LEMMA ApartConcat ==
  ASSUME NEW s, NEW t, IsList(s), IsList(t), Apart(s), Apart(t),
         \A j \in 1..Len(s), k \in 1..Len(t) : s[j].op = "declare" /\ t[k].op = "declare" => s[j].path # t[k].path
  PROVE  Apart(s \o t)
<1> DEFINE u == s \o t
           m == Len(s)
           n == Len(t)
<1>1. /\ Len(u) = m + n /\ m \in Nat /\ n \in Nat
      /\ \A k \in 1..m : u[k] = s[k]
      /\ \A k \in 1..n : u[k + m] = t[k]
  BY ConcatList DEF IsList
<1> HIDE DEF u
<1> SUFFICES ASSUME NEW j \in 1..m + n, NEW k \in 1..m + n, u[j].op = "declare", u[k].op = "declare", j # k
             PROVE  u[j].path # u[k].path
  BY <1>1 DEF Apart, u
<1>2. \A i \in 1..m + n : i \in 1..m \/ (i - m \in 1..n /\ i = (i - m) + m)
  BY <1>1
<1>3. \A i \in 1..m + n : (i \in 1..m /\ u[i] = s[i]) \/ (i - m \in 1..n /\ u[i] = t[i - m])
  <2> TAKE i \in 1..m + n
  <2>1. CASE i \in 1..m
    BY <1>1, <2>1
  <2>2. CASE i - m \in 1..n /\ i = (i - m) + m
    BY <1>1, <2>2
  <2> QED BY <1>2, <2>1, <2>2
<1>4. CASE j \in 1..m /\ u[j] = s[j] /\ k \in 1..m /\ u[k] = s[k]
  BY <1>4 DEF Apart
<1>5. CASE j \in 1..m /\ u[j] = s[j] /\ k - m \in 1..n /\ u[k] = t[k - m]
  BY <1>5
<1>6. CASE j - m \in 1..n /\ u[j] = t[j - m] /\ k \in 1..m /\ u[k] = s[k]
  BY <1>6
<1>7. CASE j - m \in 1..n /\ u[j] = t[j - m] /\ k - m \in 1..n /\ u[k] = t[k - m]
  <2>1. j - m # k - m
    BY <1>1
  <2> QED BY <1>7, <2>1 DEF Apart
<1> QED BY <1>3, <1>4, <1>5, <1>6, <1>7

\* The declarations of a list of nodes are different ones.
LEMMA AllApart ==
  ASSUME NEW nodes \in Seq(Nodes), NEW path, IsList(path)
  PROVE  /\ Apart(DeclareAll(nodes, path))
         /\ \A k \in 1..Len(DeclareAll(nodes, path)) :
              k \in DOMAIN nodes /\ DeclareAll(nodes, path)[k] = Declare(nodes[k], Append(path, k))
<1> DEFINE s == DeclareAll(nodes, path)
<1>1. IsList(s)
  BY AheadOfAll
<1>2. s = [k \in DOMAIN nodes |-> Declare(nodes[k], Append(path, k))]
  BY DEF DeclareAll
<1>3. DOMAIN s = DOMAIN nodes /\ DOMAIN s = 1..Len(s)
  BY <1>1, <1>2, ListProperties
<1> HIDE DEF s
<1>4. \A k \in 1..Len(s) : k \in DOMAIN nodes /\ s[k] = Declare(nodes[k], Append(path, k))
  BY <1>2, <1>3
<1>5. \A k \in 1..Len(s) : s[k].path[Len(path) + 1] = k
  <2> TAKE k \in 1..Len(s)
  <2>1. s[k].path = Append(path, k)
    <3>1. \A n, q : Declare(n, q).path = q
      BY DEF Declare
    <3> QED BY <1>4, <3>1, Zenon
  <2>2. Append(path, k)[Len(path) + 1] = k
    BY AppendList
  <2> QED BY <2>1, <2>2
<1>6. Apart(s)
  BY <1>5 DEF Apart
<1> QED BY <1>4, <1>6 DEF s

\* The first item is done.
LEMMA ApartTail ==
  ASSUME NEW u, IsList(u), u # <<>>, Apart(u), NEW decls, Fresh(decls, u)
  PROVE  /\ Apart(Tail(u)) /\ Fresh(decls, Tail(u))
         /\ u[1].op = "declare" => \A k \in 1..Len(Tail(u)) : Tail(u)[k].op = "declare" => u[1].path # Tail(u)[k].path
<1> DEFINE t == Tail(u)
<1>1. /\ Len(t) = Len(u) - 1 /\ Len(u) \in Nat
      /\ \A k \in 1..Len(u) - 1 : t[k] = u[k + 1]
  BY TailList, ListProperties
<1> HIDE DEF t
<1>2. \A k \in 1..Len(t) : k + 1 \in 1..Len(u) /\ t[k] = u[k + 1] /\ k + 1 # 1 /\ 1 \in 1..Len(u)
  BY <1>1
<1>3. \A j, k \in 1..Len(t) : j # k => j + 1 # k + 1
  BY <1>1
<1>4. Apart(t)
  BY <1>2, <1>3 DEF Apart
<1>5. Fresh(decls, t)
  BY <1>2 DEF Fresh
<1>6. u[1].op = "declare" => \A k \in 1..Len(t) : t[k].op = "declare" => u[1].path # t[k].path
  BY <1>2 DEF Apart
<1> QED BY <1>4, <1>5, <1>6 DEF t

\* What is to hold after a step can be asked before it.
LEMMA ResolvesKept ==
  ASSUME decls_' = decls_, ComesTo(agenda', scopes_', bound'), Distinct(scopes_'), Sited(scopes_'),
         Apart(agenda'), Fresh(scopes_'[currentScope_'].decls, agenda')
  PROVE  Resolves'
<1>1. Visited' = Visited
  BY VerdictKept
<1>2. ComesTo(agenda, scopes_, bound)'
  BY <1>1 DEF ComesTo, Done
<1>3. Distinct(scopes_)'
  BY DEF Distinct
<1>4. Sited(scopes_)'
  BY <1>1 DEF Sited
<1>5. Apart(agenda)' /\ Fresh(scopes_[currentScope_].decls, agenda)'
  BY DEF Apart, Fresh
<1> QED BY <1>2, <1>3, <1>4, <1>5 DEF Resolves

\* What is at the front of the agenda is visited.
LEMMA TopVisited ==
  ASSUME Resolves, IsList(agenda), agenda # <<>> PROVE Under(agenda[1]) \subseteq Visited
<1>1. TreesOf(agenda) = Under(agenda[1]) \cup TreesOf(Tail(agenda))
  BY TreesHead
<1> QED BY <1>1 DEF Resolves, ComesTo

\* No scope is entered: the first item gives way to items that declare nothing.
LEMMA ResolvesOn ==
  ASSUME IInv, Resolving, Resolves, agenda # <<>>, agenda[1].op # "declare",
         NEW items, IsList(items), NoDeclares(items), Then(items), decls_' = decls_, scopes_' = scopes_,
         DOMAIN bound \subseteq DOMAIN bound', TreesOf(items) \subseteq Visited,
         \A x \in Under(agenda[1]) : x \in TreesOf(items) \/ Done(x, scopes_', bound')
  PROVE  Resolves'
<1>1. IsList(agenda) /\ IsList(scopes_) /\ DeclaresFirst(agenda)
  BY DEF IInv, AgendaOK, ScopeTree, Resolving
<1>2. IsList(Tail(agenda)) /\ NoDeclares(Tail(agenda))
  BY <1>1, TailList, AheadTail
<1>3. agenda' = items \o Tail(agenda)
  BY DEF Then
<1>4. NoDeclares(items \o Tail(agenda))
  BY <1>2, AheadConcat
<1>5. Apart(agenda') /\ Fresh(scopes_'[currentScope_'].decls, agenda')
  BY <1>3, <1>4, NoneApart
<1>6. Grows(scopes_, bound, scopes_', bound')
  BY <1>1, ListProperties DEF Grows
<1>7. ComesTo(agenda', scopes_', bound')
  BY <1>1, <1>6, ComesOn DEF Resolves
<1>8. Distinct(scopes_') /\ Sited(scopes_')
  BY DEF Resolves
<1> QED BY <1>5, <1>7, <1>8, ResolvesKept

\* A scope is entered: the node has had its scope, which is still empty.
LEMMA ResolvesIn ==
  ASSUME IInv, Resolving, Resolves, Now("visit"), Top.node[1] \in Openers,
         NEW vs, AllVisits(vs), TreesOf(vs) \subseteq Under(Top),
         \A x \in Under(Top) : x = Here \/ x \in TreesOf(vs) \/ x.node[1] \notin Openers \cup {"Variable"},
         Then(DeclareAll(Locals(Top.node), Top.path) \o vs \o <<Pop(currentScope_)>>),
         decls_' = decls_, bound' = bound, PushScope
  PROVE  Resolves'
<1> DEFINE ds == DeclareAll(Locals(Top.node), Top.path)
           pop == <<Pop(currentScope_)>>
           items == ds \o vs \o pop
<1>1. /\ agenda # <<>> /\ Top = agenda[1] /\ Placed(Top.node, Top.path)
      /\ NoDeclares(Tail(agenda)) /\ IsList(Tail(agenda)) /\ IsList(agenda)
  BY Standing DEF IInv, AgendaOK
<1>2. Locals(Top.node) \in Seq(Nodes) /\ IsPath(Top.path) /\ IsList(Top.path)
  BY <1>1, LocalsAre DEF Placed, Openers, IsPath
<1>3. /\ IsList(ds) /\ OnlyDeclares(ds) /\ Apart(ds)
  BY <1>2, AheadOfAll, AllApart
<1>4. IsList(vs) /\ NoDeclares(vs)
  BY VisitsDeclareNothing
<1>5. IsList(pop) /\ NoDeclares(pop) /\ (\A k \in 1..Len(pop) : pop[k].op # "visit")
  <2>1. Len(pop) = 1 /\ pop[1].op = "pop" /\ pop \in Seq({Pop(currentScope_)})
    BY DEF Pop
  <2>2. \A k \in 1..1 : k = 1
    OBVIOUS
  <2> HIDE DEF pop
  <2> QED BY <2>1, <2>2, ListOfSeq DEF NoDeclares
<1>6. Then(items)
  OBVIOUS
<1> HIDE DEF ds, pop
<1>7. /\ IsList(ds \o vs) /\ IsList(items)
  BY <1>3, <1>4, <1>5, ConcatList
<1>8. TreesOf(items) = TreesOf(vs)
  <2>1. TreesOf(ds) = {} /\ TreesOf(pop) = {}
    <3>1. \A k \in 1..Len(ds) : ds[k].op # "visit"
      BY <1>3 DEF OnlyDeclares
    <3> QED BY <1>5, <3>1, TreesOfOthers
  <2>2. TreesOf(ds \o vs) = TreesOf(ds) \cup TreesOf(vs)
    BY <1>3, <1>4, TreesConcat
  <2>3. TreesOf(items) = TreesOf(ds \o vs) \cup TreesOf(pop)
    BY <1>5, <1>7, TreesConcat
  <2> QED BY <2>1, <2>2, <2>3
<1>9. agenda' = items \o Tail(agenda)
  BY <1>6 DEF Then
<1> HIDE DEF items
<1>10. Apart(agenda')
  <2> DEFINE t == Tail(agenda)
             rest == vs \o pop \o t
  <2>1. IsList(vs \o pop) /\ NoDeclares(vs \o pop)
    BY <1>4, <1>5, ConcatList, AheadConcat
  <2>2. IsList(t) /\ NoDeclares(t)
    BY <1>1
  <2> HIDE DEF t
  <2>3. IsList(rest) /\ NoDeclares(rest)
    BY <2>1, <2>2, ConcatList, AheadConcat
  <2>4. items = ds \o (vs \o pop)
    BY <1>3, <1>4, <1>5, ConcatAssoc DEF items
  <2>5. items \o t = ds \o rest
    BY <1>3, <2>1, <2>2, <2>4, ConcatAssoc
  <2>6. agenda' = ds \o rest
    BY <1>9, <2>5 DEF t
  <2> HIDE DEF rest
  <2>7. Apart(rest)
    BY <2>3, NoneApart
  <2>8. Apart(ds \o rest)
    BY <1>3, <2>3, <2>7, ApartConcat DEF NoDeclares
  <2> QED BY <2>6, <2>8
<1>11. /\ Len(scopes_) \in Nat /\ currentScope_ \in 1..Len(scopes_)
       /\ Len(scopes_') = Len(scopes_) + 1 /\ currentScope_' = Len(scopes_) + 1
       /\ \A s \in 1..Len(scopes_) : scopes_'[s] = scopes_[s]
       /\ scopes_'[Len(scopes_) + 1].extent = Top.path
       /\ scopes_'[Len(scopes_) + 1].decls = <<>>
  BY PushIs DEF EmptyScope
<1>12. \A s \in 1..Len(scopes_') : s \in 1..Len(scopes_) \/ s = Len(scopes_) + 1
  BY <1>11
<1>13. Len(scopes_) + 1 \in 1..Len(scopes_')
  BY <1>11
<1>14. DOMAIN scopes_'[Len(scopes_) + 1].decls = {}
  <2>1. DOMAIN <<>> = {}
    OBVIOUS
  <2> QED BY <1>11, <2>1
<1>15. Fresh(scopes_'[currentScope_'].decls, agenda')
  BY <1>11, <1>14 DEF Fresh
<1>16. Distinct(scopes_')
  <2>1. Distinct(scopes_)
    BY DEF Resolves
  <2> QED BY <1>11, <1>12, <1>14, <2>1 DEF Distinct
<1>17. Under(Top) \subseteq Visited /\ Here \in Visited
  <2>1. Under(Top) \subseteq Visited
    BY <1>1, TopVisited
  <2>2. Top.op = "visit" /\ Top.node \in Nodes
    BY <1>1 DEF Now, Placed
  <2>3. Here \in Under(Top)
    BY <2>2, TreeClosed DEF Under, Here
  <2> QED BY <2>1, <2>3
<1>18. Sited(scopes_')
  <2>1. Sited(scopes_)
    BY DEF Resolves
  <2>2. Here.path = Top.path
    BY DEF Here
  <2>3. ASSUME NEW s \in 1..Len(scopes_') PROVE scopes_'[s].extent = <<>> \/ \E b \in Visited : b.path = scopes_'[s].extent
    <3>1. CASE s \in 1..Len(scopes_)
      BY <1>11, <2>1, <3>1 DEF Sited
    <3>2. CASE s = Len(scopes_) + 1
      BY <1>11, <1>17, <2>2, <3>2
    <3> QED BY <1>12, <3>1, <3>2
  <2> QED BY <2>3 DEF Sited
<1>19. Grows(scopes_, bound, scopes_', bound')
  BY <1>11 DEF Grows
<1>20. \A x \in Under(agenda[1]) : x \in TreesOf(items) \/ Done(x, scopes_', bound')
  <2> SUFFICES ASSUME NEW x \in Under(Top), x \notin TreesOf(vs) PROVE Done(x, scopes_', bound')
    BY <1>1, <1>8
  <2>1. CASE x = Here
    <3>1. x.node = Top.node /\ x.path = Top.path
      BY <2>1 DEF Here
    <3>2. x.node[1] # "Variable"
      BY <3>1 DEF Openers
    <3>3. \E s \in 1..Len(scopes_') : scopes_'[s].extent = x.path
      BY <1>11, <1>13, <3>1
    <3> QED BY <3>2, <3>3 DEF Done
  <2>2. CASE x.node[1] \notin Openers \cup {"Variable"}
    BY <2>2 DEF Done
  <2> QED BY <2>1, <2>2
<1>21. ComesTo(agenda', scopes_', bound')
  <2>1. TreesOf(items) \subseteq Visited
    BY <1>8, <1>17
  <2>2. IsList(items) /\ Then(items)
    BY <1>7, <1>9 DEF Then
  <2>3. ComesTo(agenda, scopes_, bound)
    BY DEF Resolves
  <2> QED BY <1>1, <1>19, <1>20, <2>1, <2>2, <2>3, ComesOn
<1> QED BY <1>10, <1>15, <1>16, <1>18, <1>21, ResolvesKept

\* A declaration joins those of the current scope, which has none of that name.
LEMMA ResolvesDeclared ==
  ASSUME IInv, Resolving, Resolves, AddNamedDecl, ~HasDuplicatedName(NameOf(Top.node)) PROVE Resolves'
<1> DEFINE t == Tail(agenda)
           none == <<>>
           e == [node |-> Top.node, path |-> Top.path]
           N == Len(scopes_)
           S == scopes_'
           c == currentScope_
           a == scopes_[c].decls
           b == S[c].decls
<1>1. /\ Now("declare") /\ Then(none) /\ decls_' = decls_ /\ currentScope_' = currentScope_ /\ bound' = bound
      /\ S = [scopes_ EXCEPT ![currentScope_].decls = Append(@, e)]
  BY DEF AddNamedDecl, Continue
<1>2. agenda # <<>> /\ agenda[1].op = "declare" /\ Top = agenda[1] /\ IsList(agenda)
  BY <1>1, FirstItem DEF IInv, AgendaOK
<1>3. IsList(t)
  BY <1>2, TailList
<1>4. agenda' = t
  <2>1. agenda' = none \o t
    BY <1>1 DEF Then
  <2>2. \E T : t \in Seq(T)
    BY <1>3 DEF IsList
  <2>3. PICK T : t \in Seq(T)
    BY <2>2
  <2> HIDE DEF t
  <2>4. none \o t = t
    BY <2>3
  <2> QED BY <2>1, <2>4
<1>5. /\ N \in Nat /\ c \in 1..N /\ DOMAIN scopes_ = 1..N /\ IsList(scopes_)
      /\ \A s \in 1..N : DOMAIN scopes_[s] = {"parent", "extent", "decls"}
  BY ListProperties DEF IInv, ScopeTree
<1> HIDE DEF e, none
<1>6. /\ Len(S) = N /\ \A s \in 1..N : s # c => S[s] = scopes_[s]
      /\ b = Append(a, e) /\ S[c].extent = scopes_[c].extent
  <2>1. DOMAIN S = 1..N /\ S = [s \in 1..N |-> S[s]]
    BY <1>1, <1>5
  <2>2. Len(S) = N
    BY <1>5, <2>1, MappedList
  <2>3. \A s \in 1..N : s # c => S[s] = scopes_[s]
    BY <1>1, <1>5
  <2>4. S[c] = [scopes_[c] EXCEPT !.decls = Append(scopes_[c].decls, e)]
    BY <1>1, <1>5
  <2> QED BY <1>5, <2>2, <2>3, <2>4
<1>7. IsList(a)
  BY <1>5 DEF Resolving, Hang
<1> HIDE DEF a, b, S, N, c, t
<1>8. /\ IsList(b) /\ Len(b) = Len(a) + 1 /\ b[Len(a) + 1] = e
      /\ \A k \in 1..Len(a) : b[k] = a[k]
  BY <1>6, <1>7, AppendList
<1>9. DOMAIN a = 1..Len(a) /\ DOMAIN b = 1..Len(b) /\ Len(a) \in Nat
  BY <1>7, <1>8, ListProperties
<1>10. \A k \in DOMAIN b : (k \in DOMAIN a /\ b[k] = a[k]) \/ (k = Len(a) + 1 /\ b[k] = e)
  BY <1>8, <1>9
<1>11. \A s \in 1..N : S[s].extent = scopes_[s].extent
  BY <1>6
<1>12. Sited(S)
  <2>1. Sited(scopes_)
    BY DEF Resolves
  <2> QED BY <1>6, <1>11, <2>1 DEF Sited, N
<1>13. Distinct(S)
  <2>1. Distinct(scopes_)
    BY DEF Resolves
  <2>2. \A i \in DOMAIN a : NameOf(a[i].node) # NameOf(e.node)
    <3>1. Hits(c, NameOf(Top.node)) = {}
      BY DEF HasDuplicatedName, c
    <3>2. e.node = Top.node
      BY DEF e
    <3> QED BY <3>1, <3>2 DEF Hits, a
  <2>3. \A i, j \in DOMAIN a : i # j => NameOf(a[i].node) # NameOf(a[j].node)
    BY <1>5, <2>1 DEF Distinct, a, N
  <2>4. \A i, j \in DOMAIN b : i # j => NameOf(b[i].node) # NameOf(b[j].node)
    <3> SUFFICES ASSUME NEW i \in DOMAIN b, NEW j \in DOMAIN b, i # j PROVE NameOf(b[i].node) # NameOf(b[j].node)
      OBVIOUS
    <3> DEFINE name(x) == NameOf(x.node)
    <3>1. /\ \A k \in DOMAIN a : name(a[k]) # name(e)
          /\ \A k, l \in DOMAIN a : k # l => name(a[k]) # name(a[l])
      BY <2>2, <2>3, Zenon
    <3> HIDE DEF name
    <3>2. name(b[i]) # name(b[j])
      BY <1>10, <3>1
    <3> QED BY <3>2 DEF name
  <2>5. \A s \in 1..N : s # c => S[s].decls = scopes_[s].decls
    BY <1>6
  <2>6. ASSUME NEW s \in 1..N, NEW i \in DOMAIN S[s].decls, NEW j \in DOMAIN S[s].decls, i # j
        PROVE  NameOf(S[s].decls[i].node) # NameOf(S[s].decls[j].node)
    <3>1. CASE s = c
      BY <2>4, <2>6, <3>1, Zenon DEF b
    <3>2. CASE s # c
      BY <2>1, <2>5, <2>6, <3>2, Zenon DEF Distinct, N
    <3> QED BY <3>1, <3>2
  <2> QED BY <1>6, <2>6 DEF Distinct
<1>14. Apart(t) /\ Fresh(b, t)
  <2>1. Apart(agenda) /\ Fresh(a, agenda)
    BY DEF Resolves, a, c
  <2>2. /\ Apart(t) /\ Fresh(a, t)
        /\ \A k \in 1..Len(t) : t[k].op = "declare" => agenda[1].path # t[k].path
    BY <1>2, <2>1, ApartTail DEF t
  <2>3. e.path = agenda[1].path
    BY <1>2 DEF e
  <2>4. Fresh(b, t)
    BY <1>10, <2>2, <2>3 DEF Fresh
  <2> QED BY <2>2, <2>4
<1>15. ComesTo(agenda', S, bound')
  <2>1. Under(agenda[1]) = {} /\ TreesOf(none) = {} /\ IsList(none)
    BY <1>2, TreesOfNone, EmptyList DEF Under, none
  <2>2. Grows(scopes_, bound, S, bound')
    BY <1>1, <1>5, <1>6, <1>11 DEF Grows, N
  <2>3. ComesTo(agenda, scopes_, bound)
    BY DEF Resolves
  <2>4. Grows(scopes_, bound, scopes_', bound')
    BY <2>2 DEF S
  <2>5. \A x \in Under(agenda[1]) : x \in TreesOf(none) \/ Done(x, scopes_', bound')
    BY <2>1
  <2>6. TreesOf(none) \subseteq Visited
    BY <2>1
  <2>7. ComesTo(agenda', scopes_', bound')
    BY <1>1, <1>2, <2>1, <2>3, <2>4, <2>5, <2>6, ComesOn
  <2> QED BY <2>7 DEF S
<1>16. /\ ComesTo(agenda', scopes_', bound') /\ Distinct(scopes_') /\ Sited(scopes_')
       /\ Apart(agenda') /\ Fresh(scopes_'[currentScope_'].decls, agenda')
  BY <1>1, <1>4, <1>12, <1>13, <1>14, <1>15 DEF S, b, c
<1> QED BY <1>1, <1>16, ResolvesKept

\* The first tree of a list.
FirstTree(list) == IF decls_[list] = <<>> THEN {} ELSE Tree(decls_[list][1], <<list, 1>>)

\* It is what First visits.
LEMMA TreesOfFirst ==
  ASSUME NEW list, decls_[list] \in Seq(Nodes)
  PROVE  TreesOf(First(list)) = FirstTree(list) /\ IsList(First(list)) /\ NoDeclares(First(list))
<1> DEFINE ns == decls_[list]
           vs == VisitList(list)
           e == Visit(ns[1], <<list, 1>>, FALSE)
<1>1. NoDeclares(First(list)) /\ IsList(First(list))
  BY FirstPlain DEF Plain
<1>2. vs = [i \in DOMAIN ns |-> Visit(ns[i], <<list, i>>, FALSE)]
  BY DEF VisitList
<1>3. IsList(vs)
  BY VisitListHarmless DEF Harmless
<1>4. DOMAIN ns = 1..Len(ns) /\ DOMAIN vs = 1..Len(vs) /\ DOMAIN vs = DOMAIN ns /\ Len(ns) \in Nat /\ Len(vs) \in Nat
  BY <1>2, <1>3, ListProperties
<1>5. First(list) = IF vs = <<>> THEN <<>> ELSE <<vs[1]>>
  BY DEF First
<1>6. CASE ns = <<>>
  <2>1. DOMAIN vs = {} /\ Len(vs) = 0
    BY <1>4, <1>6
  <2>2. vs = <<>>
    BY <1>3, <2>1, ListProperties
  <2>3. TreesOf(First(list)) = {}
    BY <1>5, <2>2, TreesOfNone
  <2> QED BY <1>1, <1>6, <2>3 DEF FirstTree
<1>7. CASE ns # <<>>
  <2>1. 1 \in DOMAIN ns
    BY <1>4, <1>7
  <2>2. vs # <<>> /\ vs[1] = e
    <3>1. vs[1] = e
      BY <1>2, <2>1
    <3>2. DOMAIN <<>> = {}
      OBVIOUS
    <3>3. DOMAIN vs # {}
      BY <1>4, <2>1
    <3> HIDE DEF vs, e
    <3> QED BY <3>1, <3>2, <3>3
  <2>3. e.op = "visit" /\ e.node = ns[1] /\ e.path = <<list, 1>>
    BY DEF Visit
  <2> HIDE DEF e, vs
  <2>4. First(list) = <<e>> /\ Len(<<e>>) = 1 /\ <<e>>[1] = e
    BY <1>5, <2>2
  <2>5. TreesOf(<<e>>) = Under(e)
    <3> DEFINE u == <<e>>
    <3>1. Len(u) = 1 /\ u[1] = e
      BY <2>4
    <3> HIDE DEF u
    <3>2. TreesOf(u) = UNION {Under(u[k]) : k \in 1..1}
      BY <3>1 DEF TreesOf
    <3>3. {Under(u[k]) : k \in 1..1} = {Under(e)}
      BY <3>1
    <3>4. UNION {Under(e)} = Under(e)
      OBVIOUS
    <3> QED BY <3>2, <3>3, <3>4 DEF u
  <2>6. Under(e) = Tree(ns[1], <<list, 1>>)
    BY <2>3 DEF Under
  <2> QED BY <1>1, <1>7, <2>4, <2>5, <2>6 DEF FirstTree
<1> QED BY <1>6, <1>7

\* The resolver visits the first trees of three lists.
LEMMA VisitedIs == Visited = FirstTree("variables") \cup FirstTree("constants") \cup FirstTree("functions")
BY DEF Visited, FirstTree

\* What is declared is in one of the lists.
ListedIn(items, lists) == \A k \in 1..Len(items) : items[k].op = "declare" => items[k].path[1] \in lists

\* The declarations of a list are in it.
LEMMA GlobalsApart ==
  ASSUME NEW list, decls_[list] \in Seq(Nodes), NEW s, s = DeclareAll(decls_[list], <<list>>)
  PROVE  IsList(s) /\ OnlyDeclares(s) /\ Apart(s) /\ ListedIn(s, {list})
<1>1. IsList(<<list>>) /\ Len(<<list>>) = 1 /\ <<list>>[1] = list
  <2>1. <<list>> \in Seq({list})
    OBVIOUS
  <2> QED BY <2>1, ListOfSeq
<1> DEFINE ns == decls_[list]
           p == <<list>>
<1>2. ns \in Seq(Nodes) /\ s = DeclareAll(ns, p) /\ IsList(p) /\ Len(p) = 1 /\ p[1] = list
  BY <1>1
<1> HIDE DEF ns, p
<1>3. IsList(s) /\ OnlyDeclares(s)
  BY <1>2, AheadOfAll
<1>4. Apart(s) /\ \A k \in 1..Len(s) : k \in DOMAIN ns /\ s[k] = Declare(ns[k], Append(p, k))
  BY <1>2, AllApart
<1>5. \A k \in 1..Len(s) : s[k].path[1] = list
  <2> TAKE k \in 1..Len(s)
  <2>1. s[k].path = Append(p, k)
    <3>1. \A n, q : Declare(n, q).path = q
      BY DEF Declare
    <3> QED BY <1>4, <3>1, Zenon
  <2>2. Append(p, k)[1] = p[1]
    <3>1. \A i \in 1..Len(p) : Append(p, k)[i] = p[i]
      BY <1>2, AppendList
    <3>2. 1 \in 1..Len(p)
      BY <1>2
    <3> QED BY <3>1, <3>2
  <2> QED BY <1>2, <2>1, <2>2
<1> QED BY <1>3, <1>4, <1>5 DEF ListedIn

\* One list of declarations behind another list's.
LEMMA ListsApart ==
  ASSUME NEW s, NEW t, NEW A, NEW B, IsList(s), IsList(t), Apart(s), Apart(t), ListedIn(s, A), ListedIn(t, B), A \cap B = {}
  PROVE  IsList(s \o t) /\ Apart(s \o t) /\ ListedIn(s \o t, A \cup B)
<1>1. Apart(s \o t)
  <2>1. \A j \in 1..Len(s), k \in 1..Len(t) : s[j].op = "declare" /\ t[k].op = "declare" => s[j].path # t[k].path
    BY DEF ListedIn
  <2> QED BY <2>1, ApartConcat
<1> DEFINE u == s \o t
           m == Len(s)
           n == Len(t)
<1>2. /\ IsList(u) /\ Len(u) = m + n /\ m \in Nat /\ n \in Nat
      /\ \A k \in 1..m : u[k] = s[k]
      /\ \A k \in 1..n : u[k + m] = t[k]
  <2>1. /\ IsList(s \o t) /\ Len(s \o t) = Len(s) + Len(t)
        /\ \A k \in 1..Len(s) : (s \o t)[k] = s[k]
        /\ \A k \in 1..Len(t) : (s \o t)[k + Len(s)] = t[k]
    BY ConcatList
  <2>2. m \in Nat /\ n \in Nat
    BY DEF IsList
  <2> QED BY <2>1, <2>2
<1> HIDE DEF u
<1>3. ListedIn(u, A \cup B)
  <2> SUFFICES ASSUME NEW k \in 1..m + n, u[k].op = "declare" PROVE u[k].path[1] \in A \cup B
    BY <1>2 DEF ListedIn
  <2>1. CASE k \in 1..m
    BY <1>2, <2>1 DEF ListedIn
  <2>2. CASE k \notin 1..m
    <3>1. k - m \in 1..n /\ (k - m) + m = k
      BY <1>2, <2>2
    <3>2. u[k] = t[k - m]
      BY <1>2, <3>1
    <3> QED BY <3>1, <3>2 DEF ListedIn
  <2> QED BY <2>1, <2>2
<1> QED BY <1>1, <1>2, <1>3 DEF u

\* The resolver begins with all it comes to.
LEMMA ResolvesBegins ==
  ASSUME IInv, UnitOK, Untouched, ResolveLocalVariable PROVE Resolves'
<1>1. /\ decls_ # NoDeclarations /\ decls_' = decls_ /\ scopes_' = scopes_ /\ currentScope_' = currentScope_
  BY DEF ResolveLocalVariable, Begin
<1>2. \A list \in {"functions", "constants", "variables"} : decls_[list] \in Seq(Nodes)
  BY <1>1, ListsAre
<1> DEFINE f == DeclareAll(decls_["functions"], <<"functions">>)
           c == DeclareAll(decls_["constants"], <<"constants">>)
           v == DeclareAll(decls_["variables"], <<"variables">>)
           V == First("variables")
           C == First("constants")
           F == First("functions")
           Vt == FirstTree("variables")
           Ct == FirstTree("constants")
           Ft == FirstTree("functions")
<1>3. agenda' = f \o c \o v \o V \o C \o F
  BY DEF ResolveLocalVariable
<1>4. /\ IsList(f) /\ OnlyDeclares(f) /\ Apart(f) /\ ListedIn(f, {"functions"})
      /\ IsList(c) /\ OnlyDeclares(c) /\ Apart(c) /\ ListedIn(c, {"constants"})
      /\ IsList(v) /\ OnlyDeclares(v) /\ Apart(v) /\ ListedIn(v, {"variables"})
  BY <1>2, GlobalsApart
<1>5. /\ TreesOf(V) = Vt /\ IsList(V) /\ NoDeclares(V)
      /\ TreesOf(C) = Ct /\ IsList(C) /\ NoDeclares(C)
      /\ TreesOf(F) = Ft /\ IsList(F) /\ NoDeclares(F)
  BY <1>2, TreesOfFirst
<1>6. Visited = Vt \cup Ct \cup Ft
  BY VisitedIs
<1> HIDE DEF f, c, v, V, C, F, Vt, Ct, Ft
<1> DEFINE g == f \o c \o v
<1>7. IsList(f \o c) /\ Apart(f \o c) /\ ListedIn(f \o c, {"functions"} \cup {"constants"})
  BY <1>4, ListsApart
<1>8. IsList(g) /\ Apart(g)
  <2>1. ({"functions"} \cup {"constants"}) \cap {"variables"} = {}
    OBVIOUS
  <2> DEFINE fc == f \o c
  <2>2. IsList(fc) /\ Apart(fc) /\ ListedIn(fc, {"functions"} \cup {"constants"})
    BY <1>7
  <2> HIDE DEF fc
  <2>3. IsList(fc \o v) /\ Apart(fc \o v)
    BY <1>4, <2>1, <2>2, ListsApart
  <2> QED BY <2>3 DEF fc
<1>9. OnlyDeclares(g)
  <2>1. OnlyDeclares(f \o c)
    BY <1>4, AheadConcat
  <2> QED BY <1>4, <1>7, <2>1, AheadConcat
<1>10. agenda' = g \o V \o C \o F
  BY <1>3
<1> HIDE DEF g
<1>11. TreesOf(g) = {}
  BY <1>9, TreesOfOthers DEF OnlyDeclares
<1>12. IsList(g \o V) /\ Apart(g \o V) /\ TreesOf(g \o V) = Vt
  <2>1. Apart(g \o V)
    BY <1>5, <1>8, NoneApart, ApartConcat DEF NoDeclares
  <2>2. IsList(g \o V)
    BY <1>5, <1>8, ConcatList
  <2>3. TreesOf(g \o V) = TreesOf(g) \cup TreesOf(V)
    BY <1>5, <1>8, TreesConcat
  <2> QED BY <1>5, <1>11, <2>1, <2>2, <2>3
<1>13. IsList(g \o V \o C) /\ Apart(g \o V \o C) /\ TreesOf(g \o V \o C) = Vt \cup Ct
  <2>1. Apart(g \o V \o C)
    BY <1>5, <1>12, NoneApart, ApartConcat DEF NoDeclares
  <2> QED BY <1>5, <1>12, <2>1, ConcatList, TreesConcat
<1>14. Apart(g \o V \o C \o F) /\ TreesOf(g \o V \o C \o F) = Vt \cup Ct \cup Ft
  <2>1. Apart(g \o V \o C \o F)
    BY <1>5, <1>13, NoneApart, ApartConcat DEF NoDeclares
  <2> QED BY <1>5, <1>13, <2>1, TreesConcat
<1>15. Apart(agenda') /\ TreesOf(agenda') = Visited
  BY <1>6, <1>10, <1>14
<1>16. /\ Len(scopes_) = 1 /\ currentScope_ = 1
       /\ scopes_[1].extent = <<>> /\ scopes_[1].decls = <<>>
  BY DEF Untouched, EmptyScope
<1>17. DOMAIN scopes_[1].decls = {} /\ \A s \in 1..Len(scopes_) : s = 1
  <2>1. DOMAIN <<>> = {}
    OBVIOUS
  <2> QED BY <1>16, <2>1
<1>18. Distinct(scopes_') /\ Sited(scopes_') /\ Fresh(scopes_'[currentScope_'].decls, agenda')
  BY <1>1, <1>16, <1>17 DEF Distinct, Sited, Fresh
<1>19. ComesTo(agenda', scopes_', bound')
  BY <1>15 DEF ComesTo
<1> QED BY <1>1, <1>15, <1>18, <1>19, ResolvesKept

\* What the resolver answers is right if a program is refused for one of the two reasons.
LEMMA AnswersRightly ==
  ASSUME bound' = bound, "resolve" \notin DOMAIN answers, NEW next, NEW how, Answer("resolve", next, how),
         how = "true" => ~Clashes /\ Unmeant = {} /\ \A x \in OfClass(Visited, "Variable") : x.path \in DOMAIN bound,
         how # "true" => Clashes \/ Unmeant # {}
  PROVE  ResolveExact'
<1>1. decls_' = decls_ /\ answers'["resolve"] = how
  BY AnswerIs
<1>2. /\ (Clashes' <=> Clashes) /\ Unmeant' = Unmeant
      /\ OfClass(Visited, "Variable")' = OfClass(Visited, "Variable")
  BY <1>1, VerdictKept
<1>3. (how = "true") <=> (~Clashes' /\ Unmeant' = {})
  BY <1>2
<1>4. how = "true" => \A x \in OfClass(Visited, "Variable")' : x.path \in DOMAIN bound'
  BY <1>2
<1>5. Unmeant' = {} <=> \A x \in OfClass(Visited, "Variable")' : (Meant(x.node[2], x.path))' # {}
  BY DEF Unmeant
<1>6. (how = "true") = (~Clashes' /\ \A x \in OfClass(Visited, "Variable")' : (Meant(x.node[2], x.path))' # {})
  BY <1>3, <1>5
<1> QED BY <1>1, <1>4, <1>6 DEF ResolveExact, Clashes

\* A declaration is refused when another of its scope has its name.
LEMMA RefusesDeclaration ==
  ASSUME IInv, UnitOK, Resolving, Resolves, Now("declare"), HasDuplicatedName(NameOf(Top.node)) PROVE Clashes
<1>1. agenda # <<>> /\ agenda[1].op = "declare" /\ Top = agenda[1] /\ IsList(agenda)
  BY FirstItem DEF IInv, AgendaOK
<1>2. 1 \in 1..Len(agenda)
  BY <1>1, ListProperties
<1> DEFINE c == currentScope_
           decls == scopes_[c].decls
           e == AsDecl(agenda[1])
           q == scopes_[c].extent
<1>3. c \in 1..Len(scopes_)
  BY DEF IInv, ScopeTree
<1>4. PICK i \in DOMAIN decls : NameOf(decls[i].node) = NameOf(Top.node)
  BY DEF HasDuplicatedName, Hits
<1>5. {decls[j] : j \in DOMAIN decls} \cup Ahead(agenda) = DeclsFor(q)
  BY <1>3 DEF Resolving, Fill
<1>6. e \in Ahead(agenda)
  BY <1>1, <1>2 DEF Ahead
<1>7. decls[i] \in DeclsFor(q) /\ e \in DeclsFor(q)
  BY <1>4, <1>5, <1>6
<1>8. decls[i].path # e.path /\ NameOf(decls[i].node) = NameOf(e.node)
  <2>1. e.path = agenda[1].path /\ e.node = agenda[1].node
    BY DEF AsDecl
  <2>2. decls[i].path # agenda[1].path
    BY <1>1, <1>2, <1>4 DEF Resolves, Fresh
  <2>3. NameOf(Top.node) = NameOf(e.node)
    BY <1>1, <2>1, Zenon
  <2> HIDE DEF e
  <2> QED BY <1>4, <2>1, <2>2, <2>3
<1>9. q = <<>> \/ \E b \in Visited : b.path = q
  BY <1>3 DEF Resolves, Sited
<1>10. q = <<>> \/ IsPath(q)
  <2>1. decls_ # NoDeclarations
    BY DEF Resolving
  <2>2. \A b \in Visited : IsPath(b.path)
    BY <2>1, VisitedPlaced DEF Placed
  <2> QED BY <1>9, <2>2
<1> HIDE DEF c, decls, e, q
<1>11. Extent(decls[i]) = q /\ Extent(e) = q
  BY <1>7, <1>10, ExtentIs
<1>12. DeclsFor(q) \subseteq GlobalDecls \cup UNION {LocalDecls(b.path) : b \in Visited}
  <2>1. CASE q = <<>>
    BY <2>1 DEF DeclsFor
  <2>2. CASE q # <<>>
    <3>1. PICK b \in Visited : b.path = q
      BY <1>9, <2>2
    <3>2. DeclsFor(q) = LocalDecls(b.path)
      BY <2>2, <3>1 DEF DeclsFor
    <3> QED BY <3>2
  <2> QED BY <2>1, <2>2
<1> DEFINE all == GlobalDecls \cup UNION {LocalDecls(b.path) : b \in Visited}
<1>13. decls[i] \in all /\ e \in all
  BY <1>7, <1>12
<1> HIDE DEF all
<1>14. Twice(all)
  BY <1>8, <1>11, <1>13, Zenon DEF Twice
<1> QED BY <1>14 DEF Clashes, all

\* A name is refused when it means nothing.
LEMMA RefusesName ==
  ASSUME IInv, UnitOK, Resolving, Resolves, status = "resolve", ResolveVariable, Refuse PROVE Unmeant # {}
<1> DEFINE nd == IF Top.called THEN FindFuncDecl(Top.node[2]) ELSE FindDecl(Top.node[2])
           meant == Meant(Top.node[2], Top.path)
<1>1. Now("visit") /\ Top.node[1] = "Variable" /\ nd = Null
  BY DEF ResolveVariable, Visiting, Refuse, Answer, Continue
<1>2. /\ Placed(Top.node, Top.path) /\ (Top.called <=> Callee(Top.path)) /\ Encloses(scopes_[currentScope_].extent, Top.path)
      /\ NoDeclares(agenda) /\ agenda # <<>> /\ Top = agenda[1] /\ Top.op = "visit"
  BY <1>1, Standing
<1>3. IsPath(Top.path) /\ Top.node \in Nodes
  BY <1>2 DEF Placed
<1>4. Right(nd, meant)
  <2>1. Filled /\ ScopesHang /\ ScopeTree
    BY <1>2, AllFilled DEF IInv
  <2> QED BY <1>2, <1>3, <2>1, ResolvedRight
<1>5. meant = {}
  <2> SUFFICES ASSUME meant # {} PROVE FALSE
    OBVIOUS
  <2>1. PICK d \in meant : d.path = Null
    BY <1>1, <1>4 DEF Right
  <2>2. \E r \in Around(Top.path) : d \in DeclsFor(r)
    BY <2>1 DEF Meant, DeclsFor
  <2>3. PICK r \in Around(Top.path) : d \in DeclsFor(r)
    BY <2>2
  <2>4. r = <<>> \/ IsPath(r)
    <3>1. r = <<>> \/ \E n \in 2..Len(Top.path) - 1 : r = SubSeq(Top.path, 1, n)
      BY DEF Around
    <3>2. \A n \in 2..Len(Top.path) - 1 : n \in 2..Len(Top.path)
      BY <1>3 DEF IsPath, IsList
    <3> QED BY <1>3, <3>1, <3>2, PrefixIsPath
  <2>5. IsPath(d.path)
    BY <2>3, <2>4, ExtentIs
  <2>6. Len(Null) = 1
    BY DEF Null
  <2> QED BY <2>1, <2>5, <2>6 DEF IsPath
<1>6. Here \in Visited
  <2>1. IsList(agenda)
    BY DEF IInv, AgendaOK
  <2>2. Here \in Under(Top)
    BY <1>2, <1>3, TreeClosed DEF Under, Here
  <2> QED BY <1>2, <2>1, <2>2, TopVisited
<1>7. Here.node = Top.node /\ Here.path = Top.path
  BY DEF Here
<1>8. Here \in OfClass(Visited, "Variable")
  BY <1>1, <1>6, <1>7 DEF OfClass
<1>9. Meant(Here.node[2], Here.path) = {}
  BY <1>5, <1>7, Zenon
<1> QED BY <1>8, <1>9 DEF Unmeant

\* With nothing left to do, every name is bound and no name is declared twice.
LEMMA EndsRightly ==
  ASSUME IInv, UnitOK, Resolving, Resolves, BindsInnermost, agenda = <<>>
  PROVE  ~Clashes /\ Unmeant = {} /\ \A x \in OfClass(Visited, "Variable") : x.path \in DOMAIN bound
<1>1. TreesOf(agenda) = {} /\ NoDeclares(agenda)
  <2>1. Len(agenda) = 0
    BY EmptyAgenda
  <2> QED BY <2>1, TreesOfNone DEF NoDeclares
<1>2. \A x \in Visited : Done(x, scopes_, bound)
  BY <1>1 DEF Resolves, ComesTo
<1>3. \A x \in Visited : Placed(x.node, x.path)
  BY VisitedPlaced DEF Resolving
<1>4. \A x \in OfClass(Visited, "Variable") : x \in Visited /\ x.path \in DOMAIN bound
  BY <1>2 DEF OfClass, Done
<1>5. Unmeant = {}
  <2>1. ASSUME NEW x \in OfClass(Visited, "Variable") PROVE Meant(x.node[2], x.path) # {}
    <3>1. x.path \in DOMAIN bound /\ NodeAt(x.path) = x.node
      BY <1>3, <1>4 DEF Placed
    <3>2. Meant(NodeAt(x.path)[2], x.path) # {}
      BY <3>1 DEF BindsInnermost
    <3> QED BY <3>1, <3>2, Zenon
  <2> QED BY <2>1 DEF Unmeant
<1>6. Filled /\ ScopesHang /\ ScopeTree
  BY <1>1, AllFilled DEF IInv
<1> DEFINE all == GlobalDecls \cup UNION {LocalDecls(b.path) : b \in Visited}
<1>7. \A d \in all : \E s \in 1..Len(scopes_) : d \in DeclsFor(scopes_[s].extent) /\ Extent(d) = scopes_[s].extent
  <2>1. ASSUME NEW d \in GlobalDecls
        PROVE  \E s \in 1..Len(scopes_) : d \in DeclsFor(scopes_[s].extent) /\ Extent(d) = scopes_[s].extent
    <3>1. 1 \in 1..Len(scopes_) /\ scopes_[1].parent = 0
      BY <1>6, ListProperties DEF ScopeTree
    <3>2. scopes_[1].extent = <<>>
      BY <1>6, <3>1 DEF ScopesHang
    <3>3. d \in DeclsFor(<<>>)
      BY DEF DeclsFor
    <3> DEFINE q == <<>>
    <3>4. d \in DeclsFor(q) /\ q = <<>>
      BY <3>3
    <3> HIDE DEF q
    <3>5. Extent(d) = q
      BY <3>4, ExtentIs
    <3> QED BY <3>1, <3>2, <3>4, <3>5
  <2>2. ASSUME NEW b \in Visited, NEW d \in LocalDecls(b.path)
        PROVE  \E s \in 1..Len(scopes_) : d \in DeclsFor(scopes_[s].extent) /\ Extent(d) = scopes_[s].extent
    <3> DEFINE q == b.path
    <3>1. IsPath(q) /\ NodeAt(q) = b.node
      BY <1>3 DEF Placed
    <3>2. NodeAt(q)[1] \in Openers
      BY NothingDeclared
    <3>3. PICK s \in 1..Len(scopes_) : scopes_[s].extent = q
      BY <1>2, <3>1, <3>2 DEF Done
    <3> HIDE DEF q
    <3>4. q # <<>>
      BY <3>1, PathNotEmpty
    <3>5. d \in DeclsFor(q)
      BY <3>4 DEF DeclsFor, q
    <3>6. Extent(d) = q
      BY <3>1, <3>5, ExtentIs
    <3> QED BY <3>3, <3>5, <3>6
  <2> QED BY <2>1, <2>2
<1> HIDE DEF all
<1>8. ~Twice(all)
  <2> SUFFICES ASSUME NEW c \in all, NEW d \in all, c.path # d.path, NameOf(c.node) = NameOf(d.node), Extent(c) = Extent(d)
               PROVE  FALSE
    BY DEF Twice
  <2>1. PICK s \in 1..Len(scopes_) : c \in DeclsFor(scopes_[s].extent) /\ Extent(c) = scopes_[s].extent
    BY <1>7
  <2>2. PICK t \in 1..Len(scopes_) : d \in DeclsFor(scopes_[t].extent) /\ Extent(d) = scopes_[t].extent
    BY <1>7
  <2>3. c \in DeclsIn(s) /\ d \in DeclsIn(s)
    BY <1>6, <2>1, <2>2 DEF Filled
  <2>4. PICK i \in DOMAIN scopes_[s].decls : c = scopes_[s].decls[i]
    BY <2>3 DEF DeclsIn
  <2>5. PICK j \in DOMAIN scopes_[s].decls : d = scopes_[s].decls[j]
    BY <2>3 DEF DeclsIn
  <2>6. i # j
    BY <2>4, <2>5
  <2>7. NameOf(scopes_[s].decls[i].node) # NameOf(scopes_[s].decls[j].node)
    BY <2>6 DEF Resolves, Distinct
  <2> QED BY <2>4, <2>5, <2>7, Zenon
<1> QED BY <1>4, <1>5, <1>8 DEF Clashes, all

\* The tree of a function is the function, its parameters and the tree of its body.
LEMMA FunctionTree ==
  ASSUME NEW item, Placed(item.node, item.path), item.node[1] = "Function", item.op = "visit",
         NEW e, e = Visit(item.node[6], Append(item.path, Len(item.node[5]) + 1), FALSE)
  PROVE  /\ Under(e) \subseteq Under(item)
         /\ \A x \in Under(item) :
              x = [node |-> item.node, path |-> item.path] \/ x \in Under(e) \/ x.node[1] \notin Openers \cup {"Variable"}
<1> DEFINE n == item.node
           p == item.path
           s == n[5]
           t == <<n[6]>>
           b == Len(s) + 1
<1>1. n \in Nodes
  BY DEF Placed
<1>2. s \in Seq(Nodes) /\ t \in Seq(Nodes) /\ t[1] = n[6] /\ Len(t) = 1
  BY <1>1, TreesAssumption
<1>3. Children(n) = s \o t
  <2>1. ~IsExprNode(n) /\ n[1] \in DeclClasses
    BY DEF IsExprNode, ExprClasses, LValueClasses, AssignClasses, OperatorClasses, UnaryClasses, LiteralClasses, DeclClasses
  <2> QED BY <2>1 DEF Children, DeclChildren
<1>4. \A k \in DOMAIN s : s[k][1] = "Param"
  BY <1>1, DeclsAssumption DEF AreParams
<1>5. e.op = "visit" /\ e.node = n[6] /\ e.path = Append(p, b)
  BY DEF Visit
<1>6. Tree(n, p) = {[node |-> n, path |-> p]} \cup UNION {Tree(Children(n)[k], Append(p, k)) : k \in DOMAIN Children(n)}
  BY <1>1, TreeUnfolds
<1>7. Under(item) = Tree(n, p) /\ Under(e) = Tree(n[6], Append(p, b))
  BY <1>5 DEF Under
<1> HIDE DEF s, t, n, p, b
<1>8. /\ b \in DOMAIN (s \o t) /\ (s \o t)[b] = n[6]
      /\ \A k \in DOMAIN (s \o t) : (k \in DOMAIN s /\ (s \o t)[k] = s[k] /\ s[k] \in Nodes) \/ k = b
  <2> DEFINE u == s \o t
  <2>1. IsList(s) /\ IsList(t) /\ Len(s) \in Nat
    BY <1>2, ListOfSeq
  <2>2. /\ IsList(u) /\ Len(u) = Len(s) + Len(t)
        /\ \A i \in 1..Len(s) : u[i] = s[i]
        /\ \A i \in 1..Len(t) : u[i + Len(s)] = t[i]
    BY <2>1, ConcatList
  <2>3. DOMAIN u = 1..Len(u) /\ DOMAIN s = 1..Len(s) /\ \A k \in DOMAIN s : s[k] \in Nodes
    BY <1>2, <2>1, <2>2, ListProperties
  <2> HIDE DEF u
  <2>4. /\ Len(u) = Len(s) + 1
        /\ \A i \in 1..1 : u[i + Len(s)] = t[i]
    BY <1>2, <2>2
  <2>5. u[1 + Len(s)] = t[1] /\ b = 1 + Len(s) /\ b \in 1..Len(u)
    BY <2>1, <2>4 DEF b
  <2>6. \A k \in DOMAIN u : k \in DOMAIN s \/ k = b
    BY <2>1, <2>3, <2>4, <2>5
  <2> QED BY <1>2, <2>2, <2>3, <2>5, <2>6 DEF u
<1>9. \A k \in DOMAIN s : \A q : s[k] \in Nodes => Tree(s[k], q) = {[node |-> s[k], path |-> q]}
  <2> SUFFICES ASSUME NEW k \in DOMAIN s, NEW q, s[k] \in Nodes PROVE Tree(s[k], q) = {[node |-> s[k], path |-> q]}
    OBVIOUS
  <2> DEFINE m == s[k]
  <2>1. m[1] = "Param" /\ m \in Nodes
    BY <1>4
  <2> HIDE DEF m
  <2>2. Children(m) = <<>>
    <3>1. ~IsExprNode(m) /\ m[1] \in DeclClasses
      BY <2>1 DEF IsExprNode, ExprClasses, LValueClasses, AssignClasses, OperatorClasses, UnaryClasses, LiteralClasses, DeclClasses
    <3> QED BY <2>1, <3>1 DEF Children, DeclChildren
  <2>3. DOMAIN Children(m) = {}
    BY <2>2
  <2>4. Tree(m, q) = {[node |-> m, path |-> q]} \cup UNION {Tree(Children(m)[j], Append(q, j)) : j \in DOMAIN Children(m)}
    BY <2>1, TreeUnfolds
  <2> HIDE DEF m
  <2>5. Tree(m, q) = {[node |-> m, path |-> q]}
    BY <2>3, <2>4
  <2> QED BY <2>5 DEF m
<1>10. Under(e) \subseteq Under(item)
  BY <1>3, <1>6, <1>7, <1>8
<1>11. ASSUME NEW x \in Under(item), x # [node |-> n, path |-> p], x \notin Under(e)
       PROVE  x.node[1] \notin Openers \cup {"Variable"}
  <2>1. \E k \in DOMAIN (s \o t) : x \in Tree((s \o t)[k], Append(p, k))
    BY <1>3, <1>6, <1>7, <1>11
  <2>2. PICK k \in DOMAIN (s \o t) : x \in Tree((s \o t)[k], Append(p, k))
    BY <2>1
  <2>3. k # b
    BY <1>7, <1>8, <1>11, <2>2
  <2>4. k \in DOMAIN s /\ s[k] \in Nodes /\ x \in Tree(s[k], Append(p, k))
    BY <1>8, <2>2, <2>3
  <2>5. x = [node |-> s[k], path |-> Append(p, k)]
    BY <1>9, <2>4
  <2>6. x.node[1] = "Param"
    BY <1>4, <2>4, <2>5
  <2> QED BY <2>6 DEF Openers
<1> QED BY <1>10, <1>11 DEF n, p

\* What is known while the resolver runs, and that its answer is right.
VerdictGoes == (status = "resolve" => Resolves) /\ ResolveExact

\* Every step of the resolver leaves it with less to do, or ends it rightly.
LEMMA ResolverAnswers ==
  ASSUME IInv, UnitOK, AnswersOK, ResolveGoes, VerdictGoes, [Next]_vars, status = "resolve" PROVE VerdictGoes'
<1>1. Resolving /\ Resolves /\ BindsInnermost
  BY DEF ResolveGoes, VerdictGoes
<1>2. "resolve" \notin DOMAIN answers /\ IsList(agenda)
  BY DEF AnswersOK, IInv, AgendaOK
<1>3. Continue => ResolveExact'
  <2>1. Continue => "resolve" \notin DOMAIN answers'
    BY <1>2 DEF Continue
  <2> QED BY <2>1 DEF ResolveExact, Answered
<1>4. ASSUME Refuse, bound' = bound, Clashes \/ Unmeant # {} PROVE VerdictGoes'
  <2>1. Answer("resolve", "stopped", "assert") /\ status' = "stopped"
    BY <1>4 DEF Refuse, Answer
  <2>2. ResolveExact'
    <3> DEFINE how == "assert"
    <3>1. Answer("resolve", "stopped", how) /\ how # "true"
      BY <2>1
    <3> HIDE DEF how
    <3> QED BY <1>2, <1>4, <3>1, AnswersRightly
  <2> QED BY <2>1, <2>2 DEF VerdictGoes
<1>5. CASE AddNamedDecl
  <2>1. Now("declare") /\ bound' = bound
    BY <1>5 DEF AddNamedDecl
  <2>2. CASE HasDuplicatedName(NameOf(Top.node))
    <3>1. Refuse
      BY <1>5, <2>2 DEF AddNamedDecl
    <3> QED BY <1>1, <1>4, <2>1, <2>2, <3>1, RefusesDeclaration
  <2>3. CASE ~HasDuplicatedName(NameOf(Top.node))
    <3>1. Continue
      BY <1>5, <2>3 DEF AddNamedDecl
    <3> QED BY <1>1, <1>3, <1>5, <2>3, <3>1, ResolvesDeclared DEF VerdictGoes
  <2> QED BY <2>2, <2>3
<1>6. CASE ResolveBlock
  <2>1. /\ Now("visit") /\ Top.node[1] = "Block" /\ PushScope /\ Continue /\ bound' = bound
    BY <1>6 DEF ResolveBlock, Visiting
  <2>2. Placed(Top.node, Top.path) /\ Top.op = "visit"
    BY <1>1, <2>1, Standing
  <2>3. Locals(Top.node) = Top.node[2] /\ Top.node[1] \in Openers /\ Top.node \in Nodes /\ decls_' = decls_
    BY <2>1, <2>2 DEF Locals, Openers, Placed, Continue
  <2> DEFINE vs == VisitAll(Top)
  <2>4. Then(DeclareAll(Locals(Top.node), Top.path) \o vs \o <<Pop(currentScope_)>>)
    BY <1>6, <2>3 DEF ResolveBlock
  <2>5. AllVisits(vs) /\ Under(Top) = {Here} \cup TreesOf(vs)
    BY <2>2, <2>3, TreesOfAll DEF Under, Here
  <2> HIDE DEF vs
  <2>6. TreesOf(vs) \subseteq Under(Top) /\ \A x \in Under(Top) : x = Here \/ x \in TreesOf(vs)
    BY <2>5
  <2>7. Resolves'
    BY <1>1, <2>1, <2>3, <2>4, <2>5, <2>6, ResolvesIn
  <2> QED BY <1>3, <2>1, <2>7 DEF VerdictGoes
<1>7. CASE ResolveFunctionDecl
  <2>1. /\ Now("visit") /\ Top.node[1] = "Function" /\ PushScope /\ Continue /\ bound' = bound
    BY <1>7 DEF ResolveFunctionDecl, Visiting
  <2>2. Placed(Top.node, Top.path) /\ Top.op = "visit"
    BY <1>1, <2>1, Standing
  <2>3. Locals(Top.node) = Top.node[5] /\ Top.node[1] \in Openers /\ decls_' = decls_
    BY <2>1 DEF Locals, Openers, Continue
  <2> DEFINE e == Visit(Top.node[6], Append(Top.path, Len(Top.node[5]) + 1), FALSE)
             vs == <<e>>
  <2>4. Then(DeclareAll(Locals(Top.node), Top.path) \o vs \o <<Pop(currentScope_)>>)
    BY <1>7, <2>3 DEF ResolveFunctionDecl
  <2>5. AllVisits(vs)
    BY <2>1, <2>2, BodyIs
  <2>6. /\ Under(e) \subseteq Under(Top)
        /\ \A x \in Under(Top) : x = Here \/ x \in Under(e) \/ x.node[1] \notin Openers \cup {"Variable"}
    BY <2>1, <2>2, FunctionTree DEF Here
  <2> HIDE DEF e
  <2>7. TreesOf(vs) = Under(e)
    <3>1. Len(vs) = 1 /\ vs[1] = e
      OBVIOUS
    <3> HIDE DEF vs
    <3>2. TreesOf(vs) = UNION {Under(vs[k]) : k \in 1..1}
      BY <3>1 DEF TreesOf
    <3>3. {Under(vs[k]) : k \in 1..1} = {Under(e)}
      BY <3>1
    <3>4. UNION {Under(e)} = Under(e)
      OBVIOUS
    <3> QED BY <3>2, <3>3, <3>4
  <2> HIDE DEF vs
  <2>8. Resolves'
    BY <1>1, <2>1, <2>3, <2>4, <2>5, <2>6, <2>7, ResolvesIn
  <2> QED BY <1>3, <2>1, <2>8 DEF VerdictGoes
<1>8. CASE ResolveVariable
  <2>1. Now("visit") /\ Top.node[1] = "Variable" /\ UNCHANGED <<scopes_, currentScope_>>
    BY <1>8 DEF ResolveVariable, Visiting
  <2>2. CASE Refuse
    <3>1. bound' = bound
      BY <1>8, <2>2 DEF ResolveVariable, Refuse, Answer, Continue
    <3> QED BY <1>1, <1>4, <1>8, <2>2, <3>1, RefusesName
  <2>3. CASE ~Refuse
    <3> DEFINE none == <<>>
    <3>1. /\ Then(none) /\ Continue
          /\ \E nd : bound' = Put(bound, Top.path, nd)
      BY <1>8, <2>3 DEF ResolveVariable
    <3>2. DOMAIN bound' = DOMAIN bound \cup {Top.path}
      BY <3>1 DEF Put
    <3>3. IsList(none) /\ Len(none) = 0 /\ TreesOf(none) = {}
      BY EmptyList, TreesOfNone
    <3> HIDE DEF none
    <3>4. NoDeclares(none)
      BY <3>3 DEF NoDeclares
    <3>5. agenda # <<>> /\ Top = agenda[1] /\ Top.op = "visit" /\ Placed(Top.node, Top.path)
      BY <1>1, <2>1, Standing
    <3>6. Under(Top) = {Here}
      <4>1. Top.node \in Nodes
        BY <3>5 DEF Placed
      <4> DEFINE n == Top.node
                 p == Top.path
      <4>2. Children(n) = <<>>
        <5>1. IsExprNode(n)
          BY <2>1 DEF IsExprNode, ExprClasses, LValueClasses
        <5> QED BY <2>1, <5>1 DEF Children, ExprChildren, AssignClasses, OperatorClasses, UnaryClasses, LiteralClasses
      <4>3. DOMAIN Children(n) = {}
        BY <4>2
      <4> HIDE DEF n, p
      <4>4. Tree(n, p) = {[node |-> n, path |-> p]} \cup UNION {Tree(Children(n)[k], Append(p, k)) : k \in DOMAIN Children(n)}
        BY <4>1, TreeUnfolds DEF n
      <4>5. Tree(n, p) = {[node |-> n, path |-> p]}
        BY <4>3, <4>4
      <4> QED BY <3>5, <4>5 DEF Under, Here, n, p
    <3>7. Done(Here, scopes_', bound')
      <4>1. Here.path = Top.path /\ Here.node = Top.node
        BY DEF Here
      <4> QED BY <2>1, <3>2, <4>1 DEF Done, Openers
    <3>8. \A x \in Under(agenda[1]) : x \in TreesOf(none) \/ Done(x, scopes_', bound')
      BY <3>5, <3>6, <3>7
    <3>9. decls_' = decls_ /\ agenda[1].op # "declare"
      BY <3>1, <3>5 DEF Continue
    <3>10. Resolves'
      BY <1>1, <2>1, <3>1, <3>2, <3>3, <3>4, <3>5, <3>8, <3>9, ResolvesOn
    <3> QED BY <1>3, <3>1, <3>10 DEF VerdictGoes
  <2> QED BY <2>2, <2>3
<1>9. CASE LeaveScope
  <2> DEFINE none == <<>>
  <2>1. Now("pop") /\ Then(none) /\ Continue /\ UNCHANGED <<scopes_, bound>>
    BY <1>9 DEF LeaveScope
  <2>2. agenda # <<>> /\ agenda[1].op = "pop" /\ Top = agenda[1]
    BY <2>1, FirstItem
  <2>3. IsList(none) /\ Len(none) = 0 /\ TreesOf(none) = {}
    BY EmptyList, TreesOfNone
  <2> HIDE DEF none
  <2>4. NoDeclares(none)
    BY <2>3 DEF NoDeclares
  <2>5. Under(agenda[1]) = {}
    BY <2>2 DEF Under
  <2>6. decls_' = decls_ /\ agenda[1].op # "declare"
    BY <2>1, <2>2 DEF Continue
  <2>7. Resolves'
    BY <1>1, <2>1, <2>2, <2>3, <2>4, <2>5, <2>6, ResolvesOn
  <2> QED BY <1>3, <2>1, <2>7 DEF VerdictGoes
<1>10. CASE VisitChildren
  <2>1. /\ Now("visit") /\ Top.node[1] \notin Openers \cup {"Variable"} /\ Then(VisitAll(Top)) /\ Continue
        /\ UNCHANGED <<decls_, scopes_, currentScope_, bound>>
    BY <1>10 DEF VisitChildren, Overridden, Openers, Continue
  <2>2. Placed(Top.node, Top.path) /\ Top.op = "visit" /\ agenda # <<>> /\ Top = agenda[1]
    BY <1>1, <2>1, Standing
  <2>3. Top.node \in Nodes
    BY <2>2 DEF Placed
  <2> DEFINE vs == VisitAll(Top)
  <2>4. AllVisits(vs) /\ Under(Top) = {Here} \cup TreesOf(vs)
    BY <2>2, <2>3, TreesOfAll DEF Under, Here
  <2>5. Then(vs)
    BY <2>1
  <2> HIDE DEF vs
  <2>6. NoDeclares(vs) /\ IsList(vs)
    BY <2>4, VisitsDeclareNothing
  <2>7. Done(Here, scopes_', bound')
    <3>1. Here.node = Top.node
      BY DEF Here
    <3> QED BY <2>1, <3>1 DEF Done
  <2>8. TreesOf(vs) \subseteq Visited
    BY <1>1, <1>2, <2>2, <2>4, TopVisited
  <2>9. \A x \in Under(agenda[1]) : x \in TreesOf(vs) \/ Done(x, scopes_', bound')
    BY <2>2, <2>4, <2>7
  <2>10. Resolves'
    BY <1>1, <2>1, <2>2, <2>5, <2>6, <2>8, <2>9, ResolvesOn
  <2> QED BY <1>3, <2>1, <2>10 DEF VerdictGoes
<1>11. CASE EndOfPass
  <2>1. agenda = <<>> /\ bound' = bound /\ Answer("resolve", "idle", "true") /\ status' = "idle"
    BY <1>11 DEF EndOfPass, Return, Answer, passVars
  <2>2. ~Clashes /\ Unmeant = {} /\ \A x \in OfClass(Visited, "Variable") : x.path \in DOMAIN bound
    BY <1>1, <2>1, EndsRightly
  <2>3. ResolveExact'
    BY <1>2, <2>1, <2>2, AnswersRightly
  <2> QED BY <2>1, <2>3 DEF VerdictGoes
<1>12. CASE UNCHANGED vars
  <2>1. UNCHANGED <<decls_, types_, agenda, scopes_, currentScope_, bound, answers, status>>
    BY <1>12 DEF vars, passVars
  <2>2. Continue
    BY <2>1 DEF Continue, vars
  <2>3. Resolves'
    BY <1>1, <2>1, ResolvesKept DEF Resolves
  <2> QED BY <1>3, <2>1, <2>3, <1>12 DEF VerdictGoes, Continue, vars
<1> QED BY <1>5, <1>6, <1>7, <1>8, <1>9, <1>10, <1>11, <1>12, ResolverSteps

\* No other step changes what has been answered, or what there is to answer.
LEMMA VerdictGoesOn ==
  ASSUME IInv, UnitOK, AnswersOK, ResolveGoes, VerdictGoes, [Next]_vars PROVE VerdictGoes'
<1>1. decls_' = decls_
  BY ControlOK
<1>2. /\ "resolve" \in DOMAIN answers => "resolve" \in DOMAIN answers' /\ answers'["resolve"] = answers["resolve"]
      /\ "resolve" \in DOMAIN answers' /\ "resolve" \notin DOMAIN answers => status = "resolve" \/ decls_ = NoDeclarations
      /\ status' = "resolve" => status = "resolve" \/ Begin("resolve")
  BY AnswerKept DEF Phases
<1>3. CASE status = "resolve"
  BY <1>3, ResolverAnswers
<1>4. CASE status # "resolve"
  <2>1. bound' = bound
    BY <1>4, BoundKept
  <2>2. ResolveExact'
    <3>1. CASE decls_ = NoDeclarations
      BY <1>1, <3>1 DEF ResolveExact, Answered
    <3>2. CASE decls_ # NoDeclarations
      BY <1>1, <1>2, <1>4, <2>1, <3>2, ResolveExactStays DEF VerdictGoes
    <3> QED BY <3>1, <3>2
  <2>3. ASSUME status' = "resolve" PROVE Resolves'
    <3>1. Begin("resolve")
      BY <1>2, <1>4, <2>3
    <3>2. ResolveLocalVariable
      BY <3>1, BeginsAre
    <3>3. Untouched
      BY <1>4, <3>1 DEF Begin, ResolveGoes
    <3> QED BY <3>2, <3>3, ResolvesBegins
  <2> QED BY <2>2, <2>3 DEF VerdictGoes
<1> QED BY <1>3, <1>4

-----------------------------------------------------------------------------
(* Ways inwards                                                             *)

Steps(n, all, defs, types, from) ==
  CHOOSE f : f = [h \in 0..n |-> IF h = 0 THEN from ELSE PartsOfAny(all, defs, types, f[h - 1])]

\* What the search may come to.
LEMMA InwardsIs ==
  ASSUME NEW all, NEW defs, NEW types, NEW from
  PROVE  Inwards(all, defs, types, from) = Steps(MaxDepth, all, defs, types, from)
BY DEF Inwards, Steps

\* There are as many steps as one wants.
LEMMA StepsAre ==
  ASSUME NEW n \in Nat, NEW all, NEW defs, NEW types, NEW from
  PROVE  LET w == Steps(n, all, defs, types, from) IN
         w = [h \in 0..n |-> IF h = 0 THEN from ELSE PartsOfAny(all, defs, types, w[h - 1])]
<1> DEFINE Is(m, f) == f = [h \in 0..m |-> IF h = 0 THEN from ELSE PartsOfAny(all, defs, types, f[h - 1])]
           S == {m \in Nat : ~ \E f : Is(m, f)}
           w == Steps(n, all, defs, types, from)
<1>0. w = CHOOSE f : Is(n, f)
  BY Zenon DEF Steps
<1> SUFFICES Is(n, w)
  BY Zenon
<1>1. S = {}
  <2> SUFFICES ASSUME S # {} PROVE FALSE
    OBVIOUS
  <2>1. S \in SUBSET Nat
    OBVIOUS
  <2>2. PICK m \in S : \A y \in S : m <= y
    <3> HIDE DEF S
    <3> QED BY <2>1, Least
  <2>3. m \in Nat /\ (~ \E f : Is(m, f)) /\ \A y \in Nat : y < m => \E f : Is(y, f)
    <3>1. m \in Nat /\ ~ \E f : Is(m, f)
      BY <2>2
    <3>2. \A y \in Nat : y < m => y \notin S
      <4>1. \A y \in S : m <= y /\ y \in Nat
        BY <2>2
      <4> HIDE DEF S
      <4> QED BY <3>1, <4>1
    <3> QED BY <3>1, <3>2
  <2>4. CASE m = 0
    <3>1. Is(0, [h \in 0..0 |-> from])
      OBVIOUS
    <3> QED BY <2>3, <2>4, <3>1
  <2>5. CASE m # 0
    <3>1. m - 1 \in Nat /\ m - 1 < m
      BY <2>3, <2>5
    <3>2. PICK f : Is(m - 1, f)
      BY <2>3, <3>1
    <3> DEFINE g == [h \in 0..m |-> IF h = m THEN PartsOfAny(all, defs, types, f[m - 1]) ELSE f[h]]
    <3>3. \A h \in 0..m : h = m \/ h \in 0..m - 1
      BY <3>1
    <3>4. \A h \in 0..m - 1 : h \in 0..m /\ h # m
      BY <3>1
    <3>5. \A h \in 0..m - 1 : f[h] = IF h = 0 THEN from ELSE PartsOfAny(all, defs, types, f[h - 1])
      BY <3>2, Zenon
    <3>6. ASSUME NEW h \in 0..m PROVE g[h] = IF h = 0 THEN from ELSE PartsOfAny(all, defs, types, g[h - 1])
      <4>1. CASE h = m
        <5>1. m - 1 \in 0..m /\ m - 1 # m
          BY <3>1
        <5>2. g[m - 1] = f[m - 1] /\ g[h] = PartsOfAny(all, defs, types, f[m - 1])
          BY <4>1, <5>1
        <5> QED BY <2>5, <4>1, <5>2
      <4>2. CASE h \in 0..m - 1 /\ h # 0
        <5>1. h - 1 \in 0..m - 1
          BY <3>1, <4>2
        <5>2. g[h] = f[h] /\ g[h - 1] = f[h - 1]
          BY <3>4, <4>2, <5>1
        <5> QED BY <3>5, <4>2, <5>2
      <4>3. CASE h \in 0..m - 1 /\ h = 0
        <5>1. g[h] = f[h]
          BY <3>4, <4>3
        <5> QED BY <3>5, <4>3, <5>1
      <4> QED BY <3>3, <4>1, <4>2, <4>3
    <3>7. g = [h \in 0..m |-> g[h]]
      OBVIOUS
    <3> HIDE DEF g
    <3>8. Is(m, g)
      BY <3>6, <3>7
    <3> QED BY <2>3, <3>8
  <2> QED BY <2>4, <2>5
<1>2. \E f : Is(n, f)
  <2>1. n \notin S
    BY <1>1, Zenon
  <2> QED BY <2>1
<1> HIDE DEF Is, w
<1> QED BY <1>0, <1>2, Zenon

\* Where a way begins, and where it is after one step more.
LEMMA OneStep ==
  ASSUME NEW all, NEW defs, NEW types, NEW from
  PROVE  /\ Inwards(all, defs, types, from)[0] = from
         /\ \A n \in 1..MaxDepth :
              Inwards(all, defs, types, from)[n] = PartsOfAny(all, defs, types, Inwards(all, defs, types, from)[n - 1])
<1> DEFINE w == Inwards(all, defs, types, from)
<1>1. MaxDepth \in Nat \ {0}
  BY MaxDepthAssumption
<1>2. w = [h \in 0..MaxDepth |-> IF h = 0 THEN from ELSE PartsOfAny(all, defs, types, w[h - 1])]
  BY <1>1, InwardsIs, StepsAre
<1> HIDE DEF w
<1>3. w[0] = from /\ \A n \in 1..MaxDepth : w[n] = PartsOfAny(all, defs, types, w[n - 1])
  <2>1. \A h \in 0..MaxDepth : w[h] = IF h = 0 THEN from ELSE PartsOfAny(all, defs, types, w[h - 1])
    BY <1>2, Zenon
  <2> QED BY <1>1, <2>1
<1> QED BY <1>3 DEF w

-----------------------------------------------------------------------------
(* What the search looks at                                                 *)

\* What a class is defined as is a list of types.
LEMMA DefinitionIs ==
  ASSUME UnitOK, decls_ # NoDeclarations, NEW c \in Classes PROVE IsList(Definition(c))
<1> DEFINE defs == {i \in DOMAIN decls_.records : decls_.records[i][2] = c}
           first == CHOOSE i \in defs : \A j \in defs : i <= j
           ms == decls_.records[first][3]
<1>1. PICK u \in Units : decls_ = u.decls /\ types_ = u.types
  BY DEF UnitOK
<1>2. CASE defs = {}
  <2>1. Definition(c) = <<>>
    BY <1>2 DEF Definition
  <2> QED BY <2>1, EmptyList
<1>3. CASE defs # {}
  <2>1. defs \in SUBSET Nat
    BY RecordsAre
  <2> HIDE DEF defs
  <2>2. first \in defs
    <3>1. \E i \in defs : \A j \in defs : i <= j
      BY <1>3, <2>1, Least
    <3> HIDE DEF first
    <3> QED BY <3>1 DEF first
  <2> HIDE DEF first
  <2>3. first \in DOMAIN decls_.records
    BY <2>2 DEF defs
  <2>4. decls_.records \in Seq(Nodes)
    BY <1>1, TreesAssumption DEF Lists
  <2>5. decls_.records[first] \in Nodes /\ decls_.records[first][1] = "Record"
    BY <1>1, <2>3, <2>4, DeclsAssumption
  <2>6. ms \in Seq(Nodes)
    BY <2>5, TreesAssumption
  <2>7. Definition(c) = [k \in DOMAIN ms |-> ms[k][3]]
    BY <1>3 DEF Definition, first, defs
  <2> HIDE DEF ms
  <2>8. Len(ms) \in Nat /\ DOMAIN ms = 1..Len(ms)
    BY <2>6
  <2>9. DOMAIN Definition(c) = 1..Len(ms) /\ Definition(c) = [k \in 1..Len(ms) |-> Definition(c)[k]]
    BY <2>7, <2>8
  <2> QED BY <2>8, <2>9, MappedList
<1> QED BY <1>2, <1>3

Known ==
  \A type : GetMembers(type) = IF type[2] \in Classes THEN Definition(type[2]) ELSE <<>>

\* When the classes are complete it sees their definitions.
LEMMA MembersKnown == ASSUME UnitOK, CompleteOK, Completed PROVE Known
<1>1. Answered("complete") /\ answers.complete = "true"
  BY DEF Completed
<1>2. \A name \in Classes : GetMembers(<<"record", name>>) = Definition(name)
  BY <1>1, CompleteImplied DEF CompleteExact
<1>3. \A name \in DOMAIN members_ : name \in Classes
  BY DEF CompleteOK
<1> SUFFICES ASSUME NEW type
             PROVE  GetMembers(type) = IF type[2] \in Classes THEN Definition(type[2]) ELSE <<>>
  BY DEF Known
<1>4. GetMembers(type) = GetMembers(<<"record", type[2]>>)
  <2>1. <<"record", type[2]>>[2] = type[2]
    OBVIOUS
  <2> QED BY <2>1 DEF GetMembers
<1>5. CASE type[2] \in Classes
  BY <1>2, <1>4, <1>5
<1>6. CASE type[2] \notin Classes
  BY <1>3, <1>6 DEF GetMembers
<1> QED BY <1>5, <1>6

\* A step of the search is one step inwards.
LEMMA InsideIs ==
  ASSUME UnitOK, decls_ # NoDeclarations, Known, NEW type
  PROVE  /\ Inside(type) = <<>> => PartsOf(FALSE, Definitions, types_, type) = {}
         /\ Inside(type) # <<>> => PartsOf(FALSE, Definitions, types_, type) = {Inside(type)[1]}
         /\ PartsOf(FALSE, Definitions, types_, type) \subseteq PartsOf(TRUE, Definitions, types_, type)
<1> DEFINE W(all) == PartsOf(all, Definitions, types_, type)
<1>1. CASE type[1] = "user"
  <2>1. W(FALSE) = {types_[type[2]][2]} /\ W(TRUE) = {types_[type[2]][2]}
    BY <1>1 DEF PartsOf
  <2>2. Inside(type) = <<types_[type[2]][2]>>
    BY <1>1 DEF Inside, GetBaseType
  <2>3. Inside(type) # <<>> /\ Inside(type)[1] = types_[type[2]][2]
    BY <2>2
  <2> QED BY <2>1, <2>3
<1>2. CASE type[1] = "array"
  <2>1. W(FALSE) = {type[2]} /\ W(TRUE) = {type[2]}
    BY <1>2 DEF PartsOf
  <2>2. Inside(type) = <<type[2]>>
    BY <1>2 DEF Inside, GetBaseType
  <2>3. Inside(type) # <<>> /\ Inside(type)[1] = type[2]
    BY <2>2
  <2> QED BY <2>1, <2>3
<1>3. CASE type[1] = "record"
  <2> DEFINE c == type[2]
             ms == Definition(c)
  <2>1. CASE c \in Classes
    <3>1. IsList(ms)
      BY <2>1, DefinitionIs
    <3>2. GetMembers(type) = ms /\ Definitions[c] = ms /\ c \in DOMAIN Definitions
      BY <2>1 DEF Known, Definitions
    <3>3. W(FALSE) = {ms[k] : k \in {k \in DOMAIN ms : FALSE \/ k = 1}} /\ W(TRUE) = {ms[k] : k \in {k \in DOMAIN ms : TRUE \/ k = 1}}
      BY <1>3, <3>2 DEF PartsOf
    <3>4. Inside(type) = IF ms # <<>> THEN <<Head(ms)>> ELSE <<>>
      BY <1>3, <3>2 DEF Inside
    <3> HIDE DEF ms
    <3>5. CASE ms = <<>>
      <4>1. DOMAIN ms = {}
        BY <3>5
      <4>2. Inside(type) = <<>>
        BY <3>4, <3>5
      <4> QED BY <3>3, <4>1, <4>2
    <3>6. CASE ms # <<>>
      <4>1. 1 \in DOMAIN ms /\ Head(ms) = ms[1]
        <5>1. ms \in Seq({ms[k] : k \in 1..Len(ms)}) /\ Len(ms) > 0 /\ DOMAIN ms = 1..Len(ms) /\ Len(ms) \in Nat
          BY <3>1, <3>6, ListProperties DEF IsList
        <5> QED BY <5>1
      <4>2. Inside(type) = <<ms[1]>>
        BY <3>4, <3>6, <4>1
      <4>3. Inside(type) # <<>> /\ Inside(type)[1] = ms[1]
        BY <4>2
      <4>4. W(FALSE) = {ms[1]} /\ W(FALSE) \subseteq W(TRUE)
        BY <3>3, <4>1
      <4> QED BY <4>3, <4>4
    <3> QED BY <3>5, <3>6
  <2>2. CASE c \notin Classes
    <3>1. GetMembers(type) = <<>> /\ c \notin DOMAIN Definitions
      BY <2>2 DEF Known, Definitions
    <3>2. W(FALSE) = {} /\ Inside(type) = <<>>
      BY <1>3, <3>1 DEF PartsOf, Inside
    <3> QED BY <3>2
  <2> QED BY <2>1, <2>2
<1>4. CASE type[1] \notin {"user", "array", "record"}
  <2>1. W(FALSE) = {} /\ Inside(type) = <<>>
    BY <1>4 DEF PartsOf, Inside
  <2> QED BY <2>1
<1> QED BY <1>1, <1>2, <1>3, <1>4

-----------------------------------------------------------------------------
(* How far the search has come                                              *)

\* Nothing follows a phase that ends the process; the search always does.
EndsOK ==
  /\ \A phase \in DOMAIN answers : answers[phase] \in {"assert", "crash"} => status = "stopped"
  /\ "recursion" \in DOMAIN answers => status = "stopped"
  /\ "complete" \in DOMAIN answers /\ answers["complete"] # "true" => status = "stopped"

\* All parts of c, by the number of steps inwards.
Parts(c) == Inwards(TRUE, Definitions, types_, PartsOf(TRUE, Definitions, types_, RecordType(c)))

\* The classes that the search is done with, and the members of the present one.
SearchedOK ==
  /\ origin = Null \/ origin = RecordType(origin[2])
  /\ origin = Null => at = 1 /\ depth = 0
  /\ \A type \in unseen : type[1] = "record" => type = RecordType(type[2])
  /\ Completed =>
       /\ \A c \in Classes : RecordType(c) \in unseen \/ RecordType(c) = origin \/ \A k \in DOMAIN Definition(c) : Leaves(c, k)
       /\ origin # Null /\ origin[2] \in Classes =>
            \A k \in DOMAIN Definition(origin[2]) : k < at => Leaves(origin[2], k)

\* The way it goes from the present one.
OnTheWay ==
  depth > 0 =>
    LET c == origin[2] IN
    /\ Completed /\ origin # Null /\ c \in Classes /\ at \in DOMAIN Definition(c)
    /\ Misses(c, Way(c, at), depth - 1) /\ Way(c, at)[depth - 1] = {target}
    /\ target \in Parts(c)[depth - 1]

SearchGoes ==
  /\ EndsOK
  /\ status # "recursion" /\ "recursion" \notin DOMAIN answers => origin = Null /\ at = 1 /\ depth = 0
  /\ status = "recursion" => (Completed \/ DOMAIN members_ = {}) /\ SearchedOK /\ OnTheWay
  /\ RecursionExact

\* The ways are those of the program.
LEMMA WaysKept ==
  ASSUME UNCHANGED <<decls_, types_>>
  PROVE  /\ Classes' = Classes /\ Definitions' = Definitions
         /\ \A c : Definition(c)' = Definition(c) /\ Parts(c)' = Parts(c)
         /\ \A c : \A k : Way(c, k)' = Way(c, k)
         /\ \A c : \A k : /\ Leaves(c, k)' <=> Leaves(c, k)
                          /\ Returns(c, k)' <=> Returns(c, k)
                          /\ Circles(c, k)' <=> Circles(c, k)
         /\ \A c : Recursive(c)' <=> Recursive(c)
<1>1. Classes' = Classes
  BY DEF Classes
<1>2. \A c : Definition(c)' = Definition(c)
  BY DEF Definition
<1>3. Definitions' = Definitions
  BY <1>1, <1>2 DEF Definitions
<1>4. \A c : Parts(c)' = Parts(c)
  BY <1>3 DEF Parts
<1>5. \A c : \A k : Way(c, k)' = Way(c, k)
  BY <1>2, <1>3 DEF Way
<1>6. \A c : \A k : Leaves(c, k)' <=> Leaves(c, k)
  BY <1>5 DEF Leaves
<1>7. \A c : \A k : Returns(c, k)' <=> Returns(c, k)
  BY <1>5 DEF Returns
<1>8. \A c : \A k : Circles(c, k)' <=> Circles(c, k)
  BY <1>5 DEF Circles
<1>9. \A c : Recursive(c)' <=> Recursive(c)
  BY <1>3 DEF Recursive
<1> QED BY <1>1, <1>2, <1>3, <1>4, <1>5, <1>6, <1>7, <1>8, <1>9

FirstPartsOf(type) == PartsOf(FALSE, Definitions, types_, type)
AllPartsOf(type) == PartsOf(TRUE, Definitions, types_, type)

\* What a way comes to, and the parts.
LEMMA WayIs ==
  ASSUME NEW c, NEW k
  PROVE  /\ Way(c, k)[0] = {Definition(c)[k]}
         /\ \A n \in 1..MaxDepth : Way(c, k)[n] = UNION {FirstPartsOf(type) : type \in Way(c, k)[n - 1]}
<1> DEFINE all == FALSE
           from == {Definition(c)[k]}
           w == Inwards(all, Definitions, types_, from)
<1>1. Way(c, k) = w
  BY DEF Way
<1> HIDE DEF all, from
<1>2. w[0] = from /\ \A n \in 1..MaxDepth : w[n] = PartsOfAny(all, Definitions, types_, w[n - 1])
  BY OneStep
<1> HIDE DEF w
<1>3. /\ Way(c, k)[0] = from
      /\ \A n \in 1..MaxDepth : Way(c, k)[n] = PartsOfAny(all, Definitions, types_, Way(c, k)[n - 1])
  BY <1>1, <1>2
<1> QED BY <1>3, Zenon DEF all, from, PartsOfAny, FirstPartsOf, AllPartsOf

\* Every part is a part of a part.
LEMMA PartsAre ==
  ASSUME NEW c
  PROVE  /\ Parts(c)[0] = AllPartsOf(RecordType(c))
         /\ \A n \in 1..MaxDepth : Parts(c)[n] = UNION {AllPartsOf(type) : type \in Parts(c)[n - 1]}
<1> DEFINE all == TRUE
           from == PartsOf(TRUE, Definitions, types_, RecordType(c))
           w == Inwards(all, Definitions, types_, from)
<1>1. Parts(c) = w
  BY DEF Parts
<1> HIDE DEF all, from
<1>2. w[0] = from /\ \A n \in 1..MaxDepth : w[n] = PartsOfAny(all, Definitions, types_, w[n - 1])
  BY OneStep
<1> HIDE DEF w
<1>3. /\ Parts(c)[0] = from
      /\ \A n \in 1..MaxDepth : Parts(c)[n] = PartsOfAny(all, Definitions, types_, Parts(c)[n - 1])
  BY <1>1, <1>2
<1> QED BY <1>3, Zenon DEF all, from, PartsOfAny, FirstPartsOf, AllPartsOf

\* A way begins at a member, which is a part.
LEMMA WayBegins ==
  ASSUME NEW c \in Classes, NEW k \in DOMAIN Definition(c)
  PROVE  Way(c, k)[0] = {Definition(c)[k]} /\ Definition(c)[k] \in Parts(c)[0]
<1> DEFINE r == RecordType(c)
<1>1. Way(c, k)[0] = {Definition(c)[k]}
  BY WayIs
<1>2. Parts(c)[0] = AllPartsOf(r)
  BY PartsAre
<1>3. r[1] = "record" /\ r[2] = c
  BY DEF RecordType
<1>4. c \in DOMAIN Definitions /\ Definitions[c] = Definition(c)
  BY DEF Definitions
<1> HIDE DEF r
<1>5. AllPartsOf(r) = {Definition(c)[j] : j \in {j \in DOMAIN Definition(c) : TRUE \/ j = 1}}
  BY <1>3, <1>4 DEF PartsOf, AllPartsOf
<1> QED BY <1>1, <1>2, <1>5 DEF r

\* It goes on with what the search goes on with.
LEMMA WayOn ==
  ASSUME UnitOK, decls_ # NoDeclarations, Known, NEW c, NEW k, NEW t,
         NEW n \in 1..MaxDepth, Way(c, k)[n - 1] = {t}, t \in Parts(c)[n - 1]
  PROVE  /\ Inside(t) = <<>> => Way(c, k)[n] = {}
         /\ Inside(t) # <<>> => Way(c, k)[n] = {Inside(t)[1]} /\ Inside(t)[1] \in Parts(c)[n]
<1>1. Way(c, k)[n] = UNION {FirstPartsOf(type) : type \in {t}}
  BY WayIs
<1>2. Parts(c)[n] = UNION {AllPartsOf(type) : type \in Parts(c)[n - 1]}
  BY PartsAre
<1>3. Way(c, k)[n] = FirstPartsOf(t) /\ AllPartsOf(t) \subseteq Parts(c)[n]
  BY <1>1, <1>2
<1>4. /\ Inside(t) = <<>> => FirstPartsOf(t) = {}
      /\ Inside(t) # <<>> => FirstPartsOf(t) = {Inside(t)[1]}
      /\ FirstPartsOf(t) \subseteq AllPartsOf(t)
  BY InsideIs DEF FirstPartsOf, AllPartsOf
<1> QED BY <1>3, <1>4

\* Where a way comes to another type it goes on without the class.
LEMMA MissesOn ==
  ASSUME NEW c, NEW way, NEW n \in Nat, Misses(c, way, n), NEW t, way[n] = {t}, t # RecordType(c)
  PROVE  Misses(c, way, n + 1)
<1>1. \A m \in 0..(n + 1) - 1 : m = n \/ m \in 0..n - 1
  OBVIOUS
<1> QED BY <1>1 DEF Misses

\* What is not what the search looks for is not the class.
LEMMA OriginIs ==
  ASSUME NEW c, origin = RecordType(c)
  PROVE  /\ ~IsOrigin => target # RecordType(c)
         /\ IsOrigin /\ target # RecordType(c) => Inside(target) # <<>> /\ Inside(target)[1] = RecordType(c)
<1>1. RecordType(c)[1] = "record"
  BY DEF RecordType
<1>2. CASE target[1] \in {"user", "array"}
  <2>1. Inside(target) = <<GetBaseType(target)>>
    BY <1>2 DEF Inside
  <2>2. Inside(target) # <<>> /\ Inside(target)[1] = GetBaseType(target)
    BY <2>1
  <2>3. target # RecordType(c)
    BY <1>1, <1>2
  <2> QED BY <1>2, <2>2, <2>3 DEF IsOrigin
<1>3. CASE target[1] \notin {"user", "array"}
  BY <1>3 DEF IsOrigin
<1> QED BY <1>2, <1>3

\* There is no room for more types than steps on a way.
LEMMA WayFits ==
  ASSUME NEW way
  PROVE  (\E m, n \in 0..MaxDepth : m < n /\ way[m] = way[n]) \/ Cardinality({way[n] : n \in 0..MaxDepth}) > MaxDepth
<1>1. MaxDepth \in Nat
  BY MaxDepthAssumption
<1> DEFINE S == 0..MaxDepth
           T == {way[n] : n \in S}
           f == [n \in S |-> way[n]]
<1> SUFFICES ASSUME ~ \E m, n \in S : m < n /\ way[m] = way[n] PROVE Cardinality(T) = MaxDepth + 1
  BY <1>1
<1>2. \A m, n \in S : way[m] = way[n] => m = n
  <2>1. \A m, n \in S : m < n \/ n < m \/ m = n
    BY <1>1
  <2> HIDE DEF S
  <2> QED BY <2>1
<1>3. IsFiniteSet(S) /\ Cardinality(S) = MaxDepth + 1
  BY <1>1, FS_Interval
<1> HIDE DEF S
<1>4. f \in [S -> T] /\ (\A m, n \in S : f[m] = f[n] => m = n) /\ \A t \in T : \E n \in S : f[n] = t
  BY <1>2
<1> HIDE DEF T, f
<1>5. f \in Bijection(S, T)
  BY <1>4 DEF Bijection, Injection, Surjection, IsInjective
<1>6. ExistsBijection(S, T)
  BY <1>5 DEF ExistsBijection
<1> QED BY <1>3, <1>6, FS_Bijection

\* When a phase has ended the process nothing changes any more.
LEMMA StoppedStays == ASSUME IInv, status = "stopped", [Next]_vars PROVE UNCHANGED vars
<1>1. ~PassesNext
  BY PassKinds DEF Working, PassPhases, Begin
<1>2. ~TypesNext
  BY TypeKinds DEF Working, TypePhases, Begin
<1>3. ~NoDecls
  BY DEF NoDecls
<1> QED BY <1>1, <1>2, <1>3 DEF Next, Terminated

SearchSteps == NextType \/ NextBehindLast \/ CheckMember \/ RecursionFound \/ CheckRecursiveTypeDef \/ StackOverflow \/ NotFound

\* Only the search goes on when it runs.
LEMMA SearchOnly ==
  ASSUME IInv, status = "recursion", [Next]_vars PROVE SearchSteps \/ UNCHANGED vars
<1>1. ~PassesNext
  BY PassKinds DEF Working, PassPhases, Begin
<1>2. ~NoDecls
  BY DEF NoDecls
<1>3. TypesNext => SearchSteps
  BY DEF TypesNext, SearchSteps, CompleteFunctionType, FunctionWithoutClass, SkipRecordType, CompleteRecordType,
     EndOfRecords, CheckSemanticError, Begin, Completing
<1> QED BY <1>1, <1>2, <1>3 DEF Next, Terminated

\* Nor does any other phase begin it.
LEMMA SearchBegins == ASSUME IInv, [Next]_vars, ~CheckSemanticError PROVE ~Begin("recursion")
<1>1. CASE PassesNext
  <2>1. (\E phase \in PassPhases : Begin(phase)) \/ status \in PassPhases
    BY <1>1, PassKinds DEF Working
  <2> QED BY <2>1 DEF Begin, PassPhases
<1>2. CASE TypesNext
  BY <1>2 DEF TypesNext, CompleteFunctionType, FunctionWithoutClass, SkipRecordType, CompleteRecordType, EndOfRecords,
     Completing, NextType, NextBehindLast, CheckMember, RecursionFound, CheckRecursiveTypeDef, StackOverflow,
     NotFound, Searching, Checking, Begin
<1>3. CASE NoDecls
  BY <1>3 DEF NoDecls, Begin, Answer
<1>4. CASE UNCHANGED vars
  BY <1>4 DEF vars, Begin
<1> QED BY <1>1, <1>2, <1>3, <1>4 DEF Next, Terminated

\* No other phase does anything to it.
LEMMA SearchElsewhere ==
  ASSUME IInv, AnswersOK, status # "recursion", [Next]_vars, ~CheckSemanticError
  PROVE  /\ status' # "recursion" /\ ("recursion" \in DOMAIN answers' => "recursion" \in DOMAIN answers)
         /\ UNCHANGED <<unseen, origin, at, target, depth>>
<1>1. \/ Continue
      \/ \E phase \in Phases \ {"recursion"} : Begin(phase)
      \/ \E phase \in Phases \ {"recursion"}, next \in {"idle", "stopped"}, how \in {"true", "false", "assert", "crash"} :
           Answer(phase, next, how) /\ phase \notin DOMAIN answers
  <2>1. CASE Working(Phases) \/ NoDecls
    <3>1. CASE Continue
      BY <3>1
    <3>2. CASE ~Continue
      <4>1. PICK phase \in Phases, next \in {"idle", "stopped"}, how \in {"true", "false", "assert", "crash"} :
              /\ phase \notin DOMAIN answers /\ Answer(phase, next, how)
              /\ status = phase \/ (status = "idle" /\ decls_ = NoDeclarations)
        BY <2>1, <3>2, EndsAre
      <4>2. CASE phase # "recursion"
        BY <4>1, <4>2
      <4>3. CASE phase = "recursion"
        <5>1. NoDecls
          BY <2>1, <4>1, <4>3 DEF Working, Phases
        <5>2. "recursion" \in DOMAIN answers'
          BY <4>1, <4>3, AnswerIs
        <5>3. PICK p \in Phases \ {"recursion"} : \E n \in {"idle", "stopped"} : \E h \in {"false", "crash"} : Answer(p, n, h)
          BY <5>1 DEF NoDecls, Phases
        <5>4. DOMAIN answers' = DOMAIN answers \cup {p}
          BY <5>3 DEF Answer, Put
        <5> QED BY <4>1, <4>3, <5>2, <5>3, <5>4
      <4> QED BY <4>2, <4>3
    <3> QED BY <3>1, <3>2
  <2>2. CASE \E phase \in Phases : Begin(phase)
    BY <2>2, SearchBegins
  <2>3. CASE Continue
    BY <2>3
  <2> QED BY <2>1, <2>2, <2>3, Kinds
<1>2. status' # "recursion" /\ ("recursion" \in DOMAIN answers' => "recursion" \in DOMAIN answers)
  <2>1. CASE Continue
    BY <2>1 DEF Continue
  <2>2. ASSUME NEW phase \in Phases \ {"recursion"}, Begin(phase)
        PROVE  status' # "recursion" /\ answers' = answers
    BY <2>2 DEF Begin
  <2>3. ASSUME NEW phase \in Phases \ {"recursion"}, NEW next \in {"idle", "stopped"}, NEW how,
               Answer(phase, next, how), phase \notin DOMAIN answers
        PROVE  status' # "recursion" /\ DOMAIN answers' = DOMAIN answers \cup {phase}
    BY <2>3, AnswerIs
  <2> QED BY <1>1, <2>1, <2>2, <2>3
<1>3. UNCHANGED <<unseen, origin, at, target, depth>>
  <2>1. CASE TypesNext
    BY <2>1 DEF TypesNext, CompleteFunctionType, FunctionWithoutClass, SkipRecordType, CompleteRecordType,
       EndOfRecords, NextType, NextBehindLast, CheckMember, RecursionFound, CheckRecursiveTypeDef, StackOverflow,
       NotFound, Searching, Checking, typeVars
  <2>2. CASE ~TypesNext
    BY <2>2, TypesElsewhere DEF typeVars
  <2> QED BY <2>1, <2>2
<1> QED BY <1>2, <1>3

\* What the search sees, and what the class is that it is at.
LEMMA OriginKnown ==
  ASSUME UnitOK, CompleteOK, Completed, SearchedOK
  PROVE  /\ Known /\ decls_ # NoDeclarations
         /\ \A c \in Classes : /\ DOMAIN Definition(c) = 1..Len(Definition(c)) /\ Len(Definition(c)) \in Nat
                              /\ origin = RecordType(c) => origin[2] = c /\ GetMembers(origin) = Definition(c)
                                                            /\ GetMemberNum = Len(Definition(c))
<1>1. Known /\ decls_ # NoDeclarations
  BY MembersKnown DEF Completed, Answered
<1> SUFFICES ASSUME NEW c \in Classes
             PROVE  /\ DOMAIN Definition(c) = 1..Len(Definition(c)) /\ Len(Definition(c)) \in Nat
                    /\ origin = RecordType(c) => origin[2] = c /\ GetMembers(origin) = Definition(c)
                                                  /\ GetMemberNum = Len(Definition(c))
  BY <1>1
<1>2. IsList(Definition(c))
  BY <1>1, DefinitionIs
<1>3. DOMAIN Definition(c) = 1..Len(Definition(c)) /\ Len(Definition(c)) \in Nat
  BY <1>2, ListProperties
<1>4. ASSUME origin = RecordType(c) 
      PROVE  origin[2] = c /\ GetMembers(origin) = Definition(c) /\ GetMemberNum = Len(Definition(c))
  <2>1. origin[2] = c
    BY <1>4 DEF RecordType
  <2>2. GetMembers(origin) = Definition(c)
    BY <1>1, <2>1 DEF Known
  <2>3. origin # Null
    BY <1>4 DEF RecordType, Null
  <2> QED BY <2>1, <2>2, <2>3 DEF GetMemberNum
<1> QED BY <1>3, <1>4

\* The class that has no more members to be checked is done with.
LEMMA Finished ==
  ASSUME UnitOK, SearchOK, CompleteOK, Completed, SearchedOK, at > GetMemberNum, NEW c \in Classes, origin = RecordType(c)
  PROVE  \A k \in DOMAIN Definition(c) : Leaves(c, k)
<1>1. /\ DOMAIN Definition(c) = 1..Len(Definition(c)) /\ Len(Definition(c)) \in Nat
      /\ origin[2] = c /\ GetMemberNum = Len(Definition(c))
  BY OriginKnown
<1>2. origin # Null
  BY DEF RecordType, Null
<1>3. \A k \in DOMAIN Definition(c) : k < at => Leaves(c, k)
  BY <1>1, <1>2 DEF SearchedOK
<1>4. at > Len(Definition(c))
  BY <1>1
<1>5. at \in Nat /\ \A k \in DOMAIN Definition(c) : k \in Nat /\ k < at
  BY <1>1, <1>4 DEF SearchOK
<1> QED BY <1>3, <1>5

-----------------------------------------------------------------------------
(* The steps of the search                                                  *)

\* All that a step of it goes on from.
SearchBusy == UnitOK /\ AnswersOK /\ SearchOK /\ CompleteOK /\ SearchGoes /\ status = "recursion"

\* It goes on.
LEMMA SearchContinues ==
  ASSUME SearchBusy, Continue, members_' = members_, SearchedOK', OnTheWay' PROVE SearchGoes'
<1>1. "recursion" \notin DOMAIN answers
  BY DEF SearchBusy, AnswersOK
<1>2. UNCHANGED <<decls_, types_, status, answers>>
  BY DEF Continue
<1>3. EndsOK'
  BY <1>2 DEF EndsOK, SearchBusy, SearchGoes
<1>4. (Completed \/ DOMAIN members_ = {})'
  BY <1>2 DEF SearchBusy, SearchGoes, Completed, Answered
<1>5. RecursionExact'
  BY <1>1, <1>2 DEF RecursionExact
<1> QED BY <1>2, <1>3, <1>4, <1>5 DEF SearchGoes, SearchBusy

\* It ends, and the program with it.
LEMMA SearchEnds ==
  ASSUME SearchBusy, NEW how \in {"assert", "crash"}, Answer(status, "stopped", how)
  PROVE  /\ answers'["recursion"] = how /\ (Completed' <=> Completed) /\ UNCHANGED <<decls_, types_>>
         /\ RecursionExact' => SearchGoes'
<1>1. "recursion" \notin DOMAIN answers
  BY DEF SearchBusy, AnswersOK
<1>2. /\ DOMAIN answers' = DOMAIN answers \cup {"recursion"} /\ answers'["recursion"] = how
      /\ \A p \in DOMAIN answers : answers'[p] = answers[p]
      /\ status' = "stopped" /\ UNCHANGED <<decls_, types_>>
  BY <1>1, AnswerIs DEF SearchBusy
<1>3. Completed' <=> Completed
  BY <1>2 DEF Completed, Answered
<1>4. EndsOK'
  BY <1>2 DEF EndsOK
<1> QED BY <1>2, <1>3, <1>4 DEF SearchGoes

\* What it is done with stays so as long as it is at the same member.
LEMMA SearchedKept ==
  ASSUME SearchedOK, UNCHANGED <<decls_, types_, answers, unseen, origin, at>>, origin # Null PROVE SearchedOK'
<1>1. Completed' <=> Completed
  BY DEF Completed, Answered
<1>2. /\ Classes' = Classes
      /\ \A c : Definition(c)' = Definition(c) /\ \A k : Leaves(c, k)' <=> Leaves(c, k)
  BY WaysKept
<1>3. ASSUME Completed, NEW c \in Classes
      PROVE  RecordType(c) \in unseen \/ RecordType(c) = origin \/ \A k \in DOMAIN Definition(c)' : Leaves(c, k)'
  BY <1>2, <1>3 DEF SearchedOK
<1>4. PICK o : o = origin[2]
  OBVIOUS
<1>5. ASSUME Completed, o \in Classes PROVE \A k \in DOMAIN Definition(o)' : k < at => Leaves(o, k)'
  BY <1>2, <1>4, <1>5 DEF SearchedOK
<1>6. /\ origin = Null \/ origin = RecordType(origin[2])
      /\ \A type \in unseen : type[1] = "record" => type = RecordType(type[2])
  BY DEF SearchedOK
<1> QED BY <1>1, <1>2, <1>3, <1>4, <1>5, <1>6 DEF SearchedOK

\* What is known where it starts from a class.
LEMMA AtTarget ==
  ASSUME SearchBusy, depth > 0, NEW c, c = origin[2], NEW k, k = at
  PROVE  /\ Completed /\ origin = RecordType(c) /\ c \in Classes /\ k \in DOMAIN Definition(c)
         /\ depth \in 1..MaxDepth /\ Misses(c, Way(c, k), depth - 1)
         /\ Way(c, k)[depth - 1] = {target} /\ target \in Parts(c)[depth - 1]
         /\ Known /\ decls_ # NoDeclarations
<1>1. /\ Completed /\ origin # Null /\ c \in Classes /\ k \in DOMAIN Definition(c)
      /\ Misses(c, Way(c, k), depth - 1) /\ Way(c, k)[depth - 1] = {target} /\ target \in Parts(c)[depth - 1]
  BY DEF SearchBusy, SearchGoes, OnTheWay
<1>2. SearchedOK /\ depth \in 0..MaxDepth
  BY DEF SearchBusy, SearchGoes, SearchOK
<1>3. origin = RecordType(c)
  BY <1>1, <1>2 DEF SearchedOK
<1>4. Known /\ decls_ # NoDeclarations
  BY <1>1, <1>2, OriginKnown DEF SearchBusy
<1>5. depth \in 1..MaxDepth
  BY <1>2, MaxDepthAssumption
<1> QED BY <1>1, <1>3, <1>4, <1>5

\* What is known when the class is not at the target.
LEMMA BeyondTarget ==
  ASSUME SearchBusy, depth > 0, NEW c, c = origin[2], NEW k, k = at, target # RecordType(c)
  PROVE  /\ Misses(c, Way(c, k), depth)
         /\ Inside(target) = <<>> => Way(c, k)[depth] = {}
         /\ Inside(target) # <<>> => Way(c, k)[depth] = {Inside(target)[1]} /\ Inside(target)[1] \in Parts(c)[depth]
<1>1. /\ depth \in 1..MaxDepth /\ Misses(c, Way(c, k), depth - 1)
      /\ Way(c, k)[depth - 1] = {target} /\ target \in Parts(c)[depth - 1]
      /\ Known /\ decls_ # NoDeclarations
  BY AtTarget
<1>2. depth - 1 \in Nat /\ (depth - 1) + 1 = depth
  BY <1>1
<1>3. Misses(c, Way(c, k), (depth - 1) + 1)
  BY <1>1, <1>2, MissesOn
<1>4. UnitOK
  BY DEF SearchBusy
<1> QED BY <1>1, <1>2, <1>3, <1>4, WayOn

\* The class is found: it is a part of itself.
LEMMA FoundGoesOn == ASSUME SearchBusy, RecursionFound PROVE SearchGoes'
<1>0. PICK c, k : c = origin[2] /\ k = at
  OBVIOUS
<1>1. depth > 0 /\ IsOrigin /\ Answer(status, "stopped", "assert") /\ UNCHANGED <<origin, at, depth>>
  BY DEF RecursionFound, Checking, Refuse, typeVars, SearchBusy
<1>2. /\ Completed /\ origin = RecordType(c) /\ c \in Classes /\ k \in DOMAIN Definition(c)
      /\ depth \in 1..MaxDepth /\ Misses(c, Way(c, k), depth - 1)
      /\ Way(c, k)[depth - 1] = {target} /\ target \in Parts(c)[depth - 1]
  BY <1>0, <1>1, AtTarget
<1>3. \E n \in 0..MaxDepth : Misses(c, Way(c, k), n) /\ Way(c, k)[n] = {RecordType(c)} /\ RecordType(c) \in Parts(c)[n]
  <2>1. CASE target = RecordType(c)
    <3>1. depth - 1 \in 0..MaxDepth
      BY <1>2, MaxDepthAssumption
    <3> QED BY <1>2, <2>1, <3>1
  <2>2. CASE target # RecordType(c)
    <3>1. Inside(target) # <<>> /\ Inside(target)[1] = RecordType(c)
      BY <1>1, <1>2, <2>2, OriginIs
    <3>2. /\ Misses(c, Way(c, k), depth) /\ Way(c, k)[depth] = {RecordType(c)} /\ RecordType(c) \in Parts(c)[depth]
      BY <1>0, <1>1, <2>2, <3>1, BeyondTarget
    <3>3. depth \in 0..MaxDepth
      BY <1>2
    <3> QED BY <3>2, <3>3
  <2> QED BY <2>1, <2>2
<1>4. Returns(c, k) /\ Recursive(c)
  BY <1>3 DEF Returns, Recursive, Parts
<1>5. answers'["recursion"] = "assert" /\ (Completed' <=> Completed) /\ UNCHANGED <<decls_, types_>>
  BY <1>1, SearchEnds
<1>6. Definition(c)' = Definition(c) /\ (Returns(c, k)' <=> Returns(c, k)) /\ (Recursive(c)' <=> Recursive(c))
  BY <1>5, WaysKept
<1>7. RecursionExact'
  BY <1>0, <1>1, <1>2, <1>4, <1>5, <1>6 DEF RecursionExact
<1> QED BY <1>1, <1>7, SearchEnds

\* The stack overflows: the way goes in a circle.
LEMMA OverflowGoesOn == ASSUME SearchBusy, StackOverflow PROVE SearchGoes'
<1>0. PICK c, k : c = origin[2] /\ k = at
  OBVIOUS
<1>1. /\ depth > 0 /\ ~IsOrigin /\ Inside(target) # <<>> /\ depth = MaxDepth
      /\ Answer(status, "stopped", "crash") /\ UNCHANGED <<origin, at, depth>>
  BY DEF StackOverflow, Checking, Crash, typeVars, SearchBusy
<1>2. Completed /\ origin = RecordType(c) /\ k \in DOMAIN Definition(c)
  BY <1>0, <1>1, AtTarget
<1>3. target # RecordType(c)
  BY <1>1, <1>2, OriginIs
<1>4. Misses(c, Way(c, k), MaxDepth) /\ Way(c, k)[MaxDepth] = {Inside(target)[1]}
  BY <1>0, <1>1, <1>3, BeyondTarget
<1>5. Circles(c, k)
  BY <1>4, WayFits DEF Circles
<1>6. answers'["recursion"] = "crash" /\ (Completed' <=> Completed) /\ UNCHANGED <<decls_, types_>>
  BY <1>1, SearchEnds
<1>7. Definition(c)' = Definition(c) /\ (Circles(c, k)' <=> Circles(c, k))
  BY <1>6, WaysKept
<1>8. RecursionExact'
  BY <1>0, <1>1, <1>2, <1>5, <1>6, <1>7 DEF RecursionExact
<1> QED BY <1>1, <1>8, SearchEnds

\* It looks one type further in.
LEMMA DeeperGoesOn == ASSUME SearchBusy, CheckRecursiveTypeDef PROVE SearchGoes'
<1>0. PICK c, k : c = origin[2] /\ k = at
  OBVIOUS
<1>1. /\ depth > 0 /\ ~IsOrigin /\ Inside(target) # <<>> /\ target' = Inside(target)[1] /\ depth' = depth + 1
      /\ Continue /\ UNCHANGED <<members_, unseen, origin, at>>
  BY DEF CheckRecursiveTypeDef, Checking
<1>2. /\ Completed /\ origin = RecordType(c) /\ c \in Classes /\ k \in DOMAIN Definition(c) /\ depth \in 1..MaxDepth
  BY <1>0, <1>1, AtTarget
<1>3. target # RecordType(c)
  BY <1>1, <1>2, OriginIs
<1>4. /\ Misses(c, Way(c, k), depth) /\ Way(c, k)[depth] = {Inside(target)[1]} /\ Inside(target)[1] \in Parts(c)[depth]
  BY <1>0, <1>1, <1>3, BeyondTarget
<1>5. UNCHANGED <<decls_, types_, answers>>
  BY <1>1 DEF Continue
<1>6. /\ Classes' = Classes /\ Definition(c)' = Definition(c) /\ Way(c, k)' = Way(c, k) /\ Parts(c)' = Parts(c)
      /\ (Completed' <=> Completed)
  <2>1. Completed' <=> Completed
    BY <1>5 DEF Completed, Answered
  <2> QED BY <1>5, <2>1, WaysKept
<1>7. depth' - 1 = depth /\ origin # Null
  BY <1>1, <1>2 DEF RecordType, Null
<1>8. OnTheWay'
  BY <1>0, <1>1, <1>2, <1>4, <1>6, <1>7 DEF OnTheWay
<1>9. SearchedOK'
  BY <1>1, <1>2, <1>5, <1>7, SearchedKept DEF SearchBusy, SearchGoes
<1> QED BY <1>1, <1>8, <1>9, SearchContinues

\* The way has an end: on to the next member.
LEMMA NotFoundGoesOn == ASSUME SearchBusy, NotFound PROVE SearchGoes'
<1>0. PICK c, k : c = origin[2] /\ k = at
  OBVIOUS
<1>1. /\ depth > 0 /\ ~IsOrigin /\ Inside(target) = <<>> /\ at' = at + 1 /\ depth' = 0
      /\ Continue /\ UNCHANGED <<members_, unseen, origin>>
  BY DEF NotFound, Checking
<1>2. Completed /\ origin = RecordType(c) /\ c \in Classes /\ k \in DOMAIN Definition(c) /\ depth \in 1..MaxDepth
  BY <1>0, <1>1, AtTarget
<1>3. target # RecordType(c)
  BY <1>1, <1>2, OriginIs
<1>4. Misses(c, Way(c, k), depth) /\ Way(c, k)[depth] = {}
  BY <1>0, <1>1, <1>3, BeyondTarget
<1>5. Leaves(c, k)
  <2>1. depth \in 0..MaxDepth
    BY <1>2
  <2> QED BY <1>4, <2>1 DEF Leaves
<1>6. UNCHANGED <<decls_, types_, answers>>
  BY <1>1 DEF Continue
<1>7. /\ Classes' = Classes /\ (Completed' <=> Completed)
      /\ \A d : Definition(d)' = Definition(d) /\ \A j : Leaves(d, j)' <=> Leaves(d, j)
  BY <1>6, WaysKept DEF Completed, Answered
<1>8. SearchedOK /\ at \in Nat
  BY DEF SearchBusy, SearchGoes, SearchOK
<1>9. origin # Null
  BY <1>2 DEF RecordType, Null
<1>10. SearchedOK'
  <2>1. \A d \in Classes : RecordType(d) \in unseen \/ RecordType(d) = origin \/ \A j \in DOMAIN Definition(d)' : Leaves(d, j)'
    BY <1>2, <1>7, <1>8 DEF SearchedOK
  <2>2. \A j \in DOMAIN Definition(c)' : j < at + 1 => Leaves(c, j)'
    <3> SUFFICES ASSUME NEW j \in DOMAIN Definition(c), j < at + 1 PROVE Leaves(c, j)
      BY <1>7
    <3>1. j \in Nat
      <4>1. DOMAIN Definition(c) = 1..Len(Definition(c)) /\ Len(Definition(c)) \in Nat
        BY <1>2, <1>8, OriginKnown DEF SearchBusy
      <4> QED BY <4>1
    <3>2. j = k \/ j < at
      BY <1>0, <1>8, <3>1
    <3> QED BY <1>0, <1>2, <1>5, <1>8, <1>9, <3>2 DEF SearchedOK
  <2>3. /\ origin = RecordType(origin[2])
        /\ \A type \in unseen : type[1] = "record" => type = RecordType(type[2])
    BY <1>8, <1>9 DEF SearchedOK
  <2> QED BY <1>0, <1>1, <1>7, <1>9, <2>1, <2>2, <2>3 DEF SearchedOK
<1>11. OnTheWay'
  BY <1>1 DEF OnTheWay
<1> QED BY <1>1, <1>10, <1>11, SearchContinues

\* A member is there only when the classes are complete, and the way begins at it.
LEMMA MemberGoesOn == ASSUME SearchBusy, CheckMember PROVE SearchGoes'
<1>0. PICK c, k : c = origin[2] /\ k = at
  OBVIOUS
<1>1. /\ at <= GetMemberNum /\ target' = GetMembers(origin)[at] /\ depth' = 1
      /\ Continue /\ UNCHANGED <<members_, unseen, origin, at>>
  BY DEF CheckMember
<1>2. SearchedOK /\ at \in Nat \ {0}
  BY DEF SearchBusy, SearchGoes, SearchOK
<1>3. origin # Null /\ c \in DOMAIN members_
  <2>1. GetMemberNum # 0
    BY <1>1, <1>2
  <2>2. origin # Null /\ Len(GetMembers(origin)) # 0
    BY <2>1 DEF GetMemberNum
  <2>3. GetMembers(origin) # <<>>
    BY <2>2, EmptyList
  <2> QED BY <1>0, <2>2, <2>3 DEF GetMembers
<1>4. Completed /\ c \in Classes /\ origin = RecordType(c)
  BY <1>0, <1>2, <1>3 DEF SearchBusy, SearchGoes, CompleteOK, SearchedOK
<1>5. /\ DOMAIN Definition(c) = 1..Len(Definition(c)) /\ Len(Definition(c)) \in Nat
      /\ GetMembers(origin) = Definition(c) /\ GetMemberNum = Len(Definition(c))
  BY <1>2, <1>4, OriginKnown DEF SearchBusy
<1>6. k \in DOMAIN Definition(c) /\ target' = Definition(c)[k]
  BY <1>0, <1>1, <1>2, <1>5
<1>7. Way(c, k)[0] = {Definition(c)[k]} /\ Definition(c)[k] \in Parts(c)[0]
  BY <1>4, <1>6, WayBegins
<1>8. Misses(c, Way(c, k), 0)
  <2>1. 0..0 - 1 = {}
    OBVIOUS
  <2> QED BY <2>1 DEF Misses
<1>9. UNCHANGED <<decls_, types_, answers>>
  BY <1>1 DEF Continue
<1>10. /\ Classes' = Classes /\ Definition(c)' = Definition(c) /\ Way(c, k)' = Way(c, k) /\ Parts(c)' = Parts(c)
       /\ (Completed' <=> Completed)
  <2>1. Completed' <=> Completed
    BY <1>9 DEF Completed, Answered
  <2> QED BY <1>9, <2>1, WaysKept
<1>11. OnTheWay'
  <2>1. depth' - 1 = 0
    BY <1>1
  <2> QED BY <1>0, <1>1, <1>3, <1>4, <1>6, <1>7, <1>8, <1>10, <2>1 DEF OnTheWay
<1>12. SearchedOK'
  <2>1. SearchedOK /\ depth' = 1 /\ origin # Null
    BY <1>1, <1>2, <1>3
  <2> QED BY <1>1, <1>9, <2>1, SearchedKept
<1> QED BY <1>1, <1>11, <1>12, SearchContinues

\* All classes that the search has come to are done with.
LEMMA AllBehind ==
  ASSUME SearchBusy, at > GetMemberNum, Completed, NEW c \in Classes
  PROVE  RecordType(c) \in unseen \/ \A k \in DOMAIN Definition(c) : Leaves(c, k)
<1>1. SearchedOK
  BY DEF SearchBusy, SearchGoes
<1>2. RecordType(c) = origin => \A k \in DOMAIN Definition(c) : Leaves(c, k)
  BY <1>1, Finished DEF SearchBusy
<1> QED BY <1>1, <1>2 DEF SearchedOK

\* The next class, or an alias.
LEMMA NextGoesOn == ASSUME SearchBusy, NextType PROVE SearchGoes'
<1>1. PICK type \in unseen :
        /\ unseen' = unseen \ {type}
        /\ origin' = (IF type[1] = "record" THEN type ELSE Null) /\ at' = 1
  BY DEF NextType
<1>2. depth = 0 /\ depth' = 0 /\ at > GetMemberNum /\ Continue /\ members_' = members_
  BY DEF NextType, Searching
<1>3. SearchedOK
  BY DEF SearchBusy, SearchGoes
<1>4. UNCHANGED <<decls_, types_, answers>>
  BY <1>2 DEF Continue
<1>5. /\ Classes' = Classes /\ (Completed' <=> Completed)
      /\ \A d : Definition(d)' = Definition(d) /\ \A j : Leaves(d, j)' <=> Leaves(d, j)
  BY <1>4, WaysKept DEF Completed, Answered
<1>6. type[1] = "record" => type = RecordType(type[2])
  BY <1>3 DEF SearchedOK
<1>7. origin' = Null \/ origin' = RecordType(origin'[2])
  BY <1>1, <1>6
<1>8. ASSUME Completed, NEW c \in Classes
      PROVE  RecordType(c) \in unseen' \/ RecordType(c) = origin' \/ \A j \in DOMAIN Definition(c) : Leaves(c, j)
  <2>1. RecordType(c) = type => type[1] = "record"
    BY DEF RecordType
  <2> QED BY <1>1, <1>2, <1>8, <2>1, AllBehind
<1>9. PICK o : o = origin'[2]
  OBVIOUS
<1>10. ASSUME Completed, o \in Classes PROVE \A j \in DOMAIN Definition(o) : ~(j < 1)
  <2>1. DOMAIN Definition(o) = 1..Len(Definition(o)) /\ Len(Definition(o)) \in Nat
    BY <1>3, <1>10, OriginKnown DEF SearchBusy
  <2> QED BY <2>1
<1>11. SearchedOK'
  <2>1. \A t \in unseen' : t[1] = "record" => t = RecordType(t[2])
    BY <1>1, <1>3 DEF SearchedOK
  <2>2. Completed => \A j \in DOMAIN Definition(o)' : o \in Classes /\ j < at' => Leaves(o, j)'
    BY <1>1, <1>5, <1>10
  <2>3. Completed => \A c \in Classes : RecordType(c) \in unseen' \/ RecordType(c) = origin' \/ \A j \in DOMAIN Definition(c)' : Leaves(c, j)'
    BY <1>5, <1>8
  <2> QED BY <1>1, <1>2, <1>5, <1>7, <1>9, <2>1, <2>2, <2>3 DEF SearchedOK
<1>12. OnTheWay'
  BY <1>2 DEF OnTheWay
<1> QED BY <1>2, <1>11, <1>12, SearchContinues

\* The end of the table, behind all classes.
LEMMA LastGoesOn == ASSUME SearchBusy, NextBehindLast PROVE SearchGoes'
<1>1. depth = 0 /\ at > GetMemberNum /\ unseen = {} /\ Answer(status, "stopped", "crash") /\ UNCHANGED <<origin, at, depth>>
  BY DEF NextBehindLast, Searching, Crash, typeVars
<1>2. Completed => \A c \in Classes : \A k \in DOMAIN Definition(c) : Leaves(c, k)
  BY <1>1, AllBehind
<1>3. answers'["recursion"] = "crash" /\ (Completed' <=> Completed) /\ UNCHANGED <<decls_, types_>>
  BY <1>1, SearchEnds
<1>4. Classes' = Classes /\ \A d : Definition(d)' = Definition(d) /\ \A j : Leaves(d, j)' <=> Leaves(d, j)
  BY <1>3, WaysKept
<1>5. RecursionExact'
  BY <1>1, <1>2, <1>3, <1>4 DEF RecursionExact
<1> QED BY <1>1, <1>5, SearchEnds

\* The search begins before the first type.
LEMMA SearchStarts ==
  ASSUME UnitOK, AnswersOK, CompleteOK, SearchGoes, CheckSemanticError PROVE SearchGoes'
<1>1. /\ status = "idle" /\ "recursion" \notin DOMAIN answers /\ status' = "recursion"
      /\ UNCHANGED <<decls_, types_, answers, members_, origin, at, target, depth>>
      /\ unseen' = {<<types_[name][1], name>> : name \in DOMAIN types_}
  BY DEF CheckSemanticError, Begin
<1>2. origin = Null /\ at = 1 /\ depth = 0 /\ EndsOK
  BY <1>1 DEF SearchGoes
<1>3. /\ Classes' = Classes /\ (Completed' <=> Completed)
  BY <1>1 DEF Classes, Completed, Answered
<1>4. Completed \/ DOMAIN members_ = {}
  <2>1. CASE "complete" \notin DOMAIN answers
    BY <1>1, <2>1 DEF CompleteOK
  <2>2. CASE "complete" \in DOMAIN answers
    <3>1. decls_ # NoDeclarations
      BY <1>1, <2>2 DEF AnswersOK
    <3>2. answers["complete"] = "true"
      BY <1>1, <1>2, <2>2 DEF EndsOK
    <3> QED BY <2>2, <3>1, <3>2 DEF Completed, Answered
  <2> QED BY <2>1, <2>2
<1>5. EndsOK'
  BY <1>1, <1>2 DEF EndsOK
<1>6. \A type \in unseen' : type[1] = "record" => type = RecordType(type[2])
  <2> SUFFICES ASSUME NEW name \in DOMAIN types_, NEW type, type = <<types_[name][1], name>>, type[1] = "record"
               PROVE  type = RecordType(type[2])
    BY <1>1
  <2>1. type[1] = types_[name][1] /\ type[2] = name
    OBVIOUS
  <2> QED BY <2>1 DEF RecordType
<1>7. \A c \in Classes : RecordType(c) \in unseen'
  <2> SUFFICES ASSUME NEW c \in Classes PROVE RecordType(c) = <<types_[c][1], c>> /\ c \in DOMAIN types_
    BY <1>1
  <2>1. c \in DOMAIN types_ /\ types_[c] = <<"record">>
    BY DEF Classes
  <2>2. types_[c][1] = "record"
    BY <2>1
  <2> QED BY <2>1, <2>2 DEF RecordType
<1>8. SearchedOK'
  BY <1>1, <1>2, <1>3, <1>6, <1>7 DEF SearchedOK
<1>9. OnTheWay'
  BY <1>1, <1>2 DEF OnTheWay
<1>10. RecursionExact'
  BY <1>1 DEF RecursionExact
<1> QED BY <1>1, <1>3, <1>4, <1>5, <1>8, <1>9, <1>10 DEF SearchGoes

\* What ends the process is the last answer.
LEMMA EndsKept ==
  ASSUME IInv, AnswersOK, EndsOK, [Next]_vars, status # "recursion" PROVE EndsOK'
<1>1. CASE status = "stopped"
  BY <1>1, StoppedStays DEF vars, EndsOK
<1>2. CASE status # "stopped" /\ answers' = answers
  BY <1>2 DEF EndsOK
<1>3. ASSUME status # "stopped", NEW phase \in Phases, NEW next, NEW how, phase \notin DOMAIN answers, Answer(phase, next, how),
             phase # "recursion", next = "stopped" \/ how = "true" \/ (phase # "complete" /\ how = "false")
      PROVE  EndsOK'
  <2>1. /\ DOMAIN answers' = DOMAIN answers \cup {phase} /\ answers'[phase] = how /\ status' = next
        /\ \A p \in DOMAIN answers : answers'[p] = answers[p]
    BY <1>3, AnswerIs
  <2> QED BY <1>3, <2>1 DEF EndsOK
<1>4. CASE status # "stopped" /\ Working(Phases) /\ ~Continue
  <2>1. status \in Phases /\ status \notin DOMAIN answers
    BY <1>4 DEF Working, AnswersOK
  <2>2. Answer(status, "idle", "true") \/ Answer(status, "stopped", "assert") \/ Answer(status, "stopped", "crash")
    BY <1>4 DEF Working, Return, Refuse, Crash
  <2> QED BY <1>3, <1>4, <2>1, <2>2
<1>5. CASE status # "stopped" /\ NoDecls
  <2>1. status = "idle" /\ decls_ = NoDeclarations
    BY <1>5 DEF NoDecls
  <2>2. CASE "print" \notin DOMAIN answers /\ Answer("print", "idle", "false")
    BY <1>3, <1>5, <2>2 DEF Phases
  <2>3. ASSUME NEW phase \in Phases \ {"recursion", "print"}, Answer(phase, "stopped", "crash") PROVE EndsOK'
    <3>1. phase \notin DOMAIN answers
      BY <2>1, <2>3 DEF AnswersOK
    <3> QED BY <1>3, <1>5, <2>3, <3>1
  <2> QED BY <1>5, <2>2, <2>3 DEF NoDecls
<1> QED BY <1>1, <1>2, <1>4, <1>5, Kinds DEF Begin, Continue

\* What is known of it is kept where nothing happens to it.
LEMMA SearchStays == ASSUME SearchGoes, UNCHANGED vars PROVE SearchGoes'
<1>1. UNCHANGED <<decls_, types_, status, answers, members_, unseen, origin, at, target, depth>>
  BY DEF vars, typeVars
<1>2. PICK c, k : c = origin[2] /\ k = at
  OBVIOUS
<1>3. /\ Classes' = Classes /\ (Completed' <=> Completed) /\ Definition(c)' = Definition(c) /\ Parts(c)' = Parts(c)
      /\ Way(c, k)' = Way(c, k) /\ (Returns(c, k)' <=> Returns(c, k)) /\ (Circles(c, k)' <=> Circles(c, k))
      /\ (Recursive(c)' <=> Recursive(c))
      /\ \A d : Definition(d)' = Definition(d) /\ \A j : Leaves(d, j)' <=> Leaves(d, j)
  <2>1. Completed' <=> Completed
    BY <1>1 DEF Completed, Answered
  <2> QED BY <1>1, <2>1, WaysKept
<1>4. EndsOK'
  BY <1>1 DEF SearchGoes, EndsOK
<1>5. status = "recursion" => SearchedOK'
  <2> SUFFICES ASSUME status = "recursion" PROVE SearchedOK'
    OBVIOUS
  <2>1. SearchedOK
    BY DEF SearchGoes
  <2> QED BY <1>1, <1>2, <1>3, <2>1 DEF SearchedOK
<1>6. status = "recursion" => OnTheWay'
  <2> SUFFICES ASSUME status = "recursion" PROVE OnTheWay'
    OBVIOUS
  <2>1. OnTheWay
    BY DEF SearchGoes
  <2> QED BY <1>1, <1>2, <1>3, <2>1 DEF OnTheWay
<1>7. RecursionExact'
  <2>1. RecursionExact
    BY DEF SearchGoes
  <2> QED BY <1>1, <1>2, <1>3, <2>1 DEF RecursionExact
<1> QED BY <1>1, <1>3, <1>4, <1>5, <1>6, <1>7 DEF SearchGoes

\* In every step of every phase.
LEMMA SearchGoesOn ==
  ASSUME IInv, UnitOK, AnswersOK, SearchOK, CompleteOK, SearchGoes, [Next]_vars PROVE SearchGoes'
<1>1. CASE UNCHANGED vars
  BY <1>1, SearchStays
<1>2. CASE status = "recursion" /\ SearchSteps
  <2>1. SearchBusy
    BY <1>2 DEF SearchBusy
  <2> QED
    BY <1>2, <2>1, NextGoesOn, LastGoesOn, MemberGoesOn, FoundGoesOn, DeeperGoesOn, OverflowGoesOn, NotFoundGoesOn DEF SearchSteps
<1>3. CASE CheckSemanticError
  BY <1>3, SearchStarts
<1>4. CASE status \notin {"recursion", "stopped"} /\ ~CheckSemanticError
  <2>1. /\ status' # "recursion" /\ "recursion" \notin DOMAIN answers'
        /\ UNCHANGED <<unseen, origin, at, target, depth>>
    BY <1>4, SearchElsewhere DEF SearchGoes, EndsOK
  <2>2. origin = Null /\ at = 1 /\ depth = 0
    BY <1>4 DEF SearchGoes, EndsOK
  <2>3. EndsOK'
    BY <1>4, EndsKept DEF SearchGoes
  <2>4. RecursionExact'
    BY <2>1 DEF RecursionExact
  <2> QED BY <2>1, <2>2, <2>3, <2>4 DEF SearchGoes
<1> QED BY <1>1, <1>2, <1>3, <1>4, StoppedStays, SearchOnly

-----------------------------------------------------------------------------
(* All phases                                                               *)

PhasesInv ==
  /\ IInv /\ UnitOK /\ AnswersOK
  /\ SearchOK /\ RefusedOK /\ CompleteOK /\ SearchGoes
  /\ ResolveGoes /\ VerdictGoes /\ SemaGoes /\ CheckGoes /\ PrintGoes

\* Before the first phase.
LEMMA PhasesInit == Init => PhasesInv
<1> SUFFICES ASSUME Init PROVE PhasesInv
  OBVIOUS
<1>1. IInv
  BY InitOK
<1>2. /\ status = "idle" /\ answers = <<>> /\ agenda = <<>> /\ currentScope_ = 1 /\ bound = <<>>
      /\ scopes_ = <<EmptyScope(NoScope, <<>>)>> /\ members_ = <<>> /\ origin = Null /\ at = 1 /\ target = Null /\ depth = 0
  BY DEF Init, DriverInit, PassesInit, TypesInit
<1>3. DOMAIN answers = {} /\ DOMAIN bound = {} /\ DOMAIN members_ = {}
  <2>1. DOMAIN <<>> = {}
    OBVIOUS
  <2> QED BY <1>2, <2>1
<1>4. UnitOK
  BY DEF Init, DriverInit, UnitOK
<1>5. AnswersOK
  BY <1>2, <1>3 DEF AnswersOK
<1>6. SearchOK
  BY <1>2, MaxDepthAssumption DEF SearchOK
<1>7. RefusedOK
  BY <1>2, <1>3 DEF RefusedOK
<1>8. CompleteOK
  BY <1>2, <1>3 DEF CompleteOK, Answered
<1>9. ResolveGoes
  <2> DEFINE top == EmptyScope(NoScope, <<>>)
  <2> HIDE DEF top
  <2>1. Len(<<top>>) = 1 /\ <<top>>[1] = top
    OBVIOUS
  <2>2. Untouched
    BY <1>2, <2>1 DEF Untouched, top
  <2> QED BY <1>2, <1>3, <2>2 DEF ResolveGoes, BoundOK, BindsInnermost
<1>10. SemaGoes /\ CheckGoes /\ PrintGoes
  BY <1>2, <1>3 DEF SemaGoes, CheckGoes, PrintGoes, Answered
<1>11. VerdictGoes
  BY <1>2, <1>3 DEF VerdictGoes, ResolveExact, Answered
<1>12. SearchGoes
  BY <1>2, <1>3 DEF SearchGoes, EndsOK, RecursionExact
<1> QED BY <1>1, <1>4, <1>5, <1>6, <1>7, <1>8, <1>9, <1>10, <1>11, <1>12 DEF PhasesInv

\* In every step of every phase.
LEMMA PhasesKept == ASSUME PhasesInv, [Next]_vars PROVE PhasesInv'
<1> USE DEF PhasesInv
<1>1. IInv'
  BY StepOK
<1>2. UnitOK' /\ AnswersOK'
  BY ControlOK
<1>3. SearchOK' /\ RefusedOK' /\ CompleteOK'
  BY SearchKept, RefusedKept, CompleteKept
<1>4. status \in {"sema", "check", "print"} => AllVisits(agenda)
  BY DEF SemaGoes, CheckGoes, PrintGoes, Covered
<1>5. ResolveGoes'
  BY <1>4, ResolveKept
<1>6. SemaGoes' /\ CheckGoes' /\ PrintGoes'
  BY SemaKept, CheckKept, PrintKept
<1>7. VerdictGoes'
  BY VerdictGoesOn
<1>8. SearchGoes'
  BY SearchGoesOn
<1> QED BY <1>1, <1>2, <1>3, <1>5, <1>6, <1>7, <1>8

\* What is known of the state of the phases.
LEMMA TypesImplied == PhasesInv => TypeOK
<1> SUFFICES ASSUME PhasesInv PROVE TypeOK
  OBVIOUS
<1> USE DEF PhasesInv
<1>1. status \in Phases \cup {"idle", "stopped"} /\ DOMAIN answers \subseteq Phases /\ status \notin DOMAIN answers
  BY DEF AnswersOK
<1>2. status \notin DOMAIN Overridden \cup {"print"} => agenda = <<>>
  <2>1. DOMAIN Overridden = {"resolve", "sema", "check"}
    BY DEF Overridden
  <2> QED BY <2>1 DEF IInv, Busy
<1>3. currentScope_ \in DOMAIN scopes_ /\ \A s \in DOMAIN scopes_ : scopes_[s].parent \in 0..s - 1
  <2>1. DOMAIN scopes_ = 1..Len(scopes_)
    BY ListProperties DEF IInv, ScopeTree
  <2> QED BY <2>1 DEF IInv, ScopeTree
<1>4. \A p \in DOMAIN bound : NodeAt(p)[1] = "Variable" /\ NodeAt(bound[p])[1] \in DeclClasses
  BY DEF ResolveGoes, BoundOK
<1>5. \A name \in DOMAIN members_ : types_[name] = <<"record">>
  BY DEF CompleteOK, Classes
<1>6. depth \in 0..MaxDepth /\ (depth = 0 => target = Null)
  BY DEF SearchOK
<1> QED BY <1>1, <1>2, <1>3, <1>4, <1>5, <1>6 DEF TypeOK

-----------------------------------------------------------------------------
(* Theorems                                                                 *)

\* All that is known of the phases holds as long as they run.
THEOREM PhasesSound == Spec => []PhasesInv
<1> QED
  BY PhasesInit, PhasesKept, PTL DEF Spec

\* Whatever trees the parser leaves and in whatever order the phases are called,
\* the scopes still to be left by LocalVarResolver (LocalVarResolver.cpp:64-110)
\* are the current one and those around it, and a phase begins and ends in
\* topScope_.
THEOREM ScopesSound == Spec => []ScopesNest
<1>1. Init => IInv
  BY InitOK
<1>2. IInv /\ [Next]_vars => IInv'
  BY StepOK
<1>3. IInv => ScopesNest
  BY Implied
<1> QED
  BY <1>1, <1>2, <1>3, PTL DEF Spec

\* Whatever trees the parser leaves and in whatever order the phases are called,
\* the state of the phases fits together: between two passes nothing is left of
\* the last one, scopes hang below earlier ones (Scope::AddChild), only
\* VariableNodes are bound, to declarations, and only classes are completed.
THEOREM TypeCorrect == Spec => []TypeOK
<1> QED
  BY PhasesSound, TypesImplied, PTL

\* A name is bound to the innermost declaration around it that Scope::FindDecl may
\* find (Scope.cpp), the name of a call to the innermost function: for every tree,
\* also where a scope has been left and its declarations are still there.
THEOREM BindingSound == Spec => []BindsInnermost
<1>1. PhasesInv => BindsInnermost
  BY DEF PhasesInv, ResolveGoes
<1> QED
  BY <1>1, PhasesSound, PTL

\* LocalVarResolver answers true just when, in what it visits, no scope declares a name
\* twice and every name has a declaration it may mean, and then it has bound every one
\* of these.  It visits the first variable, constant and function of the lists only.
THEOREM ResolveSound == Spec => []ResolveExact
<1>1. PhasesInv => ResolveExact
  BY DEF PhasesInv, VerdictGoes
<1> QED
  BY <1>1, PhasesSound, PTL

\* Sema answers true just when no assignment, call or array in the program is wrong
\* by what the names are bound to when it is called, before or after the resolver.
THEOREM SemaSound == Spec => []SemaExact
<1>1. PhasesInv => SemaExact
  BY SemaImplied DEF PhasesInv
<1> QED
  BY <1>1, PhasesSound, PTL

\* TypeChecker answers true just when no global variable, parameter or local is of type
\* void or an array of it and no parameter is `...`.  The parameter may be the one the
\* parser makes of `(void)`: a legal program without parameters is refused too.
THEOREM CheckSound == Spec => []CheckExact
<1>1. PhasesInv => CheckExact
  BY CheckImplied DEF PhasesInv
<1> QED
  BY <1>1, PhasesSound, PTL

\* The printer gets through a program just when there is no function in it.
THEOREM PrintSound == Spec => []PrintExact
<1>1. PhasesInv => PrintExact
  BY PrintImplied DEF PhasesInv
<1> QED
  BY <1>1, PhasesSound, PTL

\* TypeResolver gives every class the members of the definition that comes first in
\* the list of records, the last one in the source, or ends at a function: one outside
\* of classes, or in a definition that it does not pass over.
THEOREM CompleteSound == Spec => []CompleteExact
<1>1. PhasesInv => CompleteExact
  BY CompleteImplied DEF PhasesInv
<1> QED
  BY <1>1, PhasesSound, PTL

\* Once TypeResolver has been called, TypeTable::CheckSemanticError reports only a
\* class that is part of itself and that it comes back to by way of first members; it
\* runs out of stack only on a way that goes in a circle beside the class it started
\* from, and it comes to the end of the table only behind classes all ways from which
\* have an end (TypeTable.cpp).
THEOREM RecursionSound == Spec => []RecursionExact
<1>1. PhasesInv => RecursionExact
  BY DEF PhasesInv, SearchGoes
<1> QED
  BY <1>1, PhasesSound, PTL

=============================================================================
