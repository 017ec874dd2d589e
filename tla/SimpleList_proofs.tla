------------------------- MODULE SimpleList_proofs -------------------------
(***************************************************************************)
(* SimpleList keeps its links and implements AbstractList, for every set   *)
(* of values and any number of elements.                                   *)
(***************************************************************************)
EXTENDS SimpleList, WellFoundedInduction, TLAPS

-----------------------------------------------------------------------------
(* Least numbers                                                            *)

\* A set of numbers has a least one.
LEMMA Least ==
  ASSUME NEW S \in SUBSET Nat, S # {}
  PROVE  \E x \in S : \A y \in S : x <= y
<1> DEFINE R == OpToRel(<, Nat)
<1>1. \A x, y \in Nat : y < x => <<y, x>> \in R
  BY DEF OpToRel
<1> HIDE DEF R
<1>2. IsWellFoundedOn(R, Nat)
  BY NatLessThanWellFounded DEF R
<1>3. PICK x \in S : \A y \in S : ~(<<y, x>> \in R)
  BY <1>2, WFMin
<1>4. ASSUME NEW y \in S PROVE x <= y
  <2>1. x \in Nat /\ y \in Nat /\ ~(y < x)
    BY <1>1, <1>3
  <2> QED BY <2>1
<1> QED BY <1>4

-----------------------------------------------------------------------------
(* Following next_                                                          *)

\* The elements one comes to in mem from f, as At has them.
Walk(n, mem, f) == CHOOSE g : g = [k \in 0..n |-> IF k = 0 THEN f ELSE mem[g[k - 1]].next_]

\* At follows the links, before a step and after it.
LEMMA AtWalk == Nth = Walk(count_, elems, first_) /\ Nth' = Walk(count_', elems', first_')
BY DEF Nth, Walk

\* There is one way to follow the links.
LEMMA WalkIs ==
  ASSUME NEW n \in Nat, NEW mem, NEW f, NEW h,
         h = [k \in 0..n |-> IF k = 0 THEN f ELSE mem[h[k - 1]].next_]
  PROVE  Walk(n, mem, f) = h
<1> DEFINE g == Walk(n, mem, f)
           S == {k \in 0..n : g[k] # h[k]}
<1>1. g = [k \in 0..n |-> IF k = 0 THEN f ELSE mem[g[k - 1]].next_]
  BY Zenon DEF Walk
<1> HIDE DEF g
<1>2. S = {}
  <2> SUFFICES ASSUME S # {} PROVE FALSE
    OBVIOUS
  <2>1. S \in SUBSET Nat
    OBVIOUS
  <2> HIDE DEF S
  <2>2. PICK x \in S : \A y \in S : x <= y
    BY <2>1, Least
  <2>3. x \in 0..n /\ x \in Nat /\ g[x] # h[x] /\ \A y \in 0..n : g[y] # h[y] => x <= y
    BY <2>2 DEF S
  <2>4. CASE x = 0
    BY <1>1, <2>3, <2>4
  <2>5. CASE x # 0
    <3>1. x - 1 \in 0..n /\ g[x - 1] = h[x - 1]
      BY <2>3, <2>5
    <3>2. g[x] = mem[g[x - 1]].next_ /\ h[x] = mem[h[x - 1]].next_
      BY <1>1, <2>3, <2>5, <3>1
    <3> QED BY <2>3, <3>1, <3>2
  <2> QED BY <2>4, <2>5
<1>3. \A k \in 0..n : g[k] = h[k]
  BY <1>2
<1>4. g = [k \in 0..n |-> g[k]] /\ h = [k \in 0..n |-> h[k]]
  BY <1>1, Zenon
<1>5. g = h
  BY <1>3, <1>4
<1> QED BY <1>5 DEF g

-----------------------------------------------------------------------------
(* The memory and the chain in it                                           *)

Cells == [value : Objects, prev_ : Nat, next_ : Nat]
Memory(mem, top) ==
  /\ top \in Nat /\ DOMAIN mem \subseteq 1..top
  /\ \A a \in DOMAIN mem : mem[a] \in Cells

\* c, the n addresses in use, from f to l: next_ leads on in it and prev_ back.
Chained(c, n, mem, f, l) ==
  /\ n \in Nat
  /\ c \in [1..n -> DOMAIN mem]
  /\ \A a \in DOMAIN mem : \E j \in 1..n : c[j] = a
  /\ \A i, j \in 1..n : c[i] = c[j] => i = j
  /\ f = (IF n = 0 THEN Null ELSE c[1]) /\ l = (IF n = 0 THEN Null ELSE c[n])
  /\ \A j \in 1..n : /\ mem[c[j]].next_ = IF j = n THEN Null ELSE c[j + 1]
                     /\ mem[c[j]].prev_ = IF j = 1 THEN Null ELSE c[j - 1]

\* No address is null, and every element is in its place.
LEMMA ChainType ==
  ASSUME NEW mem, NEW top, Memory(mem, top), NEW c, NEW n, NEW f, NEW l, Chained(c, n, mem, f, l)
  PROVE  /\ Null \notin DOMAIN mem /\ n \in Nat
         /\ \A j \in 1..n : c[j] \in DOMAIN mem /\ c[j] # Null /\ c[j] \in 1..top
         /\ \A a \in DOMAIN mem : mem[a] \in Cells
         /\ f = Null <=> n = 0
         /\ l = Null <=> n = 0
<1>1. Null \notin DOMAIN mem
  BY DEF Memory, Null
<1>2. \A j \in 1..n : c[j] \in DOMAIN mem /\ c[j] # Null /\ c[j] \in 1..top
  BY <1>1 DEF Chained, Memory
<1>3. \A a \in DOMAIN mem : mem[a] \in Cells
  BY DEF Memory
<1>4. n \in Nat /\ (n # 0 => 1 \in 1..n /\ n \in 1..n)
  BY DEF Chained
<1> QED BY <1>1, <1>2, <1>3, <1>4 DEF Chained

\* At leads through the chain and to null behind it.
LEMMA ChainWalk ==
  ASSUME NEW mem, NEW top, Memory(mem, top), NEW c, NEW n, NEW f, NEW l, Chained(c, n, mem, f, l)
  PROVE  Walk(n, mem, f) = [k \in 0..n |-> IF k = n THEN Null ELSE c[k + 1]]
<1> DEFINE h == [k \in 0..n |-> IF k = n THEN Null ELSE c[k + 1]]
<1>1. n \in Nat
  BY DEF Chained
<1>2. ASSUME NEW k \in 0..n PROVE h[k] = IF k = 0 THEN f ELSE mem[h[k - 1]].next_
  <2>1. CASE k = 0
    BY <1>1, <2>1 DEF Chained
  <2>2. CASE k # 0
    <3>1. k \in 1..n /\ k - 1 \in 0..n /\ k - 1 # n /\ (k - 1) + 1 = k
      BY <1>1, <2>2
    <3>2. h[k - 1] = c[k]
      BY <3>1
    <3>3. mem[c[k]].next_ = IF k = n THEN Null ELSE c[k + 1]
      BY <3>1 DEF Chained
    <3> QED BY <2>2, <3>2, <3>3
  <2> QED BY <2>1, <2>2
<1>3. h = [k \in 0..n |-> h[k]]
  BY Zenon
<1> HIDE DEF h
<1>4. h = [k \in 0..n |-> IF k = 0 THEN f ELSE mem[h[k - 1]].next_]
  BY <1>2, <1>3
<1>5. Walk(n, mem, f) = h
  BY <1>1, <1>4, WalkIs
<1> QED BY <1>5 DEF h

-----------------------------------------------------------------------------
(* What the memory is to a caller                                           *)

ContentsOf(n, mem, f) == [k \in 1..n |-> mem[Walk(n, mem, f)[k - 1]].value]
PlaceOf(n, mem, f, cur) ==
  IF cur = Null THEN 0 ELSE IF cur \in DOMAIN mem THEN 1 + CHOOSE k \in 0..n - 1 : Walk(n, mem, f)[k] = cur ELSE -1

\* Contents and Place are these of the variables, before a step and after it.
LEMMA Views ==
  /\ ListContents = ContentsOf(count_, elems, first_) /\ ListContents' = ContentsOf(count_', elems', first_')
  /\ Place = PlaceOf(count_, elems, first_, cur_) /\ Place' = PlaceOf(count_', elems', first_', cur_')
BY AtWalk DEF ListContents, ContentsOf, Place, PlaceOf

\* The contents are the values along the chain, the place of an element is its index.
LEMMA ChainView ==
  ASSUME NEW mem, NEW top, Memory(mem, top), NEW c, NEW n, NEW f, NEW l, Chained(c, n, mem, f, l), NEW cur
  PROVE  /\ ContentsOf(n, mem, f) \in Seq(Objects) /\ Len(ContentsOf(n, mem, f)) = n
         /\ \A j \in 1..n : ContentsOf(n, mem, f)[j] = mem[c[j]].value
         /\ \A j \in 1..n : cur = c[j] => PlaceOf(n, mem, f, cur) = j
         /\ cur = Null => PlaceOf(n, mem, f, cur) = 0
         /\ cur # Null /\ cur \notin DOMAIN mem => PlaceOf(n, mem, f, cur) = -1
<1> DEFINE w == Walk(n, mem, f)
           s == ContentsOf(n, mem, f)
<1>1. w = [k \in 0..n |-> IF k = n THEN Null ELSE c[k + 1]] /\ n \in Nat
  BY ChainWalk, ChainType
<1>2. s = [k \in 1..n |-> mem[w[k - 1]].value]
  BY DEF ContentsOf
<1> HIDE DEF w, s
<1>3. \A k \in 0..n - 1 : w[k] = c[k + 1]
  BY <1>1
<1>4. \A j \in 1..n : s[j] = mem[c[j]].value
  <2> TAKE j \in 1..n
  <2>1. j - 1 \in 0..n - 1 /\ (j - 1) + 1 = j
    BY <1>1
  <2>2. w[j - 1] = c[j]
    BY <1>3, <2>1
  <2> QED BY <1>2, <2>2
<1>5. \A j \in 1..n : s[j] \in Objects
  BY <1>4, ChainType DEF Cells
<1>6. s \in Seq(Objects) /\ Len(s) = n
  BY <1>1, <1>2, <1>5
<1>7. ASSUME NEW j \in 1..n, cur = c[j] PROVE PlaceOf(n, mem, f, cur) = j
  <2>1. cur # Null /\ cur \in DOMAIN mem
    BY <1>7, ChainType
  <2>2. j - 1 \in 0..n - 1 /\ w[j - 1] = cur
    <3>1. j - 1 \in 0..n - 1 /\ (j - 1) + 1 = j
      BY <1>1
    <3> QED BY <1>3, <1>7, <3>1
  <2>3. ASSUME NEW k \in 0..n - 1, w[k] = cur PROVE k = j - 1
    <3>1. k + 1 \in 1..n /\ c[k + 1] = c[j]
      BY <1>1, <1>3, <1>7, <2>3
    <3>2. k + 1 = j
      BY <3>1 DEF Chained
    <3> QED BY <1>1, <3>2
  <2> DEFINE at == CHOOSE k \in 0..n - 1 : w[k] = cur
  <2>4. PlaceOf(n, mem, f, cur) = 1 + at
    BY <2>1 DEF PlaceOf, w
  <2>5. at \in 0..n - 1 /\ w[at] = cur
    BY <2>2, Zenon
  <2> HIDE DEF at
  <2>6. at = j - 1
    BY <2>3, <2>5
  <2> QED BY <1>1, <2>4, <2>6
<1> QED BY <1>4, <1>6, <1>7 DEF s, PlaceOf

-----------------------------------------------------------------------------
(* Writing to the memory                                                    *)

\* One field of an element is written.
NextSet(new, mem, e, x) ==
  /\ DOMAIN new = DOMAIN mem
  /\ \A a \in DOMAIN mem : /\ new[a].value = mem[a].value /\ new[a].prev_ = mem[a].prev_
                           /\ new[a].next_ = IF a = e THEN x ELSE mem[a].next_

\* EXCEPT writes one next_, and the memory stays one.
LEMMA NextWritten ==
  ASSUME NEW mem, NEW top, Memory(mem, top), NEW e \in DOMAIN mem, NEW x \in Nat
  PROVE  NextSet([mem EXCEPT ![e].next_ = x], mem, e, x) /\ Memory([mem EXCEPT ![e].next_ = x], top)
<1> DEFINE new == [mem EXCEPT ![e].next_ = x]
<1>1. \A a \in DOMAIN mem : mem[a] \in [value : Objects, prev_ : Nat, next_ : Nat]
  BY DEF Memory, Cells
<1>2. DOMAIN new = DOMAIN mem /\ \A a \in DOMAIN mem : new[a] = IF a = e THEN [mem[e] EXCEPT !.next_ = x] ELSE mem[a]
  OBVIOUS
<1> HIDE DEF new
<1>3. \A a \in DOMAIN mem : new[a] \in [value : Objects, prev_ : Nat, next_ : Nat]
  BY <1>1, <1>2
<1>4. Memory(new, top)
  BY <1>2, <1>3 DEF Memory, Cells
<1>5. NextSet(new, mem, e, x)
  BY <1>1, <1>2 DEF NextSet
<1> QED BY <1>4, <1>5 DEF new

PrevSet(new, mem, e, x) ==
  /\ DOMAIN new = DOMAIN mem
  /\ \A a \in DOMAIN mem : /\ new[a].value = mem[a].value /\ new[a].next_ = mem[a].next_
                           /\ new[a].prev_ = IF a = e THEN x ELSE mem[a].prev_

\* EXCEPT writes one prev_, and the memory stays one.
LEMMA PrevWritten ==
  ASSUME NEW mem, NEW top, Memory(mem, top), NEW e \in DOMAIN mem, NEW x \in Nat
  PROVE  PrevSet([mem EXCEPT ![e].prev_ = x], mem, e, x) /\ Memory([mem EXCEPT ![e].prev_ = x], top)
<1> DEFINE new == [mem EXCEPT ![e].prev_ = x]
<1>1. \A a \in DOMAIN mem : mem[a] \in [value : Objects, prev_ : Nat, next_ : Nat]
  BY DEF Memory, Cells
<1>2. DOMAIN new = DOMAIN mem /\ \A a \in DOMAIN mem : new[a] = IF a = e THEN [mem[e] EXCEPT !.prev_ = x] ELSE mem[a]
  OBVIOUS
<1> HIDE DEF new
<1>3. \A a \in DOMAIN mem : new[a] \in [value : Objects, prev_ : Nat, next_ : Nat]
  BY <1>1, <1>2
<1>4. Memory(new, top)
  BY <1>2, <1>3 DEF Memory, Cells
<1>5. PrevSet(new, mem, e, x)
  BY <1>1, <1>2 DEF PrevSet
<1> QED BY <1>4, <1>5 DEF new

\* A new address becomes an element.
Added(new, mem, t, x) ==
  /\ DOMAIN new = DOMAIN mem \cup {t} /\ t \notin DOMAIN mem
  /\ new[t] = x /\ \A a \in DOMAIN mem : new[a] = mem[a]

\* An address that was never in use can be allocated.
LEMMA OneMore ==
  ASSUME NEW mem, NEW top, Memory(mem, top), NEW t \in Nat, t > top, NEW x \in Cells
  PROVE  Added(Allocated(mem, t, x), mem, t, x) /\ Memory(Allocated(mem, t, x), t)
<1> DEFINE new == Allocated(mem, t, x)
<1>1. DOMAIN new = DOMAIN mem \cup {t} /\ new[t] = x
  BY DEF Allocated
<1>2. t \notin DOMAIN mem
  BY DEF Memory
<1>3. \A a \in DOMAIN mem : new[a] = mem[a]
  BY <1>2 DEF Allocated
<1> HIDE DEF new
<1>4. DOMAIN new \subseteq 1..t
  BY <1>1 DEF Memory
<1>5. \A a \in DOMAIN new : new[a] \in Cells
  BY <1>1, <1>3 DEF Memory
<1>6. Added(new, mem, t, x) /\ Memory(new, t)
  BY <1>1, <1>2, <1>3, <1>4, <1>5 DEF Memory, Added
<1> QED BY <1>6 DEF new

\* An element is none any more.
Dropped(new, mem, e) == DOMAIN new = DOMAIN mem \ {e} /\ \A a \in DOMAIN new : new[a] = mem[a]

\* What is freed leaves the rest of the memory alone.
LEMMA OneLess ==
  ASSUME NEW mem, NEW top, Memory(mem, top), NEW e
  PROVE  Dropped(Freed(mem, e), mem, e) /\ Memory(Freed(mem, e), top)
BY DEF Freed, Memory, Dropped

-----------------------------------------------------------------------------
(* Putting an element at one end                                            *)

\* How PushBack and PushFront write to the memory.
PushedBack(new, mem, f, l, t, v) ==
  \/ f # Null /\ new = Allocated([mem EXCEPT ![l].next_ = t], t, Element(v, l, Null))
  \/ f = Null /\ new = Allocated(mem, t, Element(v, Null, Null))
PushedFront(new, mem, f, t, v) ==
  \/ f # Null /\ new = Allocated([mem EXCEPT ![f].prev_ = t], t, Element(v, Null, f))
  \/ f = Null /\ new = Allocated(mem, t, Element(v, Null, Null))

\* The other end stays, unless there is nothing yet.
Stays(f, end, t) == IF f # Null THEN end ELSE t

\* d is c with t behind it, or before it.
Behind(d, c, n, new, mem, t, v) ==
  /\ \A j \in 1..n : d[j] = c[j] /\ new[c[j]].value = mem[c[j]].value
  /\ d[n + 1] = t /\ new[t].value = v
Before(d, c, n, new, mem, t, v) ==
  /\ \A j \in 1..n : d[j + 1] = c[j] /\ new[c[j]].value = mem[c[j]].value
  /\ d[1] = t /\ new[t].value = v

\* The new element at the end leads back to the old one, which leads on to it.
PutLast(new, mem, t, v, l) ==
  /\ DOMAIN new = DOMAIN mem \cup {t} /\ t \notin DOMAIN mem /\ t # Null
  /\ new[t] = Element(v, l, Null)
  /\ \A a \in DOMAIN mem : /\ new[a].value = mem[a].value /\ new[a].prev_ = mem[a].prev_
                           /\ new[a].next_ = IF a = l THEN t ELSE mem[a].next_

\* PushBack writes the element behind the last one.
LEMMA BackMemory ==
  ASSUME NEW mem, NEW top, Memory(mem, top), NEW c, NEW n, NEW f, NEW l, Chained(c, n, mem, f, l),
         NEW v \in Objects, NEW t \in Nat, t > top, NEW new, PushedBack(new, mem, f, l, t, v)
  PROVE  Memory(new, t) /\ PutLast(new, mem, t, v, l)
<1>1. t # Null /\ Null \notin DOMAIN mem
  BY ChainType DEF Memory, Null
<1>2. PICK m : /\ Memory(m, top) /\ NextSet(m, mem, l, t) /\ new = Allocated(m, t, Element(v, l, Null))
  <2>1. CASE f # Null
    <3> DEFINE m == [mem EXCEPT ![l].next_ = t]
    <3>1. l \in DOMAIN mem
      BY <2>1, ChainType DEF Chained
    <3>2. /\ Memory(m, top) /\ NextSet(m, mem, l, t)
      BY <3>1, NextWritten
    <3>3. new = Allocated(m, t, Element(v, l, Null))
      BY <2>1 DEF PushedBack
    <3> HIDE DEF m
    <3> QED BY <3>2, <3>3
  <2>2. CASE f = Null
    <3>1. l = Null /\ l \notin DOMAIN mem
      BY <1>1, <2>2, ChainType
    <3> QED BY <2>2, <3>1 DEF NextSet, PushedBack
  <2> QED BY <2>1, <2>2
<1>3. Element(v, l, Null) \in Cells
  <2>1. l \in Nat
    BY ChainType DEF Chained, Memory, Null
  <2> QED BY <2>1 DEF Element, Null, Cells
<1>4. Added(new, m, t, Element(v, l, Null)) /\ Memory(new, t)
  BY <1>2, <1>3, OneMore
<1> QED BY <1>1, <1>2, <1>4 DEF Added, NextSet, PutLast

\* The chain is one longer at its end.
LEMMA BackChain ==
  ASSUME NEW mem, NEW top, Memory(mem, top), NEW c, NEW n, NEW f, NEW l, Chained(c, n, mem, f, l),
         NEW v \in Objects, NEW t \in Nat, t > top, NEW new, PushedBack(new, mem, f, l, t, v)
  PROVE  \E d : Chained(d, n + 1, new, Stays(f, f, t), t) /\ Behind(d, c, n, new, mem, t, v)
<1> DEFINE d == [j \in 1..n + 1 |-> IF j = n + 1 THEN t ELSE c[j]]
           g == IF f # Null THEN f ELSE t
<1>1. /\ DOMAIN new = DOMAIN mem \cup {t} /\ t \notin DOMAIN mem /\ t # Null
      /\ new[t] = Element(v, l, Null)
      /\ \A a \in DOMAIN mem : /\ new[a].value = mem[a].value /\ new[a].prev_ = mem[a].prev_
                               /\ new[a].next_ = IF a = l THEN t ELSE mem[a].next_
  <2>1. PutLast(new, mem, t, v, l)
    BY BackMemory, Zenon
  <2> QED BY <2>1 DEF PutLast
<1>2. n \in Nat /\ n + 1 \in Nat /\ n + 1 # 0 /\ \A j \in 1..n : c[j] \in DOMAIN mem /\ c[j] # t
  <2>1. n \in Nat /\ \A j \in 1..n : c[j] \in DOMAIN mem
    BY ChainType
  <2> QED BY <1>1, <2>1
<1>3. /\ \A j \in 1..n : d[j] = c[j]
      /\ d[n + 1] = t
  BY <1>2
<1>4. d \in [1..n + 1 -> DOMAIN new]
  BY <1>1, <1>2
<1> HIDE DEF d
<1>5. ASSUME NEW a \in DOMAIN new PROVE \E j \in 1..n + 1 : d[j] = a
  <2>1. CASE a = t
    BY <1>2, <1>3, <2>1
  <2>2. CASE a # t
    <3>1. PICK j \in 1..n : c[j] = a
      BY <1>1, <2>2 DEF Chained
    <3> QED BY <1>2, <1>3, <3>1
  <2> QED BY <2>1, <2>2
<1>6. ASSUME NEW i \in 1..n + 1, NEW j \in 1..n + 1, d[i] = d[j] PROVE i = j
  <2>1. i \in 1..n \/ i = n + 1
    BY <1>2
  <2>2. j \in 1..n \/ j = n + 1
    BY <1>2
  <2>3. i \in 1..n /\ j \in 1..n => i = j
    BY <1>3, <1>6 DEF Chained
  <2> QED BY <1>2, <1>3, <1>6, <2>1, <2>2, <2>3
<1>7. g = d[1]
  <2>1. CASE n = 0
    BY <1>3, <2>1 DEF Chained
  <2>2. CASE n # 0
    <3>1. 1 \in 1..n
      BY <1>2, <2>2
    <3> QED BY <1>3, <2>2, <3>1, ChainType DEF Chained
  <2> QED BY <2>1, <2>2
<1>8. ASSUME NEW j \in 1..n + 1
      PROVE  /\ new[d[j]].next_ = IF j = n + 1 THEN Null ELSE d[j + 1]
             /\ new[d[j]].prev_ = IF j = 1 THEN Null ELSE d[j - 1]
  <2>1. CASE j = n + 1
    <3>1. new[d[j]].next_ = Null /\ new[d[j]].prev_ = l
      BY <1>1, <1>3, <2>1 DEF Element
    <3>2. CASE n = 0
      BY <2>1, <3>1, <3>2 DEF Chained
    <3>3. CASE n # 0
      <4>1. l = d[n] /\ j # 1 /\ j - 1 = n
        BY <1>2, <1>3, <2>1, <3>3 DEF Chained
      <4> QED BY <2>1, <3>1, <4>1
    <3> QED BY <3>2, <3>3
  <2>2. CASE j # n + 1
    <3>1. j \in 1..n
      BY <1>2, <2>2
    <3>2. c[j] = l <=> j = n
      <4>1. n \in 1..n /\ l = c[n]
        BY <1>2, <3>1 DEF Chained
      <4> QED BY <3>1, <4>1 DEF Chained
    <3>3. /\ new[d[j]].next_ = IF j = n THEN t ELSE c[j + 1]
          /\ new[d[j]].prev_ = IF j = 1 THEN Null ELSE c[j - 1]
      <4>1. /\ mem[c[j]].next_ = IF j = n THEN Null ELSE c[j + 1]
            /\ mem[c[j]].prev_ = IF j = 1 THEN Null ELSE c[j - 1]
        BY <3>1 DEF Chained
      <4>2. c[j] \in DOMAIN mem /\ d[j] = c[j]
        BY <1>2, <1>3, <3>1
      <4> QED BY <1>1, <3>2, <4>1, <4>2
    <3>4. (j # n => c[j + 1] = d[j + 1]) /\ (j # 1 => c[j - 1] = d[j - 1])
      BY <1>2, <1>3, <3>1
    <3> QED BY <1>2, <1>3, <2>2, <3>3, <3>4
  <2> QED BY <2>1, <2>2
<1>9. \A j \in 1..n : d[j] = c[j] /\ new[c[j]].value = mem[c[j]].value
  BY <1>1, <1>2, <1>3
<1>10. d[n + 1] = t /\ new[t].value = v
  BY <1>1, <1>3 DEF Element
<1>11. t = d[n + 1]
  BY <1>3
<1> HIDE DEF g
<1>12. Chained(d, n + 1, new, g, t)
  BY <1>2, <1>4, <1>5, <1>6, <1>7, <1>8, <1>11 DEF Chained
<1> QED BY <1>9, <1>10, <1>12 DEF g, Stays, Behind

\* The new element at the front leads on to the old one, which leads back to it.
PutFirst(new, mem, t, v, f) ==
  /\ DOMAIN new = DOMAIN mem \cup {t} /\ t \notin DOMAIN mem /\ t # Null
  /\ new[t] = Element(v, Null, f)
  /\ \A a \in DOMAIN mem : /\ new[a].value = mem[a].value /\ new[a].next_ = mem[a].next_
                           /\ new[a].prev_ = IF a = f THEN t ELSE mem[a].prev_

\* PushFront writes the element before the first one.
LEMMA FrontMemory ==
  ASSUME NEW mem, NEW top, Memory(mem, top), NEW c, NEW n, NEW f, NEW l, Chained(c, n, mem, f, l),
         NEW v \in Objects, NEW t \in Nat, t > top, NEW new, PushedFront(new, mem, f, t, v)
  PROVE  Memory(new, t) /\ PutFirst(new, mem, t, v, f)
<1>1. t # Null /\ Null \notin DOMAIN mem
  BY ChainType DEF Memory, Null
<1>2. PICK m : /\ Memory(m, top) /\ PrevSet(m, mem, f, t) /\ new = Allocated(m, t, Element(v, Null, f))
  <2>1. CASE f # Null
    <3> DEFINE m == [mem EXCEPT ![f].prev_ = t]
    <3>1. f \in DOMAIN mem
      BY <2>1, ChainType DEF Chained
    <3>2. /\ Memory(m, top) /\ PrevSet(m, mem, f, t)
      BY <3>1, PrevWritten
    <3>3. new = Allocated(m, t, Element(v, Null, f))
      BY <2>1 DEF PushedFront
    <3> HIDE DEF m
    <3> QED BY <3>2, <3>3
  <2>2. CASE f = Null
    <3>1. f \notin DOMAIN mem
      BY <1>1, <2>2
    <3> QED BY <2>2, <3>1 DEF PrevSet, PushedFront
  <2> QED BY <2>1, <2>2
<1>3. Element(v, Null, f) \in Cells
  <2>1. f \in Nat
    BY ChainType DEF Chained, Memory, Null
  <2> QED BY <2>1 DEF Element, Null, Cells
<1>4. Added(new, m, t, Element(v, Null, f)) /\ Memory(new, t)
  BY <1>2, <1>3, OneMore
<1> QED BY <1>1, <1>2, <1>4 DEF Added, PrevSet, PutFirst

\* The chain is one longer at its front.
LEMMA FrontChain ==
  ASSUME NEW mem, NEW top, Memory(mem, top), NEW c, NEW n, NEW f, NEW l, Chained(c, n, mem, f, l),
         NEW v \in Objects, NEW t \in Nat, t > top, NEW new, PushedFront(new, mem, f, t, v)
  PROVE  \E d : Chained(d, n + 1, new, t, Stays(f, l, t)) /\ Before(d, c, n, new, mem, t, v)
<1> DEFINE d == [j \in 1..n + 1 |-> IF j = 1 THEN t ELSE c[j - 1]]
           h == IF f # Null THEN l ELSE t
<1>1. /\ DOMAIN new = DOMAIN mem \cup {t} /\ t \notin DOMAIN mem /\ t # Null
      /\ new[t] = Element(v, Null, f)
      /\ \A a \in DOMAIN mem : /\ new[a].value = mem[a].value /\ new[a].next_ = mem[a].next_
                               /\ new[a].prev_ = IF a = f THEN t ELSE mem[a].prev_
  BY FrontMemory DEF PutFirst
<1>2. n \in Nat /\ n + 1 \in Nat /\ n + 1 # 0 /\ \A j \in 1..n : c[j] \in DOMAIN mem /\ c[j] # t
  <2>1. n \in Nat /\ \A j \in 1..n : c[j] \in DOMAIN mem
    BY ChainType
  <2> QED BY <1>1, <2>1
<1>3. /\ \A j \in 1..n : j + 1 \in 1..n + 1 /\ d[j + 1] = c[j]
      /\ \A j \in 1..n + 1 : j # 1 => j - 1 \in 1..n /\ d[j] = c[j - 1]
      /\ d[1] = t
  BY <1>2
<1>4. d \in [1..n + 1 -> DOMAIN new]
  <2>1. \A j \in 1..n + 1 : d[j] \in DOMAIN new
    BY <1>1, <1>2, <1>3
  <2> QED BY <2>1
<1> HIDE DEF d
<1>5. ASSUME NEW a \in DOMAIN new PROVE \E j \in 1..n + 1 : d[j] = a
  <2>1. CASE a = t
    BY <1>2, <1>3, <2>1
  <2>2. CASE a # t
    <3>1. PICK j \in 1..n : c[j] = a
      BY <1>1, <2>2 DEF Chained
    <3> QED BY <1>2, <1>3, <3>1
  <2> QED BY <2>1, <2>2
<1>6. ASSUME NEW i \in 1..n + 1, NEW j \in 1..n + 1, d[i] = d[j] PROVE i = j
  <2>1. CASE i # 1 /\ j # 1
    <3>1. i - 1 \in 1..n /\ j - 1 \in 1..n /\ c[i - 1] = c[j - 1]
      BY <1>3, <1>6, <2>1
    <3>2. i - 1 = j - 1
      BY <3>1 DEF Chained
    <3> QED BY <1>2, <3>2
  <2>2. CASE i = 1 \/ j = 1
    BY <1>2, <1>3, <1>6, <2>2
  <2> QED BY <2>1, <2>2
<1>7. h = d[n + 1]
  <2>1. CASE n = 0
    BY <1>3, <2>1 DEF Chained
  <2>2. CASE n # 0
    <3>1. n \in 1..n /\ l = c[n]
      BY <1>2, <2>2 DEF Chained
    <3>2. d[n + 1] = c[n]
      BY <1>3, <3>1
    <3>3. f # Null
      BY <2>2, ChainType
    <3> QED BY <3>1, <3>2, <3>3
  <2> QED BY <2>1, <2>2
<1>8. ASSUME NEW j \in 1..n + 1
      PROVE  /\ new[d[j]].next_ = IF j = n + 1 THEN Null ELSE d[j + 1]
             /\ new[d[j]].prev_ = IF j = 1 THEN Null ELSE d[j - 1]
  <2>1. CASE j = 1
    <3>1. new[d[j]].next_ = f /\ new[d[j]].prev_ = Null
      BY <1>1, <1>3, <2>1 DEF Element
    <3>2. CASE n = 0
      BY <2>1, <3>1, <3>2 DEF Chained
    <3>3. CASE n # 0
      <4>1. 1 \in 1..n /\ f = c[1] /\ j # n + 1
        BY <1>2, <2>1, <3>3 DEF Chained
      <4>2. f = d[1 + 1]
        BY <1>3, <4>1
      <4> QED BY <2>1, <3>1, <4>1, <4>2
    <3> QED BY <3>2, <3>3
  <2>2. CASE j # 1
    <3> DEFINE i == j - 1
    <3>1. i \in 1..n /\ d[j] = c[i] /\ i + 1 = j
      BY <1>2, <1>3, <2>2
    <3> HIDE DEF i
    <3>2. c[i] = f <=> i = 1
      <4>1. 1 \in 1..n /\ f = c[1]
        BY <1>2, <3>1 DEF Chained
      <4> QED BY <3>1, <4>1 DEF Chained
    <3>3. /\ new[d[j]].next_ = IF i = n THEN Null ELSE c[i + 1]
          /\ new[d[j]].prev_ = IF i = 1 THEN t ELSE c[i - 1]
      BY <1>1, <1>2, <1>3, <3>1, <3>2 DEF Chained
    <3>4. (i # n => i + 1 \in 1..n /\ c[i + 1] = d[j + 1]) /\ (i # 1 => i - 1 \in 1..n /\ c[i - 1] = d[i])
      BY <1>2, <1>3, <3>1
    <3>5. d[j - 1] = IF i = 1 THEN t ELSE c[i - 1]
      BY <1>2, <1>3, <3>1, <3>4
    <3> QED BY <1>2, <2>2, <3>1, <3>3, <3>4, <3>5
  <2> QED BY <2>1, <2>2
<1>9. \A j \in 1..n : d[j + 1] = c[j] /\ new[c[j]].value = mem[c[j]].value
  BY <1>1, <1>2, <1>3
<1>10. d[1] = t /\ new[t].value = v
  BY <1>1, <1>3 DEF Element
<1> HIDE DEF h
<1>11. Chained(d, n + 1, new, t, h)
  BY <1>2, <1>3, <1>4, <1>5, <1>6, <1>7, <1>8 DEF Chained
<1> QED BY <1>9, <1>10, <1>11 DEF h, Stays, Before

-----------------------------------------------------------------------------
(* Taking an element out                                                    *)

\* Every link leads back, and only the ends lead nowhere.
LEMMA Neighbours ==
  ASSUME NEW mem, NEW top, Memory(mem, top), NEW c, NEW n, NEW f, NEW l, Chained(c, n, mem, f, l),
         NEW a \in DOMAIN mem
  PROVE  /\ mem[a].next_ \in DOMAIN mem \cup {Null} /\ mem[a].prev_ \in DOMAIN mem \cup {Null}
         /\ mem[a].next_ = Null <=> a = l
         /\ mem[a].prev_ = Null <=> a = f
         /\ \A b \in DOMAIN mem : mem[a].next_ = b <=> mem[b].prev_ = a
<1>1. PICK i \in 1..n : c[i] = a
  BY DEF Chained
<1>2. n \in Nat /\ Null \notin DOMAIN mem /\ \A j \in 1..n : c[j] \in DOMAIN mem /\ c[j] # Null
  BY ChainType
<1>3. \A j \in 1..n : /\ mem[c[j]].next_ = IF j = n THEN Null ELSE c[j + 1]
                      /\ mem[c[j]].prev_ = IF j = 1 THEN Null ELSE c[j - 1]
  BY DEF Chained
<1>4. 1 \in 1..n /\ n \in 1..n /\ (i # n => i + 1 \in 1..n) /\ (i # 1 => i - 1 \in 1..n)
  BY <1>1, <1>2
<1>5. mem[a].next_ \in DOMAIN mem \cup {Null} /\ mem[a].prev_ \in DOMAIN mem \cup {Null}
  BY <1>1, <1>2, <1>3, <1>4
<1>6. f = c[1] /\ l = c[n] /\ (a = l <=> i = n) /\ (a = f <=> i = 1)
  BY <1>1, <1>2, <1>4 DEF Chained
<1>7. (mem[a].next_ = Null <=> a = l) /\ (mem[a].prev_ = Null <=> a = f)
  BY <1>1, <1>2, <1>3, <1>4, <1>6
<1>8. ASSUME NEW b \in DOMAIN mem PROVE mem[a].next_ = b <=> mem[b].prev_ = a
  <2>1. PICK k \in 1..n : c[k] = b
    BY DEF Chained
  <2>2. mem[a].next_ = b <=> k = i + 1
    <3>1. CASE i = n
      BY <1>1, <1>2, <1>3, <2>1, <3>1
    <3>2. CASE i # n
      <4>1. mem[a].next_ = c[i + 1]
        BY <1>1, <1>3, <3>2
      <4> QED BY <1>4, <2>1, <3>2, <4>1 DEF Chained
    <3> QED BY <3>1, <3>2
  <2>3. mem[b].prev_ = a <=> k = i + 1
    <3>1. CASE k = 1
      BY <1>1, <1>2, <1>3, <2>1, <3>1
    <3>2. CASE k # 1
      <4>1. mem[b].prev_ = c[k - 1] /\ k - 1 \in 1..n
        BY <1>2, <1>3, <2>1, <3>2
      <4>2. c[k - 1] = c[i] <=> k - 1 = i
        BY <4>1 DEF Chained
      <4> QED BY <1>1, <1>2, <4>1, <4>2
    <3> QED BY <3>1, <3>2
  <2> QED BY <2>2, <2>3
<1> QED BY <1>5, <1>7, <1>8

\* Element e is none any more, and its neighbours are each other's.
Taken(new, mem, e) ==
  /\ DOMAIN new = DOMAIN mem \ {e}
  /\ \A a \in DOMAIN new : /\ new[a].value = mem[a].value
                           /\ new[a].next_ = IF mem[a].next_ = e THEN mem[e].next_ ELSE mem[a].next_
                           /\ new[a].prev_ = IF mem[a].prev_ = e THEN mem[e].prev_ ELSE mem[a].prev_

\* The chain without its i-th element.
Skip(i, j) == IF j < i THEN j ELSE j + 1
Left(c, n, i) == [j \in 1..n - 1 |-> c[Skip(i, j)]]

\* Without an element that is taken out, the others are a chain.
LEMMA ChainTaken ==
  ASSUME NEW mem, NEW top, Memory(mem, top), NEW c, NEW n, NEW f, NEW l, Chained(c, n, mem, f, l),
         NEW i \in 1..n, NEW new, Taken(new, mem, c[i])
  PROVE  Chained(Left(c, n, i), n - 1, new, IF c[i] = f THEN mem[c[i]].next_ ELSE f,
                 IF c[i] = l THEN mem[c[i]].prev_ ELSE l)
<1> DEFINE d == Left(c, n, i)
           g == IF c[i] = f THEN mem[c[i]].next_ ELSE f
           h == IF c[i] = l THEN mem[c[i]].prev_ ELSE l
<1>1. n \in Nat /\ n # 0 /\ n - 1 \in Nat /\ \A j \in 1..n : c[j] \in DOMAIN mem /\ c[j] # Null
  <2>1. n \in Nat /\ \A j \in 1..n : c[j] \in DOMAIN mem /\ c[j] # Null
    BY ChainType
  <2> QED BY <2>1
<1>2. \A j \in 1..n : /\ mem[c[j]].next_ = IF j = n THEN Null ELSE c[j + 1]
                      /\ mem[c[j]].prev_ = IF j = 1 THEN Null ELSE c[j - 1]
  BY DEF Chained
<1>3. \A j, k \in 1..n : c[j] = c[k] => j = k
  BY DEF Chained
<1>4. \A j \in 1..n - 1 : Skip(i, j) \in 1..n /\ Skip(i, j) # i /\ d[j] = c[Skip(i, j)]
  BY <1>1 DEF Skip, Left
<1>5. /\ DOMAIN new = DOMAIN mem \ {c[i]}
      /\ \A a \in DOMAIN new :
           /\ new[a].next_ = IF mem[a].next_ = c[i] THEN mem[c[i]].next_ ELSE mem[a].next_
           /\ new[a].prev_ = IF mem[a].prev_ = c[i] THEN mem[c[i]].prev_ ELSE mem[a].prev_
  BY DEF Taken
<1>6. \A j \in 1..n - 1 : d[j] \in DOMAIN new
  BY <1>1, <1>3, <1>4, <1>5
<1>7. d \in [1..n - 1 -> DOMAIN new]
  BY <1>6 DEF Left
<1> HIDE DEF d
<1>8. ASSUME NEW a \in DOMAIN new PROVE \E j \in 1..n - 1 : d[j] = a
  <2>1. PICK k \in 1..n : c[k] = a
    BY <1>5 DEF Chained
  <2>2. k # i
    BY <1>5, <2>1
  <2>3. PICK j \in 1..n - 1 : Skip(i, j) = k
    <3>1. CASE k < i
      <4>1. k \in 1..n - 1 /\ Skip(i, k) = k
        BY <1>1, <3>1 DEF Skip
      <4> QED BY <4>1
    <3>2. CASE ~(k < i)
      <4>1. k - 1 \in 1..n - 1 /\ Skip(i, k - 1) = k
        BY <1>1, <2>2, <3>2 DEF Skip
      <4> QED BY <4>1
    <3> QED BY <3>1, <3>2
  <2> QED BY <1>4, <2>1, <2>3
<1>9. ASSUME NEW j \in 1..n - 1, NEW k \in 1..n - 1, d[j] = d[k] PROVE j = k
  <2>1. Skip(i, j) = Skip(i, k)
    BY <1>3, <1>4, <1>9
  <2> QED BY <1>1, <2>1 DEF Skip
<1>10. 1 \in 1..n /\ n \in 1..n /\ f = c[1] /\ l = c[n]
  BY <1>1 DEF Chained
<1>11. g = (IF n - 1 = 0 THEN Null ELSE d[1])
  <2>1. CASE i = 1
    <3>1. g = IF n = 1 THEN Null ELSE c[2]
      BY <1>2, <1>10, <2>1
    <3>2. n # 1 => 1 \in 1..n - 1 /\ Skip(i, 1) = 2
      BY <1>1, <2>1 DEF Skip
    <3> QED BY <1>1, <1>4, <3>1, <3>2
  <2>2. CASE i # 1
    <3>1. g = c[1]
      BY <1>3, <1>10, <2>2
    <3>2. n - 1 # 0 /\ 1 \in 1..n - 1 /\ Skip(i, 1) = 1
      BY <1>1, <2>2 DEF Skip
    <3> QED BY <1>4, <3>1, <3>2
  <2> QED BY <2>1, <2>2
<1>12. h = (IF n - 1 = 0 THEN Null ELSE d[n - 1])
  <2>1. CASE i = n
    <3>1. h = IF n = 1 THEN Null ELSE c[n - 1]
      BY <1>2, <1>10, <2>1
    <3>2. n # 1 => n - 1 \in 1..n - 1 /\ Skip(i, n - 1) = n - 1
      BY <1>1, <2>1 DEF Skip
    <3> QED BY <1>1, <1>4, <3>1, <3>2
  <2>2. CASE i # n
    <3>1. h = c[n]
      BY <1>3, <1>10, <2>2
    <3>2. n - 1 # 0 /\ n - 1 \in 1..n - 1 /\ Skip(i, n - 1) = n
      BY <1>1, <2>2 DEF Skip
    <3> QED BY <1>4, <3>1, <3>2
  <2> QED BY <2>1, <2>2
<1>13. ASSUME NEW j \in 1..n - 1
       PROVE  /\ new[d[j]].next_ = IF j = n - 1 THEN Null ELSE d[j + 1]
              /\ new[d[j]].prev_ = IF j = 1 THEN Null ELSE d[j - 1]
  <2> DEFINE k == Skip(i, j)
  <2>1. k \in 1..n /\ k # i /\ d[j] = c[k] /\ d[j] \in DOMAIN new /\ (j < i => k = j) /\ (~(j < i) => k = j + 1)
    BY <1>4, <1>6 DEF Skip
  <2> HIDE DEF k
  <2>2. /\ new[d[j]].next_ = IF mem[c[k]].next_ = c[i] THEN mem[c[i]].next_ ELSE mem[c[k]].next_
        /\ new[d[j]].prev_ = IF mem[c[k]].prev_ = c[i] THEN mem[c[i]].prev_ ELSE mem[c[k]].prev_
    BY <1>5, <2>1
  <2>3. mem[c[k]].next_ = c[i] <=> k + 1 = i
    <3>1. k + 1 = i => k # n
      BY <1>1, <2>1
    <3>2. k # n => k + 1 \in 1..n
      BY <1>1, <2>1
    <3> QED BY <1>1, <1>2, <1>3, <2>1, <3>1, <3>2
  <2>4. mem[c[k]].prev_ = c[i] <=> k - 1 = i
    <3>1. k - 1 = i => k # 1
      BY <1>1, <2>1
    <3>2. k # 1 => k - 1 \in 1..n
      BY <1>1, <2>1
    <3> QED BY <1>1, <1>2, <1>3, <2>1, <3>1, <3>2
  <2>5. new[d[j]].next_ = IF j = n - 1 THEN Null ELSE d[j + 1]
    <3>1. CASE k + 1 = i
      <4>1. new[d[j]].next_ = IF i = n THEN Null ELSE c[i + 1]
        BY <1>2, <2>2, <2>3, <3>1
      <4>2. (j = n - 1 <=> i = n) /\ (i # n => j + 1 \in 1..n - 1 /\ Skip(i, j + 1) = i + 1)
        BY <1>1, <2>1, <3>1 DEF Skip
      <4> QED BY <1>4, <4>1, <4>2
    <3>2. CASE k + 1 # i
      <4>1. new[d[j]].next_ = IF k = n THEN Null ELSE c[k + 1]
        BY <1>2, <2>1, <2>2, <2>3, <3>2
      <4>2. (j = n - 1 <=> k = n) /\ (k # n => j + 1 \in 1..n - 1 /\ Skip(i, j + 1) = k + 1)
        BY <1>1, <2>1, <3>2 DEF Skip
      <4> QED BY <1>4, <4>1, <4>2
    <3> QED BY <3>1, <3>2
  <2>6. new[d[j]].prev_ = IF j = 1 THEN Null ELSE d[j - 1]
    <3>1. CASE k - 1 = i
      <4>1. new[d[j]].prev_ = IF i = 1 THEN Null ELSE c[i - 1]
        BY <1>2, <2>2, <2>4, <3>1
      <4>2. (j = 1 <=> i = 1) /\ (i # 1 => j - 1 \in 1..n - 1 /\ Skip(i, j - 1) = i - 1)
        BY <1>1, <2>1, <3>1 DEF Skip
      <4> QED BY <1>4, <4>1, <4>2
    <3>2. CASE k - 1 # i
      <4>1. new[d[j]].prev_ = IF k = 1 THEN Null ELSE c[k - 1]
        BY <1>2, <2>1, <2>2, <2>4, <3>2
      <4>2. (j = 1 <=> k = 1) /\ (k # 1 => j - 1 \in 1..n - 1 /\ Skip(i, j - 1) = k - 1)
        BY <1>1, <2>1, <3>2 DEF Skip
      <4> QED BY <1>4, <4>1, <4>2
    <3> QED BY <3>1, <3>2
  <2> QED BY <2>5, <2>6
<1> HIDE DEF g, h
<1>14. Chained(d, n - 1, new, g, h)
  BY <1>1, <1>7, <1>8, <1>9, <1>11, <1>12, <1>13 DEF Chained
<1> QED BY <1>14 DEF d, g, h

\* How RemoveLast and PopFront write to the memory.
FreedLast(new, mem, l) ==
  \/ mem[l].prev_ # Null /\ new = Freed([mem EXCEPT ![mem[l].prev_].next_ = Null], l)
  \/ mem[l].prev_ = Null /\ new = Freed(mem, l)
FreedFirst(new, mem, f) ==
  \/ mem[f].next_ # Null /\ new = Freed([mem EXCEPT ![mem[f].next_].prev_ = Null], f)
  \/ mem[f].next_ = Null /\ new = Freed(mem, f)

\* The last element is taken out.
LEMMA LastTaken ==
  ASSUME NEW mem, NEW top, Memory(mem, top), NEW c, NEW n, NEW f, NEW l, Chained(c, n, mem, f, l), n # 0, NEW new, FreedLast(new, mem, l)
  PROVE  Memory(new, top) /\ Taken(new, mem, l)
<1> DEFINE prev == mem[l].prev_
<1>1. l \in DOMAIN mem /\ Null \notin DOMAIN mem
  <2>1. n \in Nat /\ n \in 1..n /\ l = c[n]
    BY DEF Chained
  <2> QED BY <2>1, ChainType
<1>2. /\ prev \in DOMAIN mem \cup {Null} /\ mem[l].next_ = Null
      /\ \A a \in DOMAIN mem : (mem[a].next_ = l <=> prev = a) /\ mem[a].prev_ # l
  <2>1. /\ prev \in DOMAIN mem \cup {Null} /\ mem[l].next_ = Null
        /\ \A a \in DOMAIN mem : mem[l].next_ = a <=> mem[a].prev_ = l
    BY <1>1, Neighbours
  <2>2. \A a \in DOMAIN mem : mem[a].next_ = l <=> prev = a
    BY <1>1, Neighbours
  <2> QED BY <1>1, <2>1, <2>2
<1>3. PICK m : /\ Memory(m, top) /\ NextSet(m, mem, prev, Null) /\ new = Freed(m, l)
  <2>1. CASE prev # Null
    <3> DEFINE m == [mem EXCEPT ![prev].next_ = Null]
    <3>1. prev \in DOMAIN mem /\ Null \in Nat
      BY <1>2, <2>1 DEF Null
    <3> HIDE DEF prev
    <3>2. /\ Memory(m, top) /\ NextSet(m, mem, prev, Null)
      BY <3>1, NextWritten
    <3>3. new = Freed(m, l)
      BY <2>1 DEF prev, FreedLast
    <3> HIDE DEF m
    <3> QED BY <3>2, <3>3
  <2>2. CASE prev = Null
    BY <1>1, <2>2 DEF NextSet, FreedLast
  <2> QED BY <2>1, <2>2
<1> HIDE DEF prev
<1>4. Dropped(new, m, l) /\ Memory(new, top)
  BY <1>3, OneLess
<1> QED BY <1>1, <1>2, <1>3, <1>4 DEF Dropped, NextSet, Taken

\* The first element is taken out.
LEMMA FirstTaken ==
  ASSUME NEW mem, NEW top, Memory(mem, top), NEW c, NEW n, NEW f, NEW l, Chained(c, n, mem, f, l), n # 0, NEW new, FreedFirst(new, mem, f)
  PROVE  Memory(new, top) /\ Taken(new, mem, f)
<1> DEFINE next == mem[f].next_
<1>1. f \in DOMAIN mem /\ Null \notin DOMAIN mem
  <2>1. n \in Nat /\ 1 \in 1..n /\ f = c[1]
    BY DEF Chained
  <2> QED BY <2>1, ChainType
<1>2. /\ next \in DOMAIN mem \cup {Null} /\ mem[f].prev_ = Null
      /\ \A a \in DOMAIN mem : (mem[a].prev_ = f <=> next = a) /\ mem[a].next_ # f
  <2>1. /\ next \in DOMAIN mem \cup {Null} /\ mem[f].prev_ = Null
        /\ \A a \in DOMAIN mem : mem[f].next_ = a <=> mem[a].prev_ = f
    BY <1>1, Neighbours
  <2>2. \A a \in DOMAIN mem : mem[a].next_ = f <=> mem[f].prev_ = a
    BY <1>1, Neighbours
  <2> QED BY <1>1, <2>1, <2>2
<1>3. PICK m : /\ Memory(m, top) /\ PrevSet(m, mem, next, Null) /\ new = Freed(m, f)
  <2>1. CASE next # Null
    <3> DEFINE m == [mem EXCEPT ![next].prev_ = Null]
    <3>1. next \in DOMAIN mem /\ Null \in Nat
      BY <1>2, <2>1 DEF Null
    <3> HIDE DEF next
    <3>2. /\ Memory(m, top) /\ PrevSet(m, mem, next, Null)
      BY <3>1, PrevWritten
    <3>3. new = Freed(m, f)
      BY <2>1 DEF next, FreedFirst
    <3> HIDE DEF m
    <3> QED BY <3>2, <3>3
  <2>2. CASE next = Null
    BY <1>1, <2>2 DEF PrevSet, FreedFirst
  <2> QED BY <2>1, <2>2
<1> HIDE DEF next
<1>4. Dropped(new, m, f) /\ Memory(new, top)
  BY <1>3, OneLess
<1> QED BY <1>1, <1>2, <1>3, <1>4 DEF Dropped, PrevSet, Taken

\* An element between two others is taken out.
LEMMA MiddleTaken ==
  ASSUME NEW mem, NEW top, Memory(mem, top), NEW c, NEW n, NEW f, NEW l, Chained(c, n, mem, f, l),
         NEW e \in DOMAIN mem, mem[e].next_ # Null, mem[e].prev_ # Null
  PROVE  LET new == Freed([mem EXCEPT ![mem[e].prev_].next_ = mem[e].next_, ![mem[e].next_].prev_ = mem[e].prev_], e)
         IN  Memory(new, top) /\ Taken(new, mem, e)
<1> DEFINE prev == mem[e].prev_
           next == mem[e].next_
           m1 == [mem EXCEPT ![prev].next_ = next]
           m == [m1 EXCEPT ![next].prev_ = prev]
           new == Freed(m, e)
<1>1. /\ prev \in DOMAIN mem /\ next \in DOMAIN mem /\ prev \in Nat /\ next \in Nat
      /\ \A a \in DOMAIN mem : (mem[a].prev_ = e <=> next = a) /\ (mem[a].next_ = e <=> prev = a)
  <2>1. /\ prev \in DOMAIN mem /\ next \in DOMAIN mem
        /\ \A a \in DOMAIN mem : mem[e].next_ = a <=> mem[a].prev_ = e
    BY Neighbours
  <2>2. \A a \in DOMAIN mem : mem[a].next_ = e <=> mem[e].prev_ = a
    BY Neighbours
  <2>3. prev \in Nat /\ next \in Nat
    BY <2>1 DEF Memory
  <2> QED BY <2>1, <2>2, <2>3
<1>2. Freed([mem EXCEPT ![mem[e].prev_].next_ = mem[e].next_, ![mem[e].next_].prev_ = mem[e].prev_], e) = new
  OBVIOUS
<1> HIDE DEF prev, next
<1>3. /\ Memory(m1, top) /\ NextSet(m1, mem, prev, next)
  BY <1>1, NextWritten
<1> HIDE DEF m1
<1>4. /\ Memory(m, top) /\ PrevSet(m, m1, next, prev)
  BY <1>1, <1>3, PrevWritten DEF NextSet
<1> HIDE DEF m
<1>5. Dropped(new, m, e) /\ Memory(new, top)
  BY <1>4, OneLess
<1> HIDE DEF new
<1>6. Taken(new, mem, e)
  BY <1>1, <1>3, <1>4, <1>5 DEF Dropped, NextSet, PrevSet, Taken, prev, next
<1> QED BY <1>2, <1>5, <1>6

-----------------------------------------------------------------------------
(* The states                                                               *)

\* The elements in use are a chain from first_ to last_, as long as there is a list.
ListInv ==
  /\ Memory(elems, newest) /\ cur_ \in 0..newest
  /\ state \in {"live", "broken", "destroyed"}
  /\ state # "destroyed" => \E c : Chained(c, count_, elems, first_, last_)
  /\ state = "destroyed" => count_ = 0 /\ DOMAIN elems = {}

\* What such a state is to a caller: c has the elements, seq their values, and
\* place is where cur is among them.
View(c, mem, cur, seq, place) ==
  /\ seq \in Seq(Objects)
  /\ \A j \in 1..Len(seq) : c[j] \in DOMAIN mem /\ c[j] # Null /\ seq[j] = mem[c[j]].value
  /\ \A j \in 1..Len(seq) : cur = c[j] => place = j
  /\ cur = Null => place = 0
  /\ cur # Null /\ cur \notin DOMAIN mem => place = -1
  /\ cur \in DOMAIN mem => \E j \in 1..Len(seq) : cur = c[j]

\* A chain in the memory is seen as the sequence of its values.
LEMMA ChainViews ==
  ASSUME NEW mem, NEW top, Memory(mem, top), NEW c, NEW n, NEW f, NEW l, Chained(c, n, mem, f, l), NEW cur
  PROVE  View(c, mem, cur, ContentsOf(n, mem, f), PlaceOf(n, mem, f, cur)) /\ Len(ContentsOf(n, mem, f)) = n
<1> DEFINE seq == ContentsOf(n, mem, f)
           place == PlaceOf(n, mem, f, cur)
<1>1. seq \in Seq(Objects) /\ Len(seq) = n /\ \A j \in 1..n : seq[j] = mem[c[j]].value
  BY ChainView
<1>2. /\ \A j \in 1..n : cur = c[j] => place = j
      /\ cur = Null => place = 0
      /\ cur # Null /\ cur \notin DOMAIN mem => place = -1
  BY ChainView
<1>3. \A j \in 1..n : c[j] \in DOMAIN mem /\ c[j] # Null
  BY ChainType
<1>4. cur \in DOMAIN mem => \E j \in 1..n : cur = c[j]
  BY DEF Chained
<1> HIDE DEF seq, place
<1> QED BY <1>1, <1>2, <1>3, <1>4 DEF View, seq, place

\* So it is for the variables before a step ...
LEMMA NowView ==
  ASSUME Memory(elems, newest), NEW c, Chained(c, count_, elems, first_, last_)
  PROVE  View(c, elems, cur_, ListContents, Place) /\ Len(ListContents) = count_
BY Views, ChainViews

\* ... and after it.
LEMMA NextView ==
  ASSUME Memory(elems', newest'), NEW c, Chained(c, count_', elems', first_', last_')
  PROVE  View(c, elems', cur_', ListContents', Place') /\ Len(ListContents') = count_'
BY Views, ChainViews

\* As long as there is a list it has a chain.
LEMMA HasChain ==
  ASSUME ListInv, state # "destroyed"
  PROVE  \E c : /\ Chained(c, count_, elems, first_, last_) /\ View(c, elems, cur_, ListContents, Place)
                /\ Len(ListContents) = count_ /\ count_ \in Nat
<1>1. PICK c : Chained(c, count_, elems, first_, last_)
  BY DEF ListInv
<1>2. View(c, elems, cur_, ListContents, Place) /\ Len(ListContents) = count_
  BY <1>1, NowView DEF ListInv
<1> QED BY <1>1, <1>2 DEF Chained

\* The invariant says that the memory in use is the list.
LEMMA InvLinked == ListInv => ListLinked
<1> SUFFICES ASSUME ListInv PROVE ListLinked
  OBVIOUS
<1>1. CASE state = "destroyed"
  BY <1>1 DEF ListInv, ListLinked
<1>2. CASE state # "destroyed"
  <2>1. PICK c : Chained(c, count_, elems, first_, last_)
    BY <1>2 DEF ListInv
  <2>2. count_ \in Nat /\ \A j \in 1..count_ : c[j] \in DOMAIN elems
    BY <2>1, ChainType DEF ListInv
  <2>3. Nth = [k \in 0..count_ |-> IF k = count_ THEN Null ELSE c[k + 1]]
    BY <2>1, AtWalk, ChainWalk DEF ListInv
  <2>4. Nth[count_] = Null /\ \A k \in 0..count_ - 1 : Nth[k] = c[k + 1] /\ k + 1 \in 1..count_
    BY <2>2, <2>3
  <2>5. \A j \in 1..count_ : j - 1 \in 0..count_ - 1 /\ Nth[j - 1] = c[j]
    BY <2>2, <2>3
  <2>6. DOMAIN elems = {Nth[k] : k \in 0..count_ - 1}
    <3>1. ASSUME NEW a \in DOMAIN elems PROVE \E k \in 0..count_ - 1 : Nth[k] = a
      <4>1. PICK j \in 1..count_ : c[j] = a
        BY <2>1 DEF Chained
      <4> QED BY <2>5, <4>1
    <3>2. \A k \in 0..count_ - 1 : Nth[k] \in DOMAIN elems
      BY <2>2, <2>4
    <3> QED BY <3>1, <3>2
  <2>7. (count_ > 0 => last_ = Nth[count_ - 1]) /\ (count_ = 0 => last_ = Null)
    <3>1. CASE count_ = 0
      BY <2>1, <3>1 DEF Chained
    <3>2. CASE count_ # 0
      <4>1. count_ \in 1..count_ /\ last_ = c[count_]
        BY <2>1, <2>2, <3>2 DEF Chained
      <4> QED BY <2>5, <3>2, <4>1
    <3> QED BY <2>2, <3>1, <3>2
  <2>8. ASSUME NEW k \in 0..count_ - 1 PROVE elems[Nth[k]].prev_ = IF k = 0 THEN Null ELSE Nth[k - 1]
    <3>1. elems[Nth[k]].prev_ = IF k + 1 = 1 THEN Null ELSE c[(k + 1) - 1]
      BY <2>1, <2>4 DEF Chained
    <3>2. CASE k = 0
      BY <3>1, <3>2
    <3>3. CASE k # 0
      <4>1. k \in 1..count_ /\ (k + 1) - 1 = k /\ k + 1 # 1
        BY <2>2, <3>3
      <4> QED BY <2>5, <3>1, <3>3, <4>1
    <3> QED BY <3>2, <3>3
  <2> QED BY <2>4, <2>6, <2>7, <2>8 DEF ListLinked
<1> QED BY <1>1, <1>2

-----------------------------------------------------------------------------
(* Sequences                                                                *)

\* Only the empty sequence has no values.
LEMMA NoValues == ASSUME NEW s \in Seq(Objects) PROVE s = <<>> <=> Len(s) = 0
OBVIOUS

\* A sequence with one value more at its end is what Append makes.
LEMMA OneBehind ==
  ASSUME NEW s \in Seq(Objects), NEW t \in Seq(Objects), NEW v \in Objects,
         Len(t) = Len(s) + 1, t[Len(s) + 1] = v, \A j \in 1..Len(s) : t[j] = s[j]
  PROVE  t = Append(s, v)
OBVIOUS

\* A sequence with one value more at its front.
LEMMA OneBefore ==
  ASSUME NEW s \in Seq(Objects), NEW t \in Seq(Objects), NEW v \in Objects,
         Len(t) = Len(s) + 1, t[1] = v, \A j \in 1..Len(s) : t[j + 1] = s[j]
  PROVE  t = <<v>> \o s
<1> DEFINE u == <<v>> \o s
<1>1. u \in Seq(Objects) /\ Len(u) = Len(s) + 1 /\ u[1] = v /\ \A j \in 1..Len(s) : u[j + 1] = s[j]
  OBVIOUS
<1> HIDE DEF u
<1>2. \A j \in 1..Len(s) + 1 : t[j] = u[j]
  <2> TAKE j \in 1..Len(s) + 1
  <2>1. j = 1 \/ (j - 1 \in 1..Len(s) /\ (j - 1) + 1 = j)
    OBVIOUS
  <2> QED BY <1>1, <2>1
<1>3. t = u
  BY <1>1, <1>2
<1> QED BY <1>3 DEF u

\* A sequence without the value in place i.
LEMMA OneOut ==
  ASSUME NEW s \in Seq(Objects), NEW t \in Seq(Objects), NEW i \in 1..Len(s),
         Len(t) = Len(s) - 1, \A j \in 1..Len(t) : t[j] = s[Skip(i, j)]
  PROVE  t = SubSeq(s, 1, i - 1) \o SubSeq(s, i + 1, Len(s))
<1> DEFINE a == SubSeq(s, 1, i - 1)
           b == SubSeq(s, i + 1, Len(s))
           u == a \o b
<1>1. a \in Seq(Objects) /\ Len(a) = i - 1 /\ \A j \in 1..i - 1 : a[j] = s[j]
  OBVIOUS
<1>2. b \in Seq(Objects) /\ Len(b) = Len(s) - i /\ \A j \in 1..Len(s) - i : b[j] = s[i + j]
  OBVIOUS
<1> HIDE DEF a, b
<1>3. u \in Seq(Objects) /\ Len(u) = Len(s) - 1
      /\ \A j \in 1..Len(u) : u[j] = IF j <= Len(a) THEN a[j] ELSE b[j - Len(a)]
  BY <1>1, <1>2
<1> HIDE DEF u
<1>4. ASSUME NEW j \in 1..Len(s) - 1 PROVE u[j] = s[Skip(i, j)]
  <2>1. CASE j < i
    BY <1>1, <1>3, <2>1 DEF Skip
  <2>2. CASE ~(j < i)
    <3>1. j - (i - 1) \in 1..Len(s) - i /\ i + (j - (i - 1)) = j + 1 /\ ~(j <= Len(a))
      BY <1>1, <2>2
    <3>2. u[j] = b[j - (i - 1)]
      BY <1>1, <1>3, <3>1
    <3> QED BY <1>2, <2>2, <3>1, <3>2 DEF Skip
  <2> QED BY <2>1, <2>2
<1>5. t = u
  BY <1>3, <1>4
<1> QED BY <1>5 DEF u, a, b

-----------------------------------------------------------------------------
(* What becomes of the view                                                 *)

\* Sequences and places in them that differ by one value: q in r, p in s.
Appended(r, q, s, p, v) == r = Append(s, v) /\ q = p
Prepended(r, q, s, p, v) == r = <<v>> \o s /\ q = IF p > 0 THEN p + 1 ELSE p
Reduced(r, q, s, p, i) ==
  /\ r = SubSeq(s, 1, i - 1) \o SubSeq(s, i + 1, Len(s))
  /\ q = IF p = i THEN -1 ELSE IF p > i THEN p - 1 ELSE p

\* t is an address more, and r has a value more than s.
OneAddress(new, mem, t, r, s) == DOMAIN new = DOMAIN mem \cup {t} /\ Len(r) = Len(s) + 1

\* A value more behind the others.
LEMMA ViewBehind ==
  ASSUME NEW mem, NEW top, Memory(mem, top), NEW cur \in 0..top, NEW t \in Nat, t > top,
         NEW c, NEW s, NEW p, View(c, mem, cur, s, p), NEW v \in Objects,
         NEW new, NEW d, NEW r, NEW q, View(d, new, cur, r, q), OneAddress(new, mem, t, r, s),
         Behind(d, c, Len(s), new, mem, t, v)
  PROVE  Appended(r, q, s, p, v)
<1> USE DEF Behind, OneAddress
<1>1. s \in Seq(Objects) /\ r \in Seq(Objects) /\ Len(s) \in Nat
  BY DEF View
<1>2. \A j \in 1..Len(s) + 1 : r[j] = new[d[j]].value
  BY DEF View
<1>3. \A j \in 1..Len(s) : r[j] = s[j]
  BY <1>1, <1>2 DEF View
<1>4. r[Len(s) + 1] = v
  BY <1>1, <1>2
<1>5. r = Append(s, v)
  BY <1>1, <1>3, <1>4, OneBehind
<1>6. q = p
  <2>1. CASE cur = Null
    BY <2>1 DEF View
  <2>2. CASE cur \in DOMAIN mem
    <3>1. PICK j \in 1..Len(s) : cur = c[j]
      BY <2>2 DEF View
    <3>2. j \in 1..Len(r) /\ cur = d[j]
      BY <1>1, <3>1
    <3> QED BY <3>1, <3>2 DEF View
  <2>3. CASE cur # Null /\ cur \notin DOMAIN mem
    <3>1. cur \notin DOMAIN new
      BY <2>3 DEF Memory
    <3> QED BY <2>3, <3>1 DEF View
  <2> QED BY <2>1, <2>2, <2>3
<1> QED BY <1>5, <1>6 DEF Appended

\* A value more before the others.
LEMMA ViewBefore ==
  ASSUME NEW mem, NEW top, Memory(mem, top), NEW cur \in 0..top, NEW t \in Nat, t > top,
         NEW c, NEW s, NEW p, View(c, mem, cur, s, p), NEW v \in Objects,
         NEW new, NEW d, NEW r, NEW q, View(d, new, cur, r, q), OneAddress(new, mem, t, r, s),
         Before(d, c, Len(s), new, mem, t, v)
  PROVE  Prepended(r, q, s, p, v)
<1> USE DEF Before, OneAddress
<1>1. s \in Seq(Objects) /\ r \in Seq(Objects) /\ Len(s) \in Nat /\ 1 \in 1..Len(r)
  BY DEF View
<1>2. \A j \in 1..Len(s) + 1 : r[j] = new[d[j]].value
  BY DEF View
<1>3. \A j \in 1..Len(s) : j + 1 \in 1..Len(s) + 1 /\ r[j + 1] = s[j]
  BY <1>1, <1>2 DEF View
<1>4. r[1] = v
  BY <1>1, <1>2
<1>5. r = <<v>> \o s
  BY <1>1, <1>3, <1>4, OneBefore
<1>6. q = IF p > 0 THEN p + 1 ELSE p
  <2>1. CASE cur = Null
    BY <2>1 DEF View
  <2>2. CASE cur \in DOMAIN mem
    <3>1. PICK j \in 1..Len(s) : cur = c[j]
      BY <2>2 DEF View
    <3>2. j + 1 \in 1..Len(r) /\ cur = d[j + 1]
      BY <1>1, <3>1
    <3>3. p = j /\ q = j + 1
      BY <3>1, <3>2 DEF View
    <3> QED BY <3>1, <3>3
  <2>3. CASE cur # Null /\ cur \notin DOMAIN mem
    <3>1. cur \notin DOMAIN new
      BY <2>3 DEF Memory
    <3> QED BY <2>3, <3>1 DEF View
  <2> QED BY <2>1, <2>2, <2>3
<1> QED BY <1>5, <1>6 DEF Prepended

\* A value less.
LEMMA ViewWithout ==
  ASSUME NEW mem, NEW cur, NEW c, NEW s, NEW p, View(c, mem, cur, s, p),
         \A j, k \in 1..Len(s) : c[j] = c[k] => j = k,
         NEW i \in 1..Len(s), NEW new, Taken(new, mem, c[i]),
         NEW r, NEW q, View(Left(c, Len(s), i), new, cur, r, q), Len(r) = Len(s) - 1
  PROVE  Reduced(r, q, s, p, i)
<1> DEFINE d == Left(c, Len(s), i)
<1>1. s \in Seq(Objects) /\ r \in Seq(Objects) /\ Len(s) \in Nat
  BY DEF View
<1>2. \A j \in 1..Len(r) : Skip(i, j) \in 1..Len(s) /\ d[j] = c[Skip(i, j)]
  BY <1>1 DEF Skip, Left
<1> HIDE DEF d
<1>3. \A j \in 1..Len(r) : d[j] \in DOMAIN new /\ r[j] = new[d[j]].value
  BY DEF View, d
<1>4. \A j \in 1..Len(r) : r[j] = s[Skip(i, j)]
  BY <1>2, <1>3 DEF View, Taken
<1>5. r = SubSeq(s, 1, i - 1) \o SubSeq(s, i + 1, Len(s))
  BY <1>1, <1>4, OneOut
<1>6. q = IF p = i THEN -1 ELSE IF p > i THEN p - 1 ELSE p
  <2>1. CASE cur = Null
    <3>1. p = 0 /\ q = 0
      BY <2>1 DEF View
    <3> QED BY <3>1
  <2>2. CASE cur # Null /\ cur \notin DOMAIN mem
    <3>1. p = -1 /\ q = -1
      BY <2>2 DEF View, Taken
    <3> QED BY <3>1
  <2>3. CASE cur \in DOMAIN mem
    <3>1. PICK k \in 1..Len(s) : cur = c[k]
      BY <2>3 DEF View
    <3>2. p = k /\ cur # Null
      BY <3>1 DEF View
    <3>3. CASE k = i
      <4>1. q = -1
        BY <3>1, <3>2, <3>3 DEF View, Taken
      <4> QED BY <3>2, <3>3, <4>1
    <3>4. CASE k < i
      <4>1. k \in 1..Len(r) /\ Skip(i, k) = k
        BY <1>1, <3>4 DEF Skip
      <4>2. q = k
        BY <1>2, <3>1, <4>1 DEF View, d
      <4> QED BY <3>2, <3>4, <4>2
    <3>5. CASE k > i
      <4>1. k - 1 \in 1..Len(r) /\ Skip(i, k - 1) = k
        BY <1>1, <3>5 DEF Skip
      <4>2. q = k - 1
        BY <1>2, <3>1, <4>1 DEF View, d
      <4> QED BY <3>2, <3>5, <4>2
    <3> QED BY <3>3, <3>4, <3>5
  <2> QED BY <2>1, <2>2, <2>3
<1> QED BY <1>5, <1>6 DEF Reduced

-----------------------------------------------------------------------------
(* One step                                                                 *)

\* A new list is the empty sequence.
LEMMA InitOK == ListInit => ListInv /\ AsSequence!Init
<1> SUFFICES ASSUME ListInit PROVE ListInv /\ AsSequence!Init
  OBVIOUS
<1> DEFINE c == [j \in 1..0 |-> Null]
<1>1. DOMAIN elems = {} /\ newest = 0 /\ count_ = 0 /\ first_ = Null /\ last_ = Null /\ cur_ = Null /\ state = "live"
  BY DEF ListInit
<1>2. Memory(elems, newest)
  BY <1>1 DEF Memory
<1>3. Chained(c, count_, elems, first_, last_)
  BY <1>1 DEF Chained
<1> HIDE DEF c
<1>4. cur_ \in 0..newest /\ state # "destroyed"
  BY <1>1 DEF Null
<1>5. ListInv
  BY <1>1, <1>2, <1>3, <1>4 DEF ListInv
<1>6. View(c, elems, cur_, ListContents, Place) /\ Len(ListContents) = count_
  BY <1>2, <1>3, NowView
<1>7. ListContents = <<>>
  BY <1>1, <1>6, NoValues DEF View
<1>8. Place = 0
  BY <1>1, <1>6 DEF View
<1> QED BY <1>5, <1>7, <1>8 DEF ListInit, AsSequence!Init, AsSequence!Over

\* The memory after a step on a list, and the chain in it, make the invariant again.
LEMMA StillList ==
  ASSUME Memory(elems', newest'), cur_' \in 0..newest', state' = "live" \/ state' = "broken",
         NEW d, Chained(d, count_', elems', first_', last_')
  PROVE  ListInv' /\ View(d, elems', cur_', ListContents', Place') /\ Len(ListContents') = count_'
<1>1. state' \in {"live", "broken", "destroyed"} /\ state' # "destroyed"
  OBVIOUS
<1>2. View(d, elems', cur_', ListContents', Place') /\ Len(ListContents') = count_'
  BY NextView
<1> QED BY <1>1, <1>2 DEF ListInv

\* What is the same when a call only looks.
LEMMA Looking ==
  ASSUME ListInv, state = "live", Same, state' = "live" \/ state' = "broken"
  PROVE  ListInv' /\ ListContents' = ListContents /\ Place' = Place
<1>1. UNCHANGED <<elems, newest, first_, last_, count_, cur_>>
  BY DEF Same
<1>2. ListContents' = ListContents /\ Place' = Place
  BY <1>1, Views
<1>3. state # "destroyed" /\ state' # "destroyed" /\ state' \in {"live", "broken", "destroyed"}
  OBVIOUS
<1> QED BY <1>1, <1>2, <1>3 DEF ListInv

\* PushBack of the list is PushBack of the sequence.
LEMMA PushBackStep ==
  ASSUME ListInv, NEW v \in Objects, ListPushBack(v)
  PROVE  ListInv' /\ AsSequence!PushBack(v)
<1> DEFINE t == newest'
<1>1. /\ state = "live" /\ state' = "live" /\ listCall' = <<"PushBack", v>> /\ listAnswer' = listAnswer /\ cur_' = cur_
      /\ newest' = newest + 1 /\ count_' = count_ + 1
  BY DEF ListPushBack, ListCalls
<1>2. state # "destroyed" /\ Memory(elems, newest) /\ cur_ \in 0..newest
  BY <1>1 DEF ListInv
<1>3. PICK c : /\ Chained(c, count_, elems, first_, last_) /\ View(c, elems, cur_, ListContents, Place)
               /\ Len(ListContents) = count_ /\ count_ \in Nat
  BY <1>2, HasChain
<1>4. t \in Nat /\ t > newest /\ cur_' \in 0..t
  BY <1>1, <1>2 DEF Memory
<1>5. PushedBack(elems', elems, first_, last_, t, v)
  BY DEF ListPushBack, PushedBack
<1>6. first_' = Stays(first_, first_, t) /\ last_' = t
  BY DEF ListPushBack, Stays
<1> HIDE DEF t
<1>7. Memory(elems', t) /\ PutLast(elems', elems, t, v, last_)
  BY <1>2, <1>3, <1>4, <1>5, BackMemory, Zenon
<1>8. PICK d : Chained(d, count_ + 1, elems', Stays(first_, first_, t), t) /\ Behind(d, c, count_, elems', elems, t, v)
  BY <1>2, <1>3, <1>4, <1>5, BackChain, Zenon
<1>9. Chained(d, count_', elems', first_', last_')
  BY <1>1, <1>6, <1>8
<1>10. ListInv' /\ View(d, elems', cur_', ListContents', Place') /\ Len(ListContents') = count_'
  BY <1>1, <1>4, <1>7, <1>9, StillList DEF t
<1>11. DOMAIN elems' = DOMAIN elems \cup {t}
  BY <1>7 DEF PutLast
<1>12. View(d, elems', cur_, ListContents', Place') /\ OneAddress(elems', elems, t, ListContents', ListContents)
  BY <1>1, <1>3, <1>10, <1>11 DEF OneAddress
<1>13. Behind(d, c, Len(ListContents), elems', elems, t, v)
  BY <1>3, <1>8
<1>14. Appended(ListContents', Place', ListContents, Place, v)
  BY <1>2, <1>3, <1>4, <1>12, <1>13, ViewBehind, Zenon
<1> QED BY <1>1, <1>10, <1>14 DEF Appended, AsSequence!PushBack, AsSequence!Call

\* PushFront of the list is PushFront of the sequence.
LEMMA PushFrontStep ==
  ASSUME ListInv, NEW v \in Objects, PushFront(v)
  PROVE  ListInv' /\ AsSequence!PushFront(v)
<1> DEFINE t == newest'
<1>1. /\ state = "live" /\ state' = "live" /\ listCall' = <<"PushFront", v>> /\ listAnswer' = listAnswer /\ cur_' = cur_
      /\ newest' = newest + 1 /\ count_' = count_ + 1
  BY DEF PushFront, ListCalls
<1>2. state # "destroyed" /\ Memory(elems, newest) /\ cur_ \in 0..newest
  BY <1>1 DEF ListInv
<1>3. PICK c : /\ Chained(c, count_, elems, first_, last_) /\ View(c, elems, cur_, ListContents, Place)
               /\ Len(ListContents) = count_ /\ count_ \in Nat
  BY <1>2, HasChain
<1>4. t \in Nat /\ t > newest /\ cur_' \in 0..t
  BY <1>1, <1>2 DEF Memory
<1>5. PushedFront(elems', elems, first_, t, v)
  BY DEF PushFront, PushedFront
<1>6. first_' = t /\ last_' = Stays(first_, last_, t)
  BY DEF PushFront, Stays
<1> HIDE DEF t
<1>7. Memory(elems', t) /\ PutFirst(elems', elems, t, v, first_)
  BY <1>2, <1>3, <1>4, <1>5, FrontMemory, Zenon
<1>8. PICK d : Chained(d, count_ + 1, elems', t, Stays(first_, last_, t)) /\ Before(d, c, count_, elems', elems, t, v)
  BY <1>2, <1>3, <1>4, <1>5, FrontChain, Zenon
<1>9. Chained(d, count_', elems', first_', last_')
  BY <1>1, <1>6, <1>8
<1>10. ListInv' /\ View(d, elems', cur_', ListContents', Place') /\ Len(ListContents') = count_'
  BY <1>1, <1>4, <1>7, <1>9, StillList DEF t
<1>11. DOMAIN elems' = DOMAIN elems \cup {t}
  BY <1>7 DEF PutFirst
<1>12. View(d, elems', cur_, ListContents', Place') /\ OneAddress(elems', elems, t, ListContents', ListContents)
  BY <1>1, <1>3, <1>10, <1>11 DEF OneAddress
<1>13. Before(d, c, Len(ListContents), elems', elems, t, v)
  BY <1>3, <1>8
<1>14. Prepended(ListContents', Place', ListContents, Place, v)
  BY <1>2, <1>3, <1>4, <1>12, <1>13, ViewBefore, Zenon
<1> QED BY <1>1, <1>10, <1>14 DEF Prepended, AsSequence!PushFront, AsSequence!Call

-----------------------------------------------------------------------------
(* Steps that take an element out                                           *)

\* Element e is taken out of the list.
Removed(e) ==
  /\ Memory(elems', newest') /\ Taken(elems', elems, e)
  /\ first_' = (IF e = first_ THEN elems[e].next_ ELSE first_)
  /\ last_' = (IF e = last_ THEN elems[e].prev_ ELSE last_)
  /\ count_' = count_ - 1 /\ newest' = newest /\ cur_' = cur_ /\ listAnswer' = TRUE /\ state' = state

\* Then its value leaves the contents, and the place moves with the others.
LEMMA TakenOut ==
  ASSUME ListInv, state = "live", NEW c, Chained(c, count_, elems, first_, last_), NEW i \in 1..count_, Removed(c[i])
  PROVE  ListInv' /\ AsSequence!Without(i)
<1>1. Memory(elems, newest) /\ cur_ \in 0..newest
  BY DEF ListInv
<1>2. /\ Memory(elems', newest') /\ Taken(elems', elems, c[i])
      /\ count_' = count_ - 1 /\ newest' = newest /\ cur_' = cur_ /\ listAnswer' = TRUE /\ state' = state
  BY DEF Removed
<1> DEFINE d == Left(c, count_, i)
<1>3. Chained(d, count_ - 1, elems', IF c[i] = first_ THEN elems[c[i]].next_ ELSE first_,
              IF c[i] = last_ THEN elems[c[i]].prev_ ELSE last_)
  BY <1>1, <1>2, ChainTaken
<1>4. View(c, elems, cur_, ListContents, Place) /\ Len(ListContents) = count_
  BY <1>1, NowView
<1> HIDE DEF d
<1>5. Chained(d, count_', elems', first_', last_')
  BY <1>3 DEF Removed
<1>6. ListInv' /\ View(d, elems', cur_', ListContents', Place') /\ Len(ListContents') = count_'
  BY <1>1, <1>2, <1>5, StillList
<1>7. i \in 1..Len(ListContents) /\ Len(ListContents') = Len(ListContents) - 1 /\ d = Left(c, Len(ListContents), i)
  BY <1>2, <1>4, <1>6 DEF d
<1>8. \A j, k \in 1..Len(ListContents) : c[j] = c[k] => j = k
  BY <1>4 DEF Chained
<1>9. View(Left(c, Len(ListContents), i), elems', cur_, ListContents', Place')
  BY <1>2, <1>6, <1>7
<1>10. Reduced(ListContents', Place', ListContents, Place, i)
  BY <1>2, <1>4, <1>7, <1>8, <1>9, ViewWithout
<1> QED BY <1>2, <1>6, <1>10 DEF Reduced, AsSequence!Without, AsSequence!Gone

\* RemoveLast takes out the last element.
LEMMA LastOut ==
  ASSUME ListInv, state = "live", count_ # 0, RemoveLast
  PROVE  Removed(last_)
<1>1. Memory(elems, newest) /\ state # "destroyed"
  BY DEF ListInv
<1>2. PICK c : Chained(c, count_, elems, first_, last_)
  BY <1>1 DEF ListInv
<1>3. last_ \in DOMAIN elems
  BY <1>1, <1>2, ChainType DEF Chained
<1>4. (elems[last_].prev_ = Null <=> last_ = first_) /\ elems[last_].next_ = Null
  BY <1>1, <1>2, <1>3, Neighbours
<1>5. FreedLast(elems', elems, last_)
  BY DEF RemoveLast, FreedLast
<1>6. Memory(elems', newest) /\ Taken(elems', elems, last_)
  BY <1>1, <1>2, <1>5, LastTaken
<1>7. /\ count_' = count_ - 1 /\ newest' = newest /\ cur_' = cur_ /\ listAnswer' = TRUE /\ state' = state
      /\ IF elems[last_].prev_ # Null THEN last_' = elems[last_].prev_ /\ first_' = first_ ELSE first_' = Null /\ last_' = Null
  BY DEF RemoveLast, Returns
<1> QED BY <1>4, <1>6, <1>7 DEF Removed

\* PopFront takes out the first one.
LEMMA FirstOut ==
  ASSUME ListInv, state = "live", count_ # 0, PopFront
  PROVE  Removed(first_)
<1>1. Memory(elems, newest) /\ state # "destroyed"
  BY DEF ListInv
<1>2. PICK c : Chained(c, count_, elems, first_, last_)
  BY <1>1 DEF ListInv
<1>3. first_ \in DOMAIN elems
  BY <1>1, <1>2, ChainType DEF Chained
<1>4. (elems[first_].next_ = Null <=> last_ = first_) /\ elems[first_].prev_ = Null
  BY <1>1, <1>2, <1>3, Neighbours
<1>5. FreedFirst(elems', elems, first_)
  BY DEF PopFront, FreedFirst
<1>6. Memory(elems', newest) /\ Taken(elems', elems, first_)
  BY <1>1, <1>2, <1>5, FirstTaken
<1>7. /\ count_' = count_ - 1 /\ newest' = newest /\ cur_' = cur_ /\ listAnswer' = TRUE /\ state' = state
      /\ IF elems[first_].next_ # Null THEN first_' = elems[first_].next_ /\ last_' = last_ ELSE first_' = Null /\ last_' = Null
  BY DEF PopFront, Returns
<1> QED BY <1>4, <1>6, <1>7 DEF Removed

\* The index as a caller of AbstractList counts.
FromOne(index) == IF index < 0 THEN 1 ELSE index + 1

\* GetElementAt finds the element in the place that is asked for, and null outside the list.
LEMMA ElementAt ==
  ASSUME ListInv, state = "live", NEW c, Chained(c, count_, elems, first_, last_), NEW index \in Int
  PROVE  GetElementAt(index) = IF FromOne(index) \in 1..count_ THEN c[FromOne(index)] ELSE Null
<1>1. Memory(elems, newest)
  BY DEF ListInv
<1>2. count_ \in Nat /\ first_ = IF count_ = 0 THEN Null ELSE c[1]
  BY DEF Chained
<1>3. Nth = [k \in 0..count_ |-> IF k = count_ THEN Null ELSE c[k + 1]]
  BY <1>1, AtWalk, ChainWalk
<1>4. CASE index > count_
  BY <1>2, <1>4 DEF GetElementAt, FromOne
<1>5. CASE index < 0
  BY <1>2, <1>5 DEF GetElementAt, FromOne
<1>6. CASE index \in 0..count_
  <2>1. Nth[index] = IF index = count_ THEN Null ELSE c[index + 1]
    BY <1>3, <1>6
  <2> QED BY <1>2, <1>6, <2>1 DEF GetElementAt, FromOne
<1> QED BY <1>2, <1>4, <1>5, <1>6

\* Remove breaks on the first of several elements, and takes out any other.
LEMMA RemoveStep ==
  ASSUME ListInv, state = "live", NEW c, Chained(c, count_, elems, first_, last_), NEW index \in Int, Remove(index)
  PROVE  \/ FromOne(index) \notin 1..count_ /\ Returns(FALSE) /\ Same
         \/ /\ FromOne(index) \in 1..count_ /\ (FromOne(index) > 1 \/ count_ = 1)
            /\ Removed(c[FromOne(index)])
         \/ FromOne(index) = 1 /\ 1 \in 1..count_ /\ count_ # 1 /\ Breaks
<1> DEFINE i == FromOne(index)
           e == GetElementAt(index)
<1>1. Memory(elems, newest) /\ count_ \in Nat
  BY DEF ListInv, Chained
<1>2. e = IF i \in 1..count_ THEN c[i] ELSE Null
  BY ElementAt
<1>3. IF e = Null THEN Returns(FALSE) /\ Same
      ELSE IF elems[e].next_ = Null THEN RemoveLast
      ELSE IF elems[e].prev_ = Null THEN Breaks
      ELSE /\ elems' = Freed([elems EXCEPT ![elems[e].prev_].next_ = elems[e].next_,
                                           ![elems[e].next_].prev_ = elems[e].prev_], e)
           /\ count_' = count_ - 1 /\ Returns(TRUE) /\ UNCHANGED <<newest, first_, last_, cur_>>
  BY DEF Remove
<1>4. i \in Nat
  BY DEF FromOne
<1> HIDE DEF e, i
<1>5. CASE i \notin 1..count_
  BY <1>2, <1>3, <1>5 DEF i
<1>6. CASE i \in 1..count_
  <2>1. e = c[i] /\ e \in DOMAIN elems /\ e # Null
    BY <1>1, <1>2, <1>6, ChainType
  <2>2. /\ elems[e].next_ = Null <=> e = last_
        /\ elems[e].prev_ = Null <=> e = first_
    BY <1>1, <2>1, Neighbours
  <2>3. count_ # 0 /\ first_ = c[1] /\ last_ = c[count_] /\ (e = last_ <=> i = count_) /\ (e = first_ <=> i = 1)
    BY <1>1, <1>6, <2>1 DEF Chained
  <2>4. CASE e = last_
    <3>1. Removed(last_)
      BY <1>3, <2>1, <2>2, <2>3, <2>4, LastOut
    <3>2. i > 1 \/ count_ = 1
      BY <1>1, <1>6, <2>3, <2>4
    <3> QED BY <1>6, <2>1, <2>4, <3>1, <3>2 DEF i
  <2>5. CASE e # last_ /\ e = first_
    BY <1>1, <1>3, <1>6, <2>1, <2>2, <2>3, <2>5 DEF i
  <2>6. CASE e # last_ /\ e # first_
    <3>1. /\ elems' = Freed([elems EXCEPT ![elems[e].prev_].next_ = elems[e].next_,
                                          ![elems[e].next_].prev_ = elems[e].prev_], e)
          /\ count_' = count_ - 1 /\ Returns(TRUE) /\ UNCHANGED <<newest, first_, last_, cur_>>
      BY <1>3, <2>1, <2>2, <2>6
    <3>2. Memory(elems', newest) /\ Taken(elems', elems, e)
      BY <1>1, <2>1, <2>2, <2>6, <3>1, MiddleTaken
    <3>3. Removed(e)
      BY <2>6, <3>1, <3>2 DEF Removed, Returns
    <3>4. i > 1
      BY <1>4, <1>6, <2>3, <2>6
    <3> QED BY <1>6, <2>1, <3>3, <3>4 DEF i
  <2> QED BY <2>4, <2>5, <2>6
<1> QED BY <1>5, <1>6

\* A list without elements shows the empty sequence.
LEMMA EmptyList ==
  ASSUME ListInv, state = "live"
  PROVE  /\ count_ \in Nat /\ Len(ListContents) = count_ /\ ListContents \in Seq(Objects)
         /\ (ListContents = <<>> <=> count_ = 0) /\ (first_ = Null <=> count_ = 0) /\ (last_ = Null <=> count_ = 0)
<1>1. Memory(elems, newest) /\ state # "destroyed"
  BY DEF ListInv
<1>2. PICK c : Chained(c, count_, elems, first_, last_) /\ View(c, elems, cur_, ListContents, Place)
               /\ Len(ListContents) = count_ /\ count_ \in Nat
  BY <1>1, HasChain
<1>3. ListContents \in Seq(Objects)
  BY <1>2 DEF View
<1>4. (first_ = Null <=> count_ = 0) /\ (last_ = Null <=> count_ = 0)
  BY <1>1, <1>2, ChainType
<1> QED BY <1>2, <1>3, <1>4, NoValues

\* PopBack takes the last value of the sequence.
LEMMA PopBackStep ==
  ASSUME ListInv, ListPopBack
  PROVE  ListInv' /\ AsSequence!Pop("PopBack", Len(ListContents))
<1>1. state = "live" /\ listCall' = <<"PopBack", 0>> /\ Len(ListContents) = count_ /\ (ListContents = <<>> <=> count_ = 0)
  BY EmptyList DEF ListPopBack, ListCalls
<1>2. CASE count_ = 0
  <2>1. Same /\ listAnswer' = FALSE /\ state' = state
    BY <1>2 DEF ListPopBack, Returns
  <2>2. ListInv' /\ ListContents' = ListContents /\ Place' = Place
    BY <1>1, <2>1, Looking
  <2> QED BY <1>1, <1>2, <2>1, <2>2 DEF AsSequence!Pop, AsSequence!Call, AsSequence!Answer
<1>3. CASE count_ # 0
  <2>1. PICK c : Chained(c, count_, elems, first_, last_)
    BY <1>1 DEF ListInv
  <2>2. count_ \in 1..count_ /\ last_ = c[count_]
    BY <1>3, <2>1 DEF Chained
  <2>3. Removed(last_)
    BY <1>1, <1>3, LastOut DEF ListPopBack
  <2>4. ListInv' /\ AsSequence!Without(count_) /\ state' = state
    BY <1>1, <2>1, <2>2, <2>3, TakenOut DEF Removed
  <2> QED BY <1>1, <1>3, <2>4 DEF AsSequence!Pop, AsSequence!Call
<1> QED BY <1>2, <1>3

\* PopFront takes the first value of the sequence.
LEMMA PopFrontStep ==
  ASSUME ListInv, PopFront
  PROVE  ListInv' /\ AsSequence!Pop("PopFront", 1)
<1>1. state = "live" /\ listCall' = <<"PopFront", 0>> /\ (ListContents = <<>> <=> count_ = 0)
  BY EmptyList DEF PopFront, ListCalls
<1>2. CASE count_ = 0
  <2>1. Same /\ listAnswer' = FALSE /\ state' = state
    BY <1>2 DEF PopFront, Returns
  <2>2. ListInv' /\ ListContents' = ListContents /\ Place' = Place
    BY <1>1, <2>1, Looking
  <2> QED BY <1>1, <1>2, <2>1, <2>2 DEF AsSequence!Pop, AsSequence!Call, AsSequence!Answer
<1>3. CASE count_ # 0
  <2>1. PICK c : Chained(c, count_, elems, first_, last_)
    BY <1>1 DEF ListInv
  <2>2. 1 \in 1..count_ /\ first_ = c[1]
    BY <1>3, <2>1 DEF Chained
  <2>3. Removed(first_)
    BY <1>1, <1>3, FirstOut
  <2>4. ListInv' /\ AsSequence!Without(1) /\ state' = state
    BY <1>1, <2>1, <2>2, <2>3, TakenOut DEF Removed
  <2> QED BY <1>1, <1>3, <2>4 DEF AsSequence!Pop, AsSequence!Call
<1> QED BY <1>2, <1>3

\* Remove is what DeleteAt of the sequence does.
LEMMA RemoveView ==
  ASSUME ListInv, state = "live", NEW index \in Int, Remove(index)
  PROVE  /\ ListInv'
         /\ state' = IF ListContents = <<>> \/ AsSequence!Second(FromOne(index)) THEN "live" ELSE "broken"
         /\ IF FromOne(index) > Len(ListContents) THEN AsSequence!Answer(FALSE)
            ELSE IF AsSequence!Second(FromOne(index)) THEN AsSequence!Without(FromOne(index))
            ELSE AsSequence!Answer(listAnswer)
<1> DEFINE i == FromOne(index)
<1>1. count_ \in Nat /\ Len(ListContents) = count_ /\ (ListContents = <<>> <=> count_ = 0)
  BY EmptyList
<1>2. PICK c : Chained(c, count_, elems, first_, last_)
  BY DEF ListInv
<1>3. i \in Nat /\ i # 0
  BY DEF FromOne
<1>4. \/ i \notin 1..count_ /\ Returns(FALSE) /\ Same
      \/ i \in 1..count_ /\ (i > 1 \/ count_ = 1) /\ Removed(c[i])
      \/ i = 1 /\ 1 \in 1..count_ /\ count_ # 1 /\ Breaks
  BY <1>2, RemoveStep
<1> HIDE DEF i
<1>5. CASE i \notin 1..count_ /\ Returns(FALSE) /\ Same
  <2>1. ListInv' /\ ListContents' = ListContents /\ Place' = Place /\ listAnswer' = FALSE /\ state' = state
    BY <1>5, Looking DEF Returns
  <2>2. i > count_ /\ (count_ # 0 => i > 1)
    BY <1>1, <1>3, <1>5
  <2> QED BY <1>1, <2>1, <2>2 DEF i, AsSequence!Second, AsSequence!Answer
<1>6. CASE i \in 1..count_ /\ (i > 1 \/ count_ = 1) /\ Removed(c[i])
  <2>1. ListInv' /\ AsSequence!Without(i)
    BY <1>2, <1>6, TakenOut
  <2>2. state' = state
    BY <1>6 DEF Removed
  <2>3. ~(i > count_)
    BY <1>1, <1>6
  <2> QED BY <1>1, <1>6, <2>1, <2>2, <2>3 DEF i, AsSequence!Second
<1>7. CASE i = 1 /\ 1 \in 1..count_ /\ count_ # 1 /\ Breaks
  <2>1. ListInv' /\ ListContents' = ListContents /\ Place' = Place /\ listAnswer' = listAnswer /\ state' = "broken"
    <3>1. Same /\ listAnswer' = listAnswer /\ state' = "broken"
      BY <1>7 DEF Breaks, Same
    <3> QED BY <3>1, Looking
  <2>2. ~(i > count_) /\ ~(i > 1) /\ count_ # 0
    BY <1>1, <1>7
  <2> QED BY <1>1, <1>7, <2>1, <2>2 DEF i, AsSequence!Second, AsSequence!Answer
<1> QED BY <1>4, <1>5, <1>6, <1>7

\* DeleteAt of the list is DeleteAt of the sequence.
LEMMA DeleteAtStep ==
  ASSUME ListInv, NEW index \in Int, DeleteAt(index)
  PROVE  ListInv' /\ AsSequence!DeleteAt(index)
<1>1. state = "live" /\ listCall' = <<"DeleteAt", index>> /\ Remove(index)
  BY DEF DeleteAt, ListCalls
<1>2. /\ ListInv'
      /\ state' = IF ListContents = <<>> \/ AsSequence!Second(FromOne(index)) THEN "live" ELSE "broken"
      /\ IF FromOne(index) > Len(ListContents) THEN AsSequence!Answer(FALSE)
         ELSE IF AsSequence!Second(FromOne(index)) THEN AsSequence!Without(FromOne(index))
         ELSE AsSequence!Answer(listAnswer)
  BY <1>1, RemoveView
<1> QED BY <1>1, <1>2 DEF AsSequence!DeleteAt, AsSequence!Call, FromOne

-----------------------------------------------------------------------------
(* Steps that search                                                        *)

\* The loop of Find comes upon the values that the sequence has before its last.
LEMMA WhereView ==
  ASSUME ListInv, state = "live", NEW v
  PROVE  /\ Where(v) \subseteq Nat /\ AsSequence!Where(v) \subseteq Nat \ {0}
         /\ \A k \in Nat : k \in Where(v) <=> k + 1 \in AsSequence!Where(v)
<1>1. Memory(elems, newest) /\ state # "destroyed"
  BY DEF ListInv
<1>2. PICK c : /\ Chained(c, count_, elems, first_, last_) /\ View(c, elems, cur_, ListContents, Place)
               /\ Len(ListContents) = count_ /\ count_ \in Nat
  BY <1>1, HasChain
<1>3. Nth = [k \in 0..count_ |-> IF k = count_ THEN Null ELSE c[k + 1]]
  BY <1>1, <1>2, AtWalk, ChainWalk
<1>4. ASSUME NEW k \in 0..count_ - 1
      PROVE  /\ elems[Nth[k]].next_ # Null <=> k + 1 # count_
             /\ elems[Nth[k]].value = ListContents[k + 1]
  <2>1. Nth[k] = c[k + 1] /\ k + 1 \in 1..count_
    BY <1>2, <1>3
  <2>2. c[k + 1] \in DOMAIN elems /\ elems[c[k + 1]].value = ListContents[k + 1]
    BY <1>2, <2>1 DEF View
  <2>3. elems[c[k + 1]].next_ = Null <=> c[k + 1] = last_
    BY <1>1, <1>2, <2>2, Neighbours
  <2>4. c[k + 1] = last_ <=> k + 1 = count_
    <3>1. count_ \in 1..count_ /\ last_ = c[count_]
      BY <1>2, <2>1 DEF Chained
    <3> QED BY <1>2, <2>1, <3>1 DEF Chained
  <2> QED BY <2>1, <2>2, <2>3, <2>4
<1>5. Where(v) \subseteq Nat /\ AsSequence!Where(v) \subseteq Nat \ {0}
  BY <1>2 DEF Where, AsSequence!Where
<1>6. ASSUME NEW k \in Nat PROVE k \in Where(v) <=> k + 1 \in AsSequence!Where(v)
  <2>1. CASE k \in 0..count_ - 1
    <3>1. k + 1 # count_ <=> k + 1 \in 1..count_ - 1
      BY <1>2, <2>1
    <3>2. k \in Where(v) <=> (k + 1 # count_ /\ ListContents[k + 1] = v)
      BY <1>4, <2>1 DEF Where
    <3>3. k + 1 \in AsSequence!Where(v) <=> (k + 1 \in 1..count_ - 1 /\ ListContents[k + 1] = v)
      BY <1>2 DEF AsSequence!Where
    <3> QED BY <3>1, <3>2, <3>3
  <2>2. CASE k \notin 0..count_ - 1
    <3>1. k + 1 \notin 1..count_ - 1
      BY <1>2, <2>2
    <3> QED BY <1>2, <2>2, <3>1 DEF Where, AsSequence!Where
  <2> QED BY <2>1, <2>2
<1> QED BY <1>5, <1>6

\* They stop at the same one.
LEMMA FirstView ==
  ASSUME ListInv, state = "live", NEW v
  PROVE  /\ Where(v) = {} <=> AsSequence!Where(v) = {}
         /\ Where(v) # {} => /\ FirstOf(v) \in Nat /\ AsSequence!FirstOf(v) = FirstOf(v) + 1
                             /\ FirstOf(v) + 1 \in AsSequence!Where(v)
<1> DEFINE A == Where(v)
           B == AsSequence!Where(v)
<1>1. /\ A \in SUBSET Nat /\ B \in SUBSET Nat /\ 0 \notin B
      /\ \A k \in Nat : k \in A <=> k + 1 \in B
  BY WhereView
<1> DEFINE a == CHOOSE k \in A : \A j \in A : k <= j
           b == CHOOSE i \in B : \A j \in B : i <= j
<1>2. FirstOf(v) = a /\ AsSequence!FirstOf(v) = b
  BY Zenon DEF FirstOf, AsSequence!FirstOf
<1> HIDE DEF A, B
<1>3. \A j \in B : j - 1 \in A /\ (j - 1) + 1 = j
  <2> TAKE j \in B
  <2>1. j \in Nat /\ j # 0
    BY <1>1
  <2>2. j - 1 \in Nat /\ (j - 1) + 1 = j
    BY <2>1
  <2> QED BY <1>1, <2>2
<1>4. A = {} <=> B = {}
  BY <1>1, <1>3
<1>5. ASSUME A # {} PROVE a \in Nat /\ b = a + 1 /\ a + 1 \in B
  <2>1. \E k \in A : \A j \in A : k <= j
    BY <1>1, <1>5, Least
  <2>2. a \in A /\ \A j \in A : a <= j
    BY <2>1, Zenon
  <2>3. \E k \in B : \A j \in B : k <= j
    BY <1>1, <1>4, <1>5, Least
  <2>4. b \in B /\ \A j \in B : b <= j
    BY <2>3, Zenon
  <2> HIDE DEF a, b
  <2>5. a \in Nat /\ b \in Nat /\ a + 1 \in B /\ b - 1 \in A
    BY <1>1, <1>3, <2>2, <2>4
  <2>6. a <= b - 1 /\ b <= a + 1
    BY <2>2, <2>4, <2>5
  <2> QED BY <2>5, <2>6
<1> QED BY <1>2, <1>4, <1>5 DEF A, B

\* A call that is answered without a change leaves the sequence as it is.
LEMMA AnswerView ==
  ASSUME ListInv, state = "live", NEW a, Returns(a), Same
  PROVE  ListInv' /\ AsSequence!Answer(a) /\ state' = "live"
<1>1. state' = "live" /\ listAnswer' = a
  BY DEF Returns
<1>2. ListInv' /\ ListContents' = ListContents /\ Place' = Place
  BY <1>1, Looking
<1> QED BY <1>1, <1>2 DEF AsSequence!Answer

\* A call that breaks leaves the sequence as it is.
LEMMA BreaksView ==
  ASSUME ListInv, state = "live", Breaks
  PROVE  ListInv' /\ AsSequence!Answer(listAnswer) /\ state' = "broken"
<1>1. Same /\ state' = "broken" /\ listAnswer' = listAnswer
  BY DEF Breaks, Same
<1>2. ListInv' /\ ListContents' = ListContents /\ Place' = Place
  BY <1>1, Looking
<1> QED BY <1>1, <1>2 DEF AsSequence!Answer

\* Find looks at every value but the last.
LEMMA FindStep ==
  ASSUME ListInv, NEW v \in Objects, Find(v)
  PROVE  ListInv' /\ AsSequence!Find(v)
<1>1. state = "live" /\ listCall' = <<"Find", v>>
  BY DEF Find, ListCalls
<1>2. (ListContents = <<>> <=> first_ = Null) /\ (Where(v) = {} <=> AsSequence!Where(v) = {})
  BY <1>1, EmptyList, FirstView
<1>3. CASE first_ = Null
  <2>1. ListInv' /\ AsSequence!Answer(listAnswer) /\ state' = "broken"
    BY <1>1, <1>3, BreaksView DEF Find
  <2> QED BY <1>1, <1>2, <1>3, <2>1 DEF AsSequence!Find, AsSequence!Call
<1>4. CASE first_ # Null
  <2>1. ListInv' /\ AsSequence!Answer(IF Where(v) = {} THEN NoValue ELSE v) /\ state' = "live"
    BY <1>1, <1>4, AnswerView DEF Find
  <2> QED BY <1>1, <1>2, <1>4, <2>1 DEF AsSequence!Find, AsSequence!Call
<1> QED BY <1>3, <1>4

\* FindIndex answers the index of the first that is equal, from 0.
LEMMA FindIndexStep ==
  ASSUME ListInv, NEW v \in Objects, FindIndex(v)
  PROVE  ListInv' /\ AsSequence!FindIndex(v)
<1>1. state = "live" /\ listCall' = <<"FindIndex", v>>
  BY DEF FindIndex, ListCalls
<1>2. /\ ListContents = <<>> <=> first_ = Null
      /\ Where(v) = {} <=> AsSequence!Where(v) = {}
      /\ Where(v) # {} => FirstOf(v) \in Nat /\ AsSequence!FirstOf(v) = FirstOf(v) + 1
  BY <1>1, EmptyList, FirstView
<1>3. CASE first_ = Null
  <2>1. ListInv' /\ AsSequence!Answer(listAnswer) /\ state' = "broken"
    BY <1>1, <1>3, BreaksView DEF FindIndex
  <2> QED BY <1>1, <1>2, <1>3, <2>1 DEF AsSequence!FindIndex, AsSequence!Call
<1>4. CASE first_ # Null
  <2>1. ListInv' /\ AsSequence!Answer(IF Where(v) = {} THEN -1 ELSE FirstOf(v)) /\ state' = "live"
    BY <1>1, <1>4, AnswerView DEF FindIndex
  <2>2. Where(v) # {} => AsSequence!FirstOf(v) - 1 = FirstOf(v)
    BY <1>2
  <2> QED BY <1>1, <1>2, <1>4, <2>1, <2>2 DEF AsSequence!FindIndex, AsSequence!Call
<1> QED BY <1>3, <1>4

\* Delete takes out the first that is equal.
LEMMA DeleteStep ==
  ASSUME ListInv, NEW v \in Objects, Delete(v)
  PROVE  ListInv' /\ AsSequence!Delete(v)
<1>1. state = "live" /\ listCall' = <<"Delete", v>>
  BY DEF Delete, ListCalls
<1>2. /\ ListContents = <<>> <=> first_ = Null
      /\ Where(v) = {} <=> AsSequence!Where(v) = {}
      /\ Where(v) # {} => FirstOf(v) \in Nat /\ AsSequence!FirstOf(v) = FirstOf(v) + 1
  BY <1>1, EmptyList, FirstView
<1>3. CASE first_ = Null
  <2>1. ListInv' /\ AsSequence!Answer(listAnswer) /\ state' = "broken"
    BY <1>1, <1>3, BreaksView DEF Delete
  <2> QED BY <1>1, <1>2, <1>3, <2>1 DEF AsSequence!Delete, AsSequence!Call
<1>4. CASE first_ # Null /\ Where(v) = {}
  <2>1. ListInv' /\ AsSequence!Answer(FALSE) /\ state' = "live"
    BY <1>1, <1>4, AnswerView DEF Delete
  <2> QED BY <1>1, <1>2, <1>4, <2>1 DEF AsSequence!Delete, AsSequence!Call
<1>5. CASE first_ # Null /\ Where(v) # {}
  <2> DEFINE i == FirstOf(v) + 1
  <2>1. FirstOf(v) \in Int /\ FromOne(FirstOf(v)) = i /\ AsSequence!FirstOf(v) = i
    BY <1>2, <1>5 DEF FromOne
  <2>2. Remove(FirstOf(v))
    BY <1>5 DEF Delete
  <2>3. /\ ListInv'
        /\ state' = IF ListContents = <<>> \/ AsSequence!Second(i) THEN "live" ELSE "broken"
        /\ IF i > Len(ListContents) THEN AsSequence!Answer(FALSE)
           ELSE IF AsSequence!Second(i) THEN AsSequence!Without(i) ELSE AsSequence!Answer(listAnswer)
    BY <1>1, <2>1, <2>2, RemoveView
  <2>4. ~(i > Len(ListContents))
    <3>1. i \in AsSequence!Where(v)
      BY <1>1, <1>5, FirstView
    <3>2. Len(ListContents) \in Nat
      BY <1>1, EmptyList
    <3> QED BY <3>1, <3>2 DEF AsSequence!Where
  <2> HIDE DEF i
  <2> QED BY <1>1, <1>2, <1>5, <2>1, <2>3, <2>4 DEF AsSequence!Delete, AsSequence!Call
<1> QED BY <1>3, <1>4, <1>5

\* GetAt answers the value in a place of the sequence.
LEMMA GetAtStep ==
  ASSUME ListInv, NEW index \in Int, GetAt(index)
  PROVE  ListInv' /\ AsSequence!GetAt(index)
<1> DEFINE i == FromOne(index)
           e == GetElementAt(index)
<1>1. state = "live" /\ listCall' = <<"GetAt", index>> /\ Memory(elems, newest) /\ state # "destroyed"
  BY DEF GetAt, ListCalls, ListInv
<1>2. PICK c : /\ Chained(c, count_, elems, first_, last_) /\ View(c, elems, cur_, ListContents, Place)
               /\ Len(ListContents) = count_ /\ count_ \in Nat
  BY <1>1, HasChain
<1>3. e = IF i \in 1..count_ THEN c[i] ELSE Null
  BY <1>1, <1>2, ElementAt
<1>4. i \in Nat /\ i # 0 /\ (index > count_ <=> i > count_ + 1)
  BY <1>2 DEF FromOne
<1>5. \A j \in 1..count_ : c[j] # Null /\ ListContents[j] = elems[c[j]].value
  BY <1>2 DEF View
<1>6. IF index > count_ THEN Returns(NoValue) /\ Same
      ELSE IF e = Null THEN Breaks ELSE Returns(elems[e].value) /\ Same
  BY DEF GetAt
<1> HIDE DEF e, i
<1>7. CASE i > count_ + 1
  <2>1. ListInv' /\ AsSequence!Answer(NoValue) /\ state' = "live"
    BY <1>1, <1>4, <1>6, <1>7, AnswerView
  <2>2. ~(i <= Len(ListContents)) /\ i # Len(ListContents) + 1
    BY <1>2, <1>4, <1>7
  <2> QED BY <1>1, <2>1, <2>2 DEF i, FromOne, AsSequence!GetAt, AsSequence!Call
<1>8. CASE i = count_ + 1
  <2>1. e = Null /\ ~(index > count_)
    BY <1>2, <1>3, <1>4, <1>8
  <2>2. ListInv' /\ AsSequence!Answer(listAnswer) /\ state' = "broken"
    BY <1>1, <1>6, <2>1, BreaksView
  <2>3. ~(i <= Len(ListContents)) /\ i = Len(ListContents) + 1
    BY <1>2, <1>8
  <2> QED BY <1>1, <2>2, <2>3 DEF i, FromOne, AsSequence!GetAt, AsSequence!Call
<1>9. CASE i <= count_
  <2>1. i \in 1..count_ /\ ~(index > count_)
    BY <1>2, <1>4, <1>9
  <2>2. e # Null /\ elems[e].value = ListContents[i]
    BY <1>3, <1>5, <2>1
  <2>3. ListInv' /\ AsSequence!Answer(elems[e].value) /\ state' = "live"
    BY <1>1, <1>6, <2>1, <2>2, AnswerView
  <2>4. i <= Len(ListContents) /\ i # Len(ListContents) + 1
    BY <1>2, <1>4, <1>9
  <2> QED BY <1>1, <2>2, <2>3, <2>4 DEF i, FromOne, AsSequence!GetAt, AsSequence!Call
<1> QED BY <1>2, <1>4, <1>7, <1>8, <1>9

\* Front answers the first value.
LEMMA FrontStep ==
  ASSUME ListInv, ListFront
  PROVE  ListInv' /\ AsSequence!Look("Front", 1)
<1>1. state = "live" /\ listCall' = <<"Front", 0>> /\ state # "destroyed"
  BY DEF ListFront, ListCalls
<1>2. PICK c : /\ Chained(c, count_, elems, first_, last_) /\ View(c, elems, cur_, ListContents, Place)
               /\ Len(ListContents) = count_ /\ count_ \in Nat
  BY <1>1, HasChain
<1>3. (ListContents = <<>> <=> count_ = 0) /\ (first_ = Null <=> count_ = 0)
  BY <1>1, EmptyList
<1>4. count_ # 0 => elems[first_].value = ListContents[1]
  BY <1>2 DEF Chained, View
<1>5. ListInv' /\ AsSequence!Answer(IF first_ = Null THEN NoValue ELSE elems[first_].value) /\ state' = "live"
  BY <1>1, AnswerView DEF ListFront
<1> QED BY <1>1, <1>3, <1>4, <1>5 DEF AsSequence!Look, AsSequence!Call

\* Back answers the last value.
LEMMA BackStep ==
  ASSUME ListInv, ListBack
  PROVE  ListInv' /\ AsSequence!Look("Back", Len(ListContents))
<1>1. state = "live" /\ listCall' = <<"Back", 0>> /\ state # "destroyed"
  BY DEF ListBack, ListCalls
<1>2. PICK c : /\ Chained(c, count_, elems, first_, last_) /\ View(c, elems, cur_, ListContents, Place)
               /\ Len(ListContents) = count_ /\ count_ \in Nat
  BY <1>1, HasChain
<1>3. (ListContents = <<>> <=> count_ = 0) /\ (last_ = Null <=> count_ = 0)
  BY <1>1, EmptyList
<1>4. count_ # 0 => elems[last_].value = ListContents[Len(ListContents)]
  BY <1>2 DEF Chained, View
<1>5. ListInv' /\ AsSequence!Answer(IF last_ = Null THEN NoValue ELSE elems[last_].value) /\ state' = "live"
  BY <1>1, AnswerView DEF ListBack
<1> QED BY <1>1, <1>3, <1>4, <1>5 DEF AsSequence!Look, AsSequence!Call

-----------------------------------------------------------------------------
(* Steps of the iterator, and the end                                       *)

\* ItrReset goes to the first place.
LEMMA ItrResetStep ==
  ASSUME ListInv, ItrReset
  PROVE  ListInv' /\ AsSequence!ItrReset
<1>1. /\ state = "live" /\ listCall' = <<"ItrReset", 0>> /\ state # "destroyed" /\ state' = "live" /\ listAnswer' = listAnswer
      /\ UNCHANGED <<elems, newest, first_, last_, count_>> /\ cur_' = first_
  BY DEF ItrReset, ListCalls
<1>2. PICK c : /\ Chained(c, count_, elems, first_, last_) /\ View(c, elems, cur_, ListContents, Place)
               /\ Len(ListContents) = count_ /\ count_ \in Nat
  BY <1>1, HasChain
<1>3. Memory(elems, newest) /\ (ListContents = <<>> <=> count_ = 0)
  BY <1>1, EmptyList DEF ListInv
<1>4. cur_' \in 0..newest'
  BY <1>1, <1>2, <1>3, ChainType DEF Chained, Memory, Null
<1>5. Memory(elems', newest') /\ Chained(c, count_', elems', first_', last_')
  BY <1>1, <1>2, <1>3
<1>6. ListInv' /\ View(c, elems', cur_', ListContents', Place') /\ Len(ListContents') = count_'
  BY <1>1, <1>4, <1>5, StillList
<1>7. ListContents' = ListContents
  BY <1>1, Views
<1>8. Place' = IF count_ = 0 THEN 0 ELSE 1
  <2>1. CASE count_ = 0
    BY <1>1, <1>2, <1>6, <2>1 DEF Chained, View
  <2>2. CASE count_ # 0
    <3>1. 1 \in 1..Len(ListContents') /\ cur_' = c[1]
      BY <1>1, <1>2, <1>6, <2>2 DEF Chained
    <3> QED BY <1>6, <2>2, <3>1 DEF View
  <2> QED BY <2>1, <2>2
<1> QED BY <1>1, <1>3, <1>6, <1>7, <1>8 DEF AsSequence!ItrReset, AsSequence!Call, AsSequence!Over

\* ItrNext shows the value in its place and goes on to the next.
LEMMA ItrNextStep ==
  ASSUME ListInv, ItrNext
  PROVE  ListInv' /\ AsSequence!ItrNext
<1>1. state = "live" /\ listCall' = <<"ItrNext", 0>> /\ state # "destroyed"
  BY DEF ItrNext, ListCalls
<1>2. PICK c : /\ Chained(c, count_, elems, first_, last_) /\ View(c, elems, cur_, ListContents, Place)
               /\ Len(ListContents) = count_ /\ count_ \in Nat
  BY <1>1, HasChain
<1>3. Memory(elems, newest)
  BY DEF ListInv
<1>4. CASE cur_ = Null
  <2>1. ListInv' /\ AsSequence!Answer(NoValue) /\ state' = "live"
    BY <1>1, <1>4, AnswerView DEF ItrNext
  <2>2. Place = 0
    BY <1>2, <1>4 DEF View
  <2> QED BY <1>1, <2>1, <2>2 DEF AsSequence!ItrNext, AsSequence!Call, AsSequence!Answer, AsSequence!Over, AsSequence!Gone
<1>5. CASE cur_ # Null /\ cur_ \notin DOMAIN elems
  <2>1. ListInv' /\ AsSequence!Answer(listAnswer) /\ state' = "broken"
    BY <1>1, <1>5, BreaksView DEF ItrNext
  <2>2. Place = -1
    BY <1>2, <1>5 DEF View
  <2> QED BY <1>1, <2>1, <2>2 DEF AsSequence!ItrNext, AsSequence!Call, AsSequence!Answer, AsSequence!Over, AsSequence!Gone
<1>6. CASE cur_ # Null /\ cur_ \in DOMAIN elems
  <2>1. /\ cur_' = elems[cur_].next_ /\ listAnswer' = elems[cur_].value /\ state' = "live"
        /\ UNCHANGED <<elems, newest, first_, last_, count_>>
    BY <1>1, <1>6 DEF ItrNext, Returns
  <2>2. PICK j \in 1..count_ : cur_ = c[j] /\ Place = j
    BY <1>2, <1>6 DEF View
  <2>3. listAnswer' = ListContents[j]
    BY <1>2, <2>1, <2>2 DEF View
  <2>4. cur_' = IF j = count_ THEN Null ELSE c[j + 1]
    BY <1>2, <2>1, <2>2 DEF Chained
  <2>5. j \in Nat /\ j # 0 /\ (j # count_ => j + 1 \in 1..count_)
    BY <1>2
  <2>6. cur_' \in 0..newest'
    <3>1. cur_' = Null \/ cur_' \in DOMAIN elems
      BY <1>2, <2>4, <2>5 DEF View
    <3> QED BY <1>3, <2>1, <3>1 DEF Memory, Null
  <2>7. Memory(elems', newest') /\ Chained(c, count_', elems', first_', last_')
    BY <1>2, <1>3, <2>1
  <2>8. ListInv' /\ View(c, elems', cur_', ListContents', Place') /\ Len(ListContents') = count_'
    BY <2>1, <2>6, <2>7, StillList
  <2>9. ListContents' = ListContents
    BY <2>1, Views
  <2>10. Place' = IF j = count_ THEN 0 ELSE j + 1
    <3>1. CASE j = count_
      BY <2>4, <2>8, <3>1 DEF View
    <3>2. CASE j # count_
      <4>1. j + 1 \in 1..Len(ListContents') /\ cur_' = c[j + 1]
        BY <1>2, <2>4, <2>5, <2>9, <3>2
      <4> QED BY <2>8, <3>2, <4>1 DEF View
    <3> QED BY <3>1, <3>2
  <2>11. Place # 0 /\ Place # -1 /\ Place > 0 /\ (Place < Len(ListContents) <=> j # count_)
    BY <1>2, <2>2, <2>5
  <2> QED BY <1>1, <2>1, <2>2, <2>3, <2>8, <2>9, <2>10, <2>11
          DEF AsSequence!ItrNext, AsSequence!Call, AsSequence!Over, AsSequence!Gone
<1> QED BY <1>4, <1>5, <1>6

\* The destructor leaves no element.
LEMMA DestroyStep ==
  ASSUME ListInv, Destroy
  PROVE  ListInv' /\ AsSequence!Destroy
<1>1. /\ state = "live" /\ listCall' = <<"~SimpleList", 0>> /\ state # "destroyed" /\ state' = "destroyed"
      /\ count_' = 0 /\ newest' = newest /\ cur_' = cur_ /\ listAnswer' = listAnswer
  BY DEF Destroy, ListCalls
<1>2. PICK c : /\ Chained(c, count_, elems, first_, last_) /\ View(c, elems, cur_, ListContents, Place)
               /\ Len(ListContents) = count_ /\ count_ \in Nat
  BY <1>1, HasChain
<1>3. Memory(elems, newest) /\ cur_ \in 0..newest
  BY DEF ListInv
<1>4. Nth = [k \in 0..count_ |-> IF k = count_ THEN Null ELSE c[k + 1]]
  BY <1>2, <1>3, AtWalk, ChainWalk
<1>5. ASSUME NEW a \in DOMAIN elems PROVE a \in {Nth[k] : k \in 0..count_}
  <2>1. PICK j \in 1..count_ : c[j] = a
    BY <1>2 DEF Chained
  <2>2. j - 1 \in 0..count_ /\ Nth[j - 1] = c[j]
    BY <1>2, <1>4
  <2> QED BY <2>1, <2>2
<1>6. DOMAIN elems' = {}
  BY <1>5 DEF Destroy
<1>7. Memory(elems', newest')
  BY <1>1, <1>3, <1>6 DEF Memory
<1>8. ListInv'
  BY <1>1, <1>3, <1>6, <1>7 DEF ListInv
<1>9. ListContents' = <<>>
  BY <1>1 DEF ListContents
<1>10. Place' = IF cur_ = Null THEN 0 ELSE -1
  BY <1>1, <1>6, Views DEF PlaceOf
<1>11. Place = 0 <=> cur_ = Null
  <2>1. CASE cur_ = Null
    BY <1>2, <2>1 DEF View
  <2>2. CASE cur_ # Null /\ cur_ \notin DOMAIN elems
    BY <1>2, <2>2 DEF View
  <2>3. CASE cur_ # Null /\ cur_ \in DOMAIN elems
    <3>1. PICK j \in 1..count_ : Place = j
      BY <1>2, <2>3 DEF View
    <3> QED BY <2>3, <3>1
  <2> QED BY <2>1, <2>2, <2>3
<1> QED BY <1>1, <1>8, <1>9, <1>10, <1>11 DEF AsSequence!Destroy, AsSequence!Over, AsSequence!Gone

-----------------------------------------------------------------------------
(* The theorems                                                             *)

\* Every step keeps the invariant and is a step of the sequence.
LEMMA StepOK ==
  ASSUME ListInv, ListNext
  PROVE  ListInv' /\ AsSequence!Next
<1>1. state = "live"
  BY DEF ListNext, ListPushBack, PushFront, Find, FindIndex, Delete, DeleteAt, GetAt, ListPopBack, PopFront,
         ListFront, ListBack, ItrReset, ItrNext, Destroy, ListCalls
<1>2. ASSUME NEW v \in Objects, ListPushBack(v) PROVE ListInv' /\ AsSequence!Next
  BY <1>1, <1>2, PushBackStep DEF AsSequence!Next
<1>3. ASSUME NEW v \in Objects, PushFront(v) PROVE ListInv' /\ AsSequence!Next
  BY <1>1, <1>3, PushFrontStep DEF AsSequence!Next
<1>4. ASSUME NEW v \in Objects, Find(v) PROVE ListInv' /\ AsSequence!Next
  BY <1>1, <1>4, FindStep DEF AsSequence!Next
<1>5. ASSUME NEW v \in Objects, FindIndex(v) PROVE ListInv' /\ AsSequence!Next
  BY <1>1, <1>5, FindIndexStep DEF AsSequence!Next
<1>6. ASSUME NEW v \in Objects, Delete(v) PROVE ListInv' /\ AsSequence!Next
  BY <1>1, <1>6, DeleteStep DEF AsSequence!Next
<1>7. \A index \in ListIndexes : index \in Int
  BY DEF ListIndexes
<1>8. ASSUME NEW index \in ListIndexes, DeleteAt(index) PROVE ListInv' /\ AsSequence!Next
  BY <1>1, <1>7, <1>8, DeleteAtStep DEF AsSequence!Next
<1>9. ASSUME NEW index \in ListIndexes, GetAt(index) PROVE ListInv' /\ AsSequence!Next
  BY <1>1, <1>7, <1>9, GetAtStep DEF AsSequence!Next
<1>10. CASE ListPopBack
  BY <1>1, <1>10, PopBackStep DEF AsSequence!Next
<1>11. CASE PopFront
  BY <1>1, <1>11, PopFrontStep DEF AsSequence!Next
<1>12. CASE ListFront
  BY <1>1, <1>12, FrontStep DEF AsSequence!Next
<1>13. CASE ListBack
  BY <1>1, <1>13, BackStep DEF AsSequence!Next
<1>14. CASE ItrReset
  BY <1>1, <1>14, ItrResetStep DEF AsSequence!Next
<1>15. CASE ItrNext
  BY <1>1, <1>15, ItrNextStep DEF AsSequence!Next
<1>16. CASE Destroy
  BY <1>1, <1>16, DestroyStep DEF AsSequence!Next
<1> QED BY <1>2, <1>3, <1>4, <1>5, <1>6, <1>8, <1>9, <1>10, <1>11, <1>12, <1>13, <1>14, <1>15, <1>16 DEF ListNext

\* Nothing happens to the sequence when nothing happens to the list.
LEMMA StutterOK ==
  ASSUME ListInv, UNCHANGED listVars
  PROVE  ListInv' /\ UNCHANGED <<ListContents, Place, listCall, listAnswer, state>>
<1>1. UNCHANGED <<elems, newest, first_, last_, count_, cur_, listCall, listAnswer, state>>
  BY DEF listVars
<1>2. ListContents' = ListContents /\ Place' = Place
  BY <1>1, Views
<1> QED BY <1>1, <1>2 DEF ListInv

\* The memory in use is at all times a chain between first_ and last_.
THEOREM InvOK == ListSpec => []ListInv
<1>1. ListInit => ListInv
  BY InitOK
<1>2. ListInv /\ [ListNext]_listVars => ListInv'
  BY StepOK, StutterOK
<1> QED BY <1>1, <1>2, PTL DEF ListSpec

\* After every call, in any order, the elements in use are those that are linked
\* between first_ and last_, both ways, and the destructor leaves none.
THEOREM LinksKept == ListSpec => []ListLinked
BY InvOK, InvLinked, PTL

\* The linked list does what the sequence with a place in it does, call by call.
THEOREM Refinement == ListSpec => ImplementsList
<1>1. ListInit => AsSequence!Init
  BY InitOK
<1>2. ListInv /\ [ListNext]_listVars => [AsSequence!Next]_<<ListContents, Place, listCall, listAnswer, state>>
  BY StepOK, StutterOK
<1> QED BY <1>1, <1>2, InvOK, PTL DEF ListSpec, ImplementsList, AsSequence!Spec
=============================================================================
